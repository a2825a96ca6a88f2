------------------------------ MODULE Session ------------------------------
(***************************************************************************)
(* Sessions over the SQLite store (internal/session/session.go, store.go)  *)
(* as the REPL of cmd/main.go uses them: instances of the program open a   *)
(* new session or resume a stored one, load the history of its rounds for  *)
(* the planner, and save each finished round as one insert into "rounds",  *)
(* one insert into "steps" per step of the plan, and an update of the      *)
(* session, without a transaction. Any statement can fail; a failure is    *)
(* returned, logged, and the REPL goes on. An instance can exit anywhere,  *)
(* and two can hold the same session.                                      *)
(*                                                                         *)
(* A round is the number it was saved under and whether its report is      *)
(* empty; what one round's texts say is left out, which rounds a history   *)
(* consists of is not.                                                     *)
(***************************************************************************)
EXTENDS Naturals, Sequences, FiniteSets

CONSTANTS
    Procs,          \* instances of the program
    Ids,            \* session ids
    NoId,           \* the id of no session
    MaxPlanSteps,   \* bound on the steps of a saved plan
    MaxRounds,      \* bound on the rounds stored for a session
    MaxRoundNum     \* bound on a handle's round number

ASSUME BoundsAssumption ==
    /\ MaxPlanSteps \in Nat \ {0}
    /\ MaxRounds \in Nat
    /\ MaxRoundNum \in Nat

ASSUME NoIdAssumption == NoId \notin Ids

VARIABLES
    sessions,   \* table sessions: the ids
    rounds,     \* table rounds: for each session its rows in insertion order
    steps,      \* table steps: <<session, round row, step>>
    pc,         \* where each instance stands
    sid,        \* Session.ID of its handle
    roundNum,   \* Session.RoundNum of its handle
    hist,       \* the history handed to the planner
    cur,        \* the round row being saved and the next of its steps
    acked,      \* history variable: rows whose SaveRound returned nil
    own,        \* history variable: rows an instance resumed from or inserted
    clean       \* history variable: see below

table == <<sessions, rounds, steps>>
vars == <<table, pc, sid, roundNum, hist, cur, acked, own, clean>>

-----------------------------------------------------------------------------
Round == [num : Nat, report : BOOLEAN, planLen : Nat]

\* A history: whether it was read without an error, the rows it is made of,
\* and the row PreviousReport comes from: one, or none if it is empty.
Hist == [ok : BOOLEAN, seen : SUBSET Nat, prev : SUBSET Nat]
NoHistory == [ok |-> TRUE, seen |-> {}, prev |-> {}]
NoRow == [row |-> 0, step |-> 0]

Rows(s) == 1..Len(rounds[s])

\* ORDER BY round_num ASC; rows with the same number come in the order they
\* were inserted in.
Before(s, i, j) ==
    \/ rounds[s][i].num < rounds[s][j].num
    \/ rounds[s][i].num = rounds[s][j].num /\ i < j

\* What GetSessionHistory makes of the rows in seen: the last report that is
\* not empty, in the order of the query, is the previous one.
Reported(s, seen) == {i \in seen : rounds[s][i].report}
Previous(s, seen) ==
    {i \in Reported(s, seen) : \A j \in Reported(s, seen) \ {i} : Before(s, j, i)}

\* The most recently saved of the rows with a report.
Newest(s, seen) == {i \in Reported(s, seen) : \A j \in Reported(s, seen) : j <= i}

\* The rows a scan has seen when it breaks off.
Scanned(s) == {{}} \cup {{j \in Rows(s) : j = i \/ Before(s, j, i)} : i \in Rows(s)}

Live(p) == pc[p] # "down"
Holders(s) == {p \in Procs : Live(p) /\ sid[p] = s}

\* A session is clean as long as it was never held twice at a time and no
\* insert into its rounds failed.
Spoil(s, bad) == clean' = [clean EXCEPT ![s] = @ /\ ~bad]

Init ==
    /\ sessions = {}
    /\ rounds = [s \in Ids |-> <<>>]
    /\ steps = {}
    /\ pc = [p \in Procs |-> "down"]
    /\ sid = [p \in Procs |-> NoId]
    /\ roundNum = [p \in Procs |-> 0]
    /\ hist = [p \in Procs |-> NoHistory]
    /\ cur = [p \in Procs |-> NoRow]
    /\ acked = {}
    /\ own = [p \in Procs |-> {}]
    /\ clean = [s \in Ids |-> TRUE]

\* p takes a handle on s whose round number is n.
Open(p, s, n) ==
    /\ pc' = [pc EXCEPT ![p] = "idle"]
    /\ sid' = [sid EXCEPT ![p] = s]
    /\ roundNum' = [roundNum EXCEPT ![p] = n]
    /\ own' = [own EXCEPT ![p] = Rows(s)]
    /\ UNCHANGED <<rounds, steps, hist, cur, acked>>

-----------------------------------------------------------------------------
\* NewSession: an id not yet used (sess_<milliseconds>); one that is in use
\* violates the primary key, and the program exits before its REPL.
NewSession(p, s) ==
    /\ pc[p] = "down"
    /\ s \notin sessions
    /\ sessions' = sessions \cup {s}
    /\ Open(p, s, 0)
    /\ UNCHANGED clean

\* Variant: a resumed handle starts counting anew.
ResumeSessionAtZero(p, s) ==
    /\ pc[p] = "down"
    /\ s \in sessions
    /\ Open(p, s, 0)
    /\ Spoil(s, Holders(s) # {})
    /\ UNCHANGED sessions

\* Variant: a resumed handle starts at the index of the last round.
ResumeSessionLastIndex(p, s) ==
    /\ pc[p] = "down"
    /\ s \in sessions
    /\ Open(p, s, Len(rounds[s]) - 1)
    /\ Spoil(s, Holders(s) # {})
    /\ UNCHANGED sessions

\* ResumeSession: the handle's round number is the number of rows stored.
ResumeSession(p, s) ==
    /\ pc[p] = "down"
    /\ s \in sessions
    /\ Len(rounds[s]) <= MaxRoundNum
    /\ Open(p, s, Len(rounds[s]))
    /\ Spoil(s, Holders(s) # {})
    /\ UNCHANGED sessions

\* A query is typed: History loads the stored rounds, but none if the handle
\* counts none; when the query fails there is no history, and when the scan
\* breaks off the rounds scanned so far are handed on along with the error,
\* which the REPL only logs.
Ask(p) ==
    LET s == sid[p]
        Read(ok, seen) == [ok |-> ok, seen |-> seen, prev |-> Previous(s, seen)]
    IN  /\ pc[p] = "idle"
        /\ pc' = [pc EXCEPT ![p] = "running"]
        /\ \E h \in IF roundNum[p] = 0 THEN {NoHistory}
                    ELSE {Read(TRUE, Rows(s))} \cup {Read(FALSE, seen) : seen \in Scanned(s)} :
             hist' = [hist EXCEPT ![p] = h]
        /\ UNCHANGED <<table, sid, roundNum, cur, acked, own, clean>>

\* The iteration of the REPL that loaded the history is past using it.
Forget(p) == hist' = [hist EXCEPT ![p] = NoHistory]

\* The planner or the executor fails: the round is dropped.
RoundFails(p) ==
    /\ pc[p] = "running"
    /\ pc' = [pc EXCEPT ![p] = "idle"]
    /\ Forget(p)
    /\ UNCHANGED <<table, sid, roundNum, cur, acked, own, clean>>

\* Variant: the round is counted only once it is stored completely.
SaveRoundUncounted(p) ==
    LET s == sid[p] IN
    /\ pc[p] = "running"
    /\ \E report \in BOOLEAN, n \in 1..MaxPlanSteps :
         /\ Len(rounds[s]) < MaxRounds
         /\ rounds' = [rounds EXCEPT ![s] =
              Append(@, [num |-> roundNum[p] + 1, report |-> report, planLen |-> n])]
         /\ pc' = [pc EXCEPT ![p] = "steps"]
         /\ cur' = [cur EXCEPT ![p] = [row |-> Len(rounds[s]) + 1, step |-> 1]]
         /\ own' = [own EXCEPT ![p] = @ \cup {Len(rounds[s]) + 1}]
    /\ Forget(p)
    /\ UNCHANGED <<sessions, steps, sid, roundNum, acked, clean>>

\* SaveRound counts the round, then inserts it under that number.
SaveRound(p) ==
    LET s == sid[p] IN
    /\ pc[p] = "running"
    /\ roundNum[p] < MaxRoundNum
    /\ roundNum' = [roundNum EXCEPT ![p] = @ + 1]
    /\ \E report \in BOOLEAN, n \in 1..MaxPlanSteps :
         /\ Len(rounds[s]) < MaxRounds
         /\ rounds' = [rounds EXCEPT ![s] =
              Append(@, [num |-> roundNum[p] + 1, report |-> report, planLen |-> n])]
         /\ pc' = [pc EXCEPT ![p] = "steps"]
         /\ cur' = [cur EXCEPT ![p] = [row |-> Len(rounds[s]) + 1, step |-> 1]]
         /\ own' = [own EXCEPT ![p] = @ \cup {Len(rounds[s]) + 1}]
    /\ Forget(p)
    /\ UNCHANGED <<sessions, steps, sid, acked, clean>>

\* SaveRound counts the round, and the insert fails.
SaveRoundFails(p) ==
    /\ pc[p] = "running"
    /\ roundNum[p] < MaxRoundNum
    /\ roundNum' = [roundNum EXCEPT ![p] = @ + 1]
    /\ pc' = [pc EXCEPT ![p] = "idle"]
    /\ Spoil(sid[p], TRUE)
    /\ Forget(p)
    /\ UNCHANGED <<table, sid, cur, acked, own>>

\* Variant: the last step of the plan is not saved.
SaveStepShort(p) ==
    LET s == sid[p] c == cur[p] n == rounds[s][c.row].planLen IN
    /\ pc[p] = "steps"
    /\ steps' = IF c.step < n THEN steps \cup {<<s, c.row, c.step>>} ELSE steps
    /\ cur' = [cur EXCEPT ![p] = [row |-> c.row, step |-> c.step + 1]]
    /\ pc' = [pc EXCEPT ![p] = IF c.step = n THEN "touch" ELSE "steps"]
    /\ UNCHANGED <<sessions, rounds, sid, roundNum, hist, acked, own, clean>>

\* The next step of the plan is inserted.
SaveStep(p) ==
    LET s == sid[p] c == cur[p] n == rounds[s][c.row].planLen IN
    /\ pc[p] = "steps"
    /\ steps' = steps \cup {<<s, c.row, c.step>>}
    /\ cur' = [cur EXCEPT ![p] = [row |-> c.row, step |-> c.step + 1]]
    /\ pc' = [pc EXCEPT ![p] = IF c.step = n THEN "touch" ELSE "steps"]
    /\ UNCHANGED <<sessions, rounds, sid, roundNum, hist, acked, own, clean>>

\* TouchSession: the round is saved.
Touch(p) ==
    /\ pc[p] = "touch"
    /\ pc' = [pc EXCEPT ![p] = "idle"]
    /\ cur' = [cur EXCEPT ![p] = NoRow]
    /\ acked' = acked \cup {<<sid[p], cur[p].row>>}
    /\ UNCHANGED <<table, sid, roundNum, hist, own, clean>>

\* A later statement of the save fails: SaveRound returns there, and the
\* round and the steps inserted stay.
SaveFails(p) ==
    /\ pc[p] \in {"steps", "touch"}
    /\ pc' = [pc EXCEPT ![p] = "idle"]
    /\ cur' = [cur EXCEPT ![p] = NoRow]
    /\ UNCHANGED <<table, sid, roundNum, hist, acked, own, clean>>

\* The user quits, or the program is killed, at any point.
Exit(p) ==
    /\ Live(p)
    /\ pc' = [pc EXCEPT ![p] = "down"]
    /\ sid' = [sid EXCEPT ![p] = NoId]
    /\ roundNum' = [roundNum EXCEPT ![p] = 0]
    /\ hist' = [hist EXCEPT ![p] = NoHistory]
    /\ cur' = [cur EXCEPT ![p] = NoRow]
    /\ own' = [own EXCEPT ![p] = {}]
    /\ UNCHANGED <<table, acked, clean>>

Next == \E p \in Procs :
    \/ \E s \in Ids : NewSession(p, s) \/ ResumeSession(p, s)
    \/ Ask(p) \/ RoundFails(p)
    \/ SaveRound(p) \/ SaveRoundFails(p) \/ SaveStep(p) \/ Touch(p) \/ SaveFails(p)
    \/ Exit(p)

Spec == Init /\ [][Next]_vars

-----------------------------------------------------------------------------
\* The types of the variables.
TypeOK ==
    /\ sessions \in SUBSET Ids
    /\ rounds \in [Ids -> Seq(Round)]
    /\ steps \in SUBSET (Ids \X Nat \X Nat)
    /\ pc \in [Procs -> {"down", "idle", "running", "steps", "touch"}]
    /\ sid \in [Procs -> Ids \cup {NoId}]
    /\ \A p \in Procs : Live(p) <=> sid[p] \in Ids
    /\ roundNum \in [Procs -> Nat]
    /\ hist \in [Procs -> Hist]
    /\ cur \in [Procs -> [row : Nat, step : Nat]]
    /\ acked \in SUBSET (Ids \X Nat)
    /\ own \in [Procs -> SUBSET Nat]
    /\ clean \in [Ids -> BOOLEAN]

\* A round whose SaveRound reported success is stored with every step of its
\* plan, although its rows are written one by one and any save may break off
\* (session.go:69-89).
AckedComplete ==
    \A s \in Ids : \A i \in Rows(s) :
        <<s, i>> \in acked =>
            \A k \in 1..rounds[s][i].planLen : <<s, i, k>> \in steps

\* The rounds of a clean session are numbered 1, 2, 3, ... as they were
\* saved, across exits, resumptions and saves that broke off after the round
\* was inserted: the count a resumed handle starts from is the number of the
\* last round (session.go:47-55, 71).
CleanNumbering ==
    \A s \in Ids : clean[s] => \A i \in Rows(s) : rounds[s][i].num = i

\* In a clean session a history that was read without an error consists of
\* all the rounds saved, and its previous report is the newest that is not
\* empty (store.go:158-206).
CleanHistory ==
    \A p \in Procs : pc[p] = "running" /\ hist[p].ok /\ clean[sid[p]] =>
        LET s == sid[p] IN
        /\ hist[p].seen = Rows(s)
        /\ hist[p].prev = Newest(s, Rows(s))

\* Whatever else happened to the session, a history read without an error
\* leaves out none of the rounds the instance resumed from or saved itself:
\* the shortcut for a handle that counts no rounds never hides one of them
\* (session.go:62-65).
OwnRoundsRemembered ==
    \A p \in Procs : pc[p] = "running" /\ hist[p].ok => own[p] \subseteq hist[p].seen

\* "PreviousReport: The report from the most recent round" (types.go:63): of
\* the rounds in the history, the most recently saved one with a report.
PreviousReportIsMostRecent ==
    \A p \in Procs : pc[p] = "running" /\ hist[p].ok =>
        hist[p].prev = Newest(sid[p], hist[p].seen)
=============================================================================
