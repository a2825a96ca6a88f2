-------------------------------- MODULE Repl --------------------------------
(***************************************************************************)
(* The loop of cmd/main.go, which composes Session, Planner and Executor:  *)
(* a query is read, the session's history loaded, a plan made and run, the *)
(* round saved and the report printed. An error of the planner or of the   *)
(* executor drops the query, an error of the session is only logged, and   *)
(* the process can die between any two steps.                              *)
(*                                                                         *)
(* The components are instances of their modules. What is added is what    *)
(* passes between them: the history the planner gets, the plan and the     *)
(* result, and what a stored round says.                                   *)
(***************************************************************************)
EXTENDS Naturals, Sequences

CONSTANTS
    Ids,            \* session ids
    NoId,           \* the id of no session
    Texts,          \* what a planning agent may answer
    MaxPlanSteps,   \* bound on the length of a plan
    MaxRunSteps,    \* compose.WithMaxRunSteps
    MaxQueries      \* bound on the queries asked

ASSUME NoIdAssumption == NoId \notin Ids
ASSUME BoundsAssumption ==
    /\ MaxPlanSteps \in Nat \ {0}
    /\ MaxRunSteps \in Nat \ {0}
    /\ MaxQueries \in Nat

VARIABLES
    \* Session
    sessions, rounds, steps, pc, sid, roundNum, hist, cur, acked, own, clean,
    \* Planner; planned, planEvents and planOutcome are its planLen, events
    \* and outcome
    history, place, input, reply, object, planned, planEvents, planOutcome,
    \* Executor
    planLen, node, ran, idx, findings, opLog, prompt, said, capturedFindings,
    capturedOpLog, err, events, outcome, result,
    \* the loop
    stage,      \* where the loop stands
    query,      \* the number of the query last read
    content     \* what each stored round says, in the order of rounds

Self == "repl"

\* No round is saved without a query, so that Session's bounds never bind.
S == INSTANCE Session WITH Procs <- {Self}, MaxRounds <- MaxQueries, MaxRoundNum <- MaxQueries
P == INSTANCE Planner WITH planLen <- planned, events <- planEvents, outcome <- planOutcome
X == INSTANCE Executor

ASSUME TextsAssumption == Texts \subseteq Seq(P!Tokens)

sessionVars == <<sessions, rounds, steps, pc, sid, roundNum, hist, cur, acked, own, clean>>
plannerVars == <<history, place, input, reply, object, planned, planEvents, planOutcome>>
executorVars == <<planLen, node, ran, idx, findings, opLog, prompt, said, capturedFindings,
                  capturedOpLog, err, events, outcome, result>>
loop == <<stage, query, content>>
vars == <<sessionVars, plannerVars, executorVars, loop>>

-----------------------------------------------------------------------------
Stages == {"down", "prompt", "planning", "executing", "saving", "printing"}
Saved == [query : Nat, findings : Seq(Nat), opLog : Seq(Nat)]

\* A new call of the planner, handed these sections of the history.
CallPlanner(sections) ==
    /\ history' = sections
    /\ place' = "called"
    /\ input' = <<>> /\ reply' = <<>> /\ object' = <<>> /\ planned' = 0
    /\ planEvents' = <<>> /\ planOutcome' = "none"

\* Variant: the executor is handed a step too many.
CallExecutorOffByOne(n) ==
    /\ planLen' = n + 1
    /\ node' = "called"
    /\ ran' = 0 /\ idx' = 0 /\ findings' = <<>> /\ opLog' = <<>>
    /\ prompt' = X!NoContext /\ said' = <<>>
    /\ capturedFindings' = <<>> /\ capturedOpLog' = <<>>
    /\ err' = "none" /\ events' = <<>> /\ outcome' = "none"
    /\ result' = X!NoContext

\* A new call of the executor, handed a plan of n steps.
CallExecutor(n) ==
    /\ planLen' = n
    /\ node' = "called"
    /\ ran' = 0 /\ idx' = 0 /\ findings' = <<>> /\ opLog' = <<>>
    /\ prompt' = X!NoContext /\ said' = <<>>
    /\ capturedFindings' = <<>> /\ capturedOpLog' = <<>>
    /\ err' = "none" /\ events' = <<>> /\ outcome' = "none"
    /\ result' = X!NoContext

Init ==
    /\ S!Init
    /\ P!Init /\ history = {}
    /\ X!Init /\ planLen = 0
    /\ stage = "down"
    /\ query = 0
    /\ content = [s \in Ids |-> <<>>]

\* The program is started on a new session or on a stored one.
Start ==
    /\ stage = "down"
    /\ \E s \in Ids : S!NewSession(Self, s) \/ S!ResumeSession(Self, s)
    /\ stage' = "prompt"
    /\ UNCHANGED <<plannerVars, executorVars, query, content>>

\* The sections of a history made of the given rounds: those that some round
\* has text for.
Sections(s, seen) ==
    {part \in {"findings", "opLog"} : \E i \in seen : content[s][i][part] # <<>>}
        \cup {part \in {"report"} : S!Reported(s, seen) # {}}

\* A line that is not blank and no word for leaving: the history is loaded,
\* as far as it can be read, and the planner called.
ReadQuery ==
    /\ stage = "prompt"
    /\ query < MaxQueries
    /\ query' = query + 1
    /\ S!Ask(Self)
    /\ CallPlanner(Sections(sid[Self], hist'[Self].seen))
    /\ CallExecutor(0)
    /\ stage' = "planning"
    /\ UNCHANGED content

\* The planner runs; a panic in it may have ended the process.
Planning ==
    /\ stage = "planning"
    /\ place # "returned"
    /\ P!Call \/ P!React \/ P!Parse \/ P!ReturnError \/ P!ReturnPlan
    /\ UNCHANGED <<sessionVars, executorVars, loop>>

\* The plan, which may have no steps, is handed to the executor.
Planned ==
    /\ stage = "planning"
    /\ planOutcome = "plan"
    /\ CallExecutor(planned)
    /\ stage' = "executing"
    /\ UNCHANGED <<sessionVars, plannerVars, query, content>>

\* The executor runs; a panic in it may have ended the process.
Executing ==
    /\ stage = "executing"
    /\ node # "returned"
    /\ X!Next
    /\ UNCHANGED <<sessionVars, plannerVars, loop>>

\* Variant: the planner is called again until it returns a plan.
DropRetries ==
    \/ /\ stage = "planning" /\ planOutcome = "error"
       /\ CallPlanner(history)
       /\ UNCHANGED <<sessionVars, executorVars, loop>>
    \/ /\ stage = "executing" /\ outcome = "error"
       /\ S!RoundFails(Self)
       /\ stage' = "prompt"
       /\ UNCHANGED <<plannerVars, executorVars, query, content>>

\* Variant: the loop goes on after an error.
DropGoesOn ==
    /\ \/ stage = "planning" /\ planOutcome = "error"
       \/ stage = "executing" /\ outcome = "error"
    /\ S!RoundFails(Self)
    /\ stage' = "printing"
    /\ UNCHANGED <<plannerVars, executorVars, query, content>>

\* The planner or the executor returned an error: back to the prompt.
Drop ==
    /\ \/ stage = "planning" /\ planOutcome = "error"
       \/ stage = "executing" /\ outcome = "error"
    /\ S!RoundFails(Self)
    /\ stage' = "prompt"
    /\ UNCHANGED <<plannerVars, executorVars, query, content>>

\* Variant: the notes are handed over in the wrong order.
SaveSwapped ==
    LET s == sid[Self] IN
    /\ stage = "executing" /\ outcome = "report"
    /\ S!SaveRound(Self)
    /\ rounds'[s][Len(rounds'[s])].planLen = planLen
    /\ content' = [content EXCEPT ![s] = Append(@,
         [query |-> query, findings |-> result.opLog, opLog |-> result.findings])]
    /\ stage' = "saving"
    /\ UNCHANGED <<plannerVars, executorVars, query>>

\* There is a report, empty or not: the round is counted and inserted, with
\* the result's notes.
Save ==
    LET s == sid[Self] IN
    /\ stage = "executing" /\ outcome = "report"
    /\ S!SaveRound(Self)
    /\ rounds'[s][Len(rounds'[s])].planLen = planLen
    /\ content' = [content EXCEPT ![s] = Append(@,
         [query |-> query, findings |-> result.findings, opLog |-> result.opLog])]
    /\ stage' = "saving"
    /\ UNCHANGED <<plannerVars, executorVars, query>>

\* The insert of the round failed: logged, and the report printed.
SaveFails ==
    /\ stage = "executing" /\ outcome = "report"
    /\ S!SaveRoundFails(Self)
    /\ stage' = "printing"
    /\ UNCHANGED <<plannerVars, executorVars, query, content>>

\* The rest of the save, which may break off: logged, and the report printed.
Saving ==
    /\ stage = "saving"
    /\ S!SaveStep(Self) \/ S!Touch(Self) \/ S!SaveFails(Self)
    /\ stage' = IF pc'[Self] = "idle" THEN "printing" ELSE "saving"
    /\ UNCHANGED <<plannerVars, executorVars, query, content>>

\* The report is printed.
PrintReport ==
    /\ stage = "printing"
    /\ stage' = "prompt"
    /\ UNCHANGED <<sessionVars, plannerVars, executorVars, query, content>>

\* The user leaves at the prompt, or the process dies anywhere. What it held
\* is gone.
Exit ==
    /\ S!Exit(Self)
    /\ CallPlanner({})
    /\ CallExecutor(0)
    /\ stage' = "down"
    /\ UNCHANGED <<query, content>>

Step ==
    \/ Planning \/ Planned \/ Executing \/ Drop
    \/ Save \/ SaveFails \/ Saving \/ PrintReport

Next == Start \/ ReadQuery \/ Step \/ Exit

\* Weak fairness: the loop is one goroutine, and every call it makes returns
\* or ends the process; the user need never type anything.
Spec == Init /\ [][Next]_vars /\ WF_vars(Step)
             /\ WF_vars((place = "crashed" \/ node = "crashed") /\ Exit)

-----------------------------------------------------------------------------
\* The types of the variables, and of the components'.
TypeOK ==
    /\ S!TypeOK /\ P!TypeOK /\ X!TypeOK
    /\ stage \in Stages
    /\ query \in 0..MaxQueries
    /\ content \in [Ids -> Seq(Saved)]
    /\ \A s \in Ids : Len(content[s]) = Len(rounds[s])

\* The events of the query at hand, as they were handed to the emitter.
Feed == planEvents \o events

\* What a subscriber can make of the events of a query that is over, unless
\* the process died: the planner's error alone; or a plan, and then the steps
\* that were run and one report or error. A query whose plan has no steps, or
\* for which the executor's graph could not be set up, ends without a word after
\* the plan, so that a subscriber never learns that it failed
\* (planner.go:112-131, executor.go:57-72, 324-344, main.go:207-238).
FeedTellsOutcome ==
    stage \in {"prompt", "printing"} /\ query > 0 /\ place = "returned" =>
        LET last == Feed[Len(Feed)].type IN
        /\ Feed # <<>>
        /\ planOutcome = "error" => Len(Feed) = 1 /\ last = "plan.error"
        /\ planOutcome = "plan" =>
             /\ Feed[1] = [type |-> "plan.created", steps |-> planLen]
             /\ last = "report.generated" <=> outcome = "report"
             /\ last = "error" <=> outcome = "error" /\ err \notin X!Refusals
             /\ last = "plan.created" <=> outcome = "error" /\ err \in X!Refusals
        /\ stage = "printing" => last = "report.generated"

\* What the given rounds of a session left behind.
Entries(s, is) ==
    {[query |-> content[s][i].query, findings |-> content[s][i].findings,
      opLog |-> content[s][i].opLog, report |-> rounds[s][i].report] : i \in is}

\* A query is being planned or run, and an answer made of its history.
Busy == stage \in {"planning", "executing"}

Promise == INSTANCE Conversation WITH
    asked <- query,
    stage <- CASE stage = "down" -> "away"
               [] stage = "prompt" -> "ready"
               [] Busy -> "busy"
               [] OTHER -> "answered",
    at <- sid[Self],
    memory <- [s \in Ids |-> Entries(s, S!Rows(s))],
    told <- IF Busy THEN Entries(sid[Self], hist[Self].seen) ELSE {},
    whole <- hist[Self].ok,
    topics <- IF Busy THEN history ELSE {},
    work <- [findings |-> findings, opLog |-> opLog]

\* The user of a session is promised what Conversation says: whichever round
\* failed, was saved in part or cut off by the death of the process, a query is
\* told exactly what the answered ones left behind, or was visibly told less,
\* and an answered query leaves behind exactly what its agents noted
\* (main.go:200-240 with session.go:62-89, store.go:158-206, planner.go:104-110,
\* executor.go:345-357).
PromiseKept == Promise!Spec

\* A query that was read is over at some point, whatever the agents, the
\* store and the process do: the prompt is back or the program gone.
QueryEnds == stage \in {"planning", "executing", "saving", "printing"} ~> stage \in {"prompt", "down"}
=============================================================================
