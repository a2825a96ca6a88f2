---------------------------- MODULE Conversation ----------------------------
(***************************************************************************)
(* What the REPL promises its user, without the planner, the executor and  *)
(* the store that do it: queries are answered one at a time, each is told  *)
(* what the answered ones before it left behind in its session, and what a *)
(* query leaves behind is exactly what its agents noted and only if it got *)
(* a report. Repl implements this.                                         *)
(***************************************************************************)
EXTENDS Naturals, Sequences

CONSTANTS
    Ids,            \* sessions
    NoId,           \* no session
    MaxPlanSteps    \* bound on the steps of a query's plan

VARIABLES
    asked,      \* number of queries asked
    stage,      \* "away", "ready", "busy" with a query, "answered"
    at,         \* the session the user is in
    memory,     \* for each session, what the queries answered in it left behind
    told,       \* what the query at hand was told of that
    whole,      \* whether the memory could be read
    topics,     \* the parts of what it was told that are not empty
    work        \* what the agents of the query at hand noted so far

vars == <<asked, stage, at, memory, told, whole, topics, work>>

NoWork == [findings |-> <<>>, opLog |-> <<>>]
Parts == {"findings", "opLog", "report"}

\* What a query leaves behind; its report may be empty.
Entry(report) == [query |-> asked, findings |-> work.findings, opLog |-> work.opLog,
                  report |-> report]

\* Whether an entry has anything of the given part.
Has(entry, part) == IF part = "report" THEN entry.report ELSE entry[part] # <<>>

Init ==
    /\ asked = 0 /\ stage = "away" /\ at = NoId
    /\ memory = [s \in Ids |-> {}]
    /\ told = {} /\ whole = TRUE /\ topics = {}
    /\ work = NoWork

\* The user opens a session, for the first time or again.
Return ==
    /\ stage = "away"
    /\ stage' = "ready"
    /\ at' \in Ids
    /\ UNCHANGED <<asked, memory, told, whole, topics, work>>

\* A query is told everything, or part of it if the memory is unreadable.
Ask ==
    /\ stage = "ready"
    /\ stage' = "busy"
    /\ asked' = asked + 1
    /\ whole' \in BOOLEAN
    /\ told' \in SUBSET memory[at]
    /\ whole' => told' = memory[at]
    /\ topics' = {part \in Parts : \E entry \in told' : Has(entry, part)}
    /\ work' = NoWork
    /\ UNCHANGED <<at, memory>>

\* The query is over, or past using what it was told.
Forget == told' = {} /\ whole' = TRUE /\ topics' = {}

\* The agent of some step may add to each of the two notes.
Work ==
    /\ stage = "busy"
    /\ \E k \in 1..MaxPlanSteps :
         work' \in [findings : {work.findings, Append(work.findings, k)},
                    opLog : {work.opLog, Append(work.opLog, k)}]
    /\ UNCHANGED <<asked, stage, at, memory, told, whole, topics>>

\* The query failed: it leaves nothing behind.
Fail ==
    /\ stage = "busy"
    /\ stage' = "ready"
    /\ Forget
    /\ UNCHANGED <<asked, at, memory, work>>

\* There is a report, and the work is remembered, or storing it failed.
Answer ==
    /\ stage = "busy"
    /\ stage' = "answered"
    /\ \/ \E report \in BOOLEAN : memory' = [memory EXCEPT ![at] = @ \cup {Entry(report)}]
       \/ UNCHANGED memory
    /\ Forget
    /\ UNCHANGED <<asked, at, work>>

\* The report is shown.
Show ==
    /\ stage = "answered"
    /\ stage' = "ready"
    /\ UNCHANGED <<asked, at, memory, told, whole, topics, work>>

\* The user leaves, or the program dies, at any point.
Leave ==
    /\ stage # "away"
    /\ stage' = "away" /\ at' = NoId
    /\ Forget
    /\ work' = NoWork
    /\ UNCHANGED <<asked, memory>>

Next == Return \/ Ask \/ Work \/ Fail \/ Answer \/ Show \/ Leave

Spec == Init /\ [][Next]_vars
=============================================================================
