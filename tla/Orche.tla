------------------------------- MODULE Orche -------------------------------
(***************************************************************************)
(* The legacy orchestrator (internal/orche/orch.go) as cmd/test.go runs    *)
(* it: the planner graph of MakePlanner, then MakeExecutor over its plan,  *)
(* each agent call a run of Agent. It reports to Elasticsearch what the    *)
(* newer executor hands to the emitter, and records of each agent run how  *)
(* often the callback was called.                                          *)
(*                                                                         *)
(* It runs a plan like Executor and implements the same PlanRun, but for   *)
(* the notes, of which its caller gets none.                               *)
(***************************************************************************)
EXTENDS Agent, FiniteSets, Functions

CONSTANTS
    MaxPlanSteps,   \* bound on the length of a plan
    MaxRunSteps     \* compose.WithMaxRunSteps: supersteps a run may take

ASSUME MaxPlanStepsAssumption == MaxPlanSteps \in Nat
ASSUME MaxRunStepsAssumption == MaxRunSteps \in Nat \ {0}

VARIABLES
    planLen,    \* number of steps of the plan, once the planner has made it
    node,       \* <<chain, node>>: the node at hand, or where the program stands
    ran,        \* supersteps of the executor graph taken
    idx,        \* PlanState.CurrentStepIndex
    notes,      \* PlanState.ResearchFindings and .OperationLog
    prompt,     \* the notes the current prompt was formatted from
    records,    \* roundRecords: cb.Step of each run, and the calls of OnStart
    metrics,    \* the log types reported, in order
    cause,      \* why the run failed, which the caller's error tells; "none" so far
    outcome     \* "none" yet, "report" or "error"

vars == <<agentVars, planLen, node, ran, idx, notes, prompt, records, metrics, cause, outcome>>

-----------------------------------------------------------------------------
Notes == [findings : Seq(Nat), opLog : Seq(Nat)]
Record == [step : Nat, starts : [alone : Nat, shared : Nat]]
NoNotes == [findings |-> <<>>, opLog |-> <<>>]
Chains == {"plan", "normal", "final"}
Places == (Chains \X {"prepare", "template", "react", "parse"})
              \cup {<<"main", at>> : at \in
                        {"call", "is-last", "end", "failed", "returned", "crashed"}}
Causes == {"none", "empty", "setup", "range", "agent", "parse", "panic", "maxSteps"}
LogTypes == (Chains \cup {"main"}) \X
    {"start", "end", "error", "loop_check", "prepare", "react_output", "react_error",
     "parsed", "parse_error", "output"}

Init ==
    /\ AgentInit
    /\ planLen \in 0..MaxPlanSteps
    /\ node = <<"plan", "react">>
    /\ ran = 0 /\ idx = 0
    /\ notes = NoNotes /\ prompt = NoNotes
    /\ records = <<>> /\ metrics = <<>>
    /\ cause = "none" /\ outcome = "none"

-----------------------------------------------------------------------------
\* Metrics.Emit: a failing report is logged and nothing else.
Report(logType) == metrics' = Append(metrics, logType)

\* A log type is the chain it is of, "main" for the executor as a whole, and
\* what happened. The planner has one for its errors.
ReactError(chain) == <<chain, IF chain = "plan" THEN "error" ELSE "react_error">>

Goto(chain, at) == node' = <<chain, at>>
Fail(why) == Goto("main", "failed") /\ cause' = why

\* A superstep of the executor graph; the planner's own graph is too short
\* for a limit to matter.
Superstep(chain, at) ==
    /\ node = <<chain, at>>
    /\ IF chain = "plan" THEN UNCHANGED ran
       ELSE ran < MaxRunSteps /\ ran' = ran + 1

\* The caller is given an error before the graph runs.
Refuse(why) == Goto("main", "returned") /\ outcome' = "error" /\ cause' = why

\* MakeExecutor is called with the planner's plan. That it has no step is
\* reported; that the prompts cannot be read or the graph not be compiled,
\* which the caller is told too, is not.
Start ==
    /\ node = <<"main", "call">>
    /\ \/ /\ planLen = 0
          /\ metrics' = metrics \o <<<<"main", "start">>, <<"main", "error">>>>
          /\ Refuse("empty")
       \/ /\ planLen > 0
          /\ Report(<<"main", "start">>)
          /\ \/ Goto("main", "is-last") /\ UNCHANGED <<cause, outcome>>
             \/ Refuse("setup")
    /\ UNCHANGED <<agentVars, planLen, ran, idx, notes, prompt, records>>

\* Variant: the loop check is off by one.
IsLastTooLate ==
    /\ Superstep("main", "is-last")
    /\ Report(<<"main", "loop_check">>)
    /\ Goto(IF planLen - idx = 0 THEN "final" ELSE "normal", "prepare")
    /\ UNCHANGED <<agentVars, planLen, idx, notes, prompt, records, cause, outcome>>

IsLast ==
    /\ Superstep("main", "is-last")
    /\ Report(<<"main", "loop_check">>)
    /\ Goto(IF planLen - idx = 1 THEN "final" ELSE "normal", "prepare")
    /\ UNCHANGED <<agentVars, planLen, idx, notes, prompt, records, cause, outcome>>

\* Variant: the final prompt is formatted from what the last one was.
PrepareOnce(chain) ==
    /\ Superstep(chain, "prepare")
    /\ Report(<<chain, "prepare">>)
    /\ Goto(chain, "template")
    /\ prompt' = IF chain = "final" THEN prompt ELSE notes
    /\ UNCHANGED <<agentVars, planLen, idx, notes, records, cause, outcome>>

\* The step is reported and the state formatted into the prompt's variables.
Prepare(chain) ==
    /\ Superstep(chain, "prepare")
    /\ Report(<<chain, "prepare">>)
    /\ IF idx >= planLen
       THEN Fail("range") /\ UNCHANGED prompt
       ELSE Goto(chain, "template") /\ prompt' = notes /\ UNCHANGED cause
    /\ UNCHANGED <<agentVars, planLen, idx, notes, records, outcome>>

NormalPrepare == Prepare("normal")
FinalPrepare == Prepare("final")

Template(chain) ==
    /\ Superstep(chain, "template")
    /\ Goto(chain, "react")
    /\ UNCHANGED <<agentVars, planLen, idx, notes, prompt, records, metrics, cause, outcome>>

\* The agent is called ...
React(chain) ==
    /\ Superstep(chain, "react")
    /\ CallAgent
    /\ UNCHANGED <<planLen, node, idx, notes, prompt, records, metrics, cause, outcome>>

\* ... works ...
Working ==
    /\ AgentNext
    /\ UNCHANGED <<planLen, node, ran, idx, notes, prompt, records, metrics, cause, outcome>>

\* ... and returned: recorded, if an executor's, and reported.
Reacted(chain) ==
    /\ node = <<chain, "react">>
    /\ agent \in {"answered", "failed"}
    /\ agent' = "idle"
    /\ records' = IF chain = "plan" THEN records
                  ELSE Append(records, [step |-> step, starts |-> starts])
    /\ IF agent = "answered"
       THEN Report(<<chain, "react_output">>) /\ Goto(chain, "parse") /\ UNCHANGED cause
       ELSE Report(ReactError(chain)) /\ Fail("agent")
    /\ UNCHANGED <<taken, calls, step, starts, planLen, ran, idx, notes, prompt, outcome>>

ExecutorReacted == Reacted("normal") \/ Reacted("final")
PlannerReacted == Reacted("plan")

\* ExtractJSON's slice panics on an answer whose only fence is a run of four
\* or five backticks. The graph's library makes that an error of the node, or
\* the program crashes. The node reports nothing either way.
Panic ==
    /\ UNCHANGED metrics
    /\ \/ Fail("panic")
       \/ Goto("main", "crashed") /\ UNCHANGED cause

\* The planner's answer is decoded into the plan, or not.
PlanParse ==
    /\ node = <<"plan", "parse">>
    /\ \/ /\ Report(<<"plan", "parsed">>)
          /\ Goto("main", "call")
          /\ UNCHANGED cause
       \/ Report(<<"plan", "error">>) /\ Fail("parse")
       \/ Panic
    /\ UNCHANGED <<agentVars, planLen, ran, idx, notes, prompt, records, outcome>>

\* An answer that does not decode ends the run; any other one's findings and
\* actions, if not empty, are noted.
NormalParse ==
    /\ Superstep("normal", "parse")
    /\ \/ /\ \/ Report(<<"normal", "parse_error">>) /\ Fail("parse")
             \/ Panic
          /\ UNCHANGED <<idx, notes>>
       \/ /\ \E found, logged \in BOOLEAN :
               notes' = [findings |-> IF found THEN Append(notes.findings, idx + 1) ELSE notes.findings,
                         opLog |-> IF logged THEN Append(notes.opLog, idx + 1) ELSE notes.opLog]
          /\ Report(<<"normal", "parsed">>)
          /\ idx' = idx + 1
          /\ Goto("main", "is-last")
          /\ UNCHANGED cause
    /\ UNCHANGED <<agentVars, planLen, prompt, records, outcome>>

\* The final answer is the report.
FinalParse ==
    /\ Superstep("final", "parse")
    /\ Report(<<"final", "output">>)
    /\ Goto("main", "end")
    /\ UNCHANGED <<agentVars, planLen, idx, notes, prompt, records, cause, outcome>>

\* No superstep is left.
ExceedMaxSteps ==
    /\ node[1] # "plan" /\ node[2] \notin {"call", "end", "failed", "returned", "crashed"}
    /\ agent = "idle"
    /\ ran = MaxRunSteps
    /\ Fail("maxSteps")
    /\ UNCHANGED <<agentVars, planLen, ran, idx, notes, prompt, records, metrics, outcome>>

\* The graph returned: the executor's is reported, with the records.
Finish ==
    /\ node \in {<<"main", "end">>, <<"main", "failed">>}
    /\ Goto("main", "returned")
    /\ IF node[2] = "end"
       THEN Report(<<"main", "end">>) /\ outcome' = "report"
       ELSE /\ IF <<"main", "start">> \in Range(metrics)
               THEN Report(<<"main", "error">>) ELSE UNCHANGED metrics
            /\ outcome' = "error"
    /\ UNCHANGED <<agentVars, planLen, ran, idx, notes, prompt, records, cause>>

\* The program is over.
Over == node \in {<<"main", "returned">>, <<"main", "crashed">>} /\ UNCHANGED vars

Next ==
    \/ Start \/ IsLast \/ PlanParse \/ NormalParse \/ FinalParse \/ Working
    \/ NormalPrepare \/ FinalPrepare
    \/ \E chain \in {"normal", "final"} : Template(chain)
    \/ \E chain \in Chains : React(chain)
    \/ PlannerReacted \/ ExecutorReacted
    \/ ExceedMaxSteps \/ Finish \/ Over

Spec == Init /\ [][Next]_vars

-----------------------------------------------------------------------------
\* The types of the variables; the index is always that of a step.
TypeOK ==
    /\ AgentTypeOK
    /\ planLen \in 0..MaxPlanSteps
    /\ node \in Places
    /\ ran \in 0..MaxRunSteps
    /\ idx \in Nat /\ (planLen > 0 => idx < planLen)
    /\ notes \in Notes /\ prompt \in Notes
    /\ records \in Seq(Record)
    /\ metrics \in Seq(LogTypes)
    /\ cause \in Causes
    /\ outcome \in {"none", "report", "error"}

\* What the executor of a run that goes well reports: four log types a step.
Log(i) ==
    LET chain == IF i > 4 * (planLen - 1) THEN "final" ELSE "normal"
    IN  CASE i % 4 = 1 -> <<"main", "loop_check">>
          [] i % 4 = 2 -> <<chain, "prepare">>
          [] i % 4 = 3 -> <<chain, "react_output">>
          [] OTHER -> <<chain, IF chain = "final" THEN "output" ELSE "parsed">>

\* The whole run's: the planner's answer and plan before them.
FullTrail ==
    <<<<"plan", "react_output">>, <<"plan", "parsed">>, <<"main", "start">>>>
        \o [i \in 1..4 * planLen |-> Log(i)] \o <<<<"main", "end">>>>

\* What may be reported of a failure after the first k of these, for each
\* cause: an agent's and that of decoding by the node, none by it where its
\* slice panicked or no superstep was left.
NodeErrors(k) ==
    LET last == FullTrail[k]
        called == k >= 3
    IN  CASE cause = "agent" /\ k = 0 -> {<<<<"plan", "error">>>>}
          [] cause = "parse" /\ k = 1 -> {<<<<"plan", "error">>>>}
          [] cause = "panic" /\ k = 1 -> {<<>>}
          [] cause \in {"empty", "setup"} /\ k = 3 -> {<<>>}
          [] cause = "agent" /\ called /\ last[2] = "prepare" -> {<<<<last[1], "react_error">>>>}
          [] cause = "parse" /\ called /\ last = <<"normal", "react_output">> ->
                {<<<<"normal", "parse_error">>>>}
          [] cause = "panic" /\ called /\ last = <<"normal", "react_output">> -> {<<>>}
          [] cause = "maxSteps" /\ called -> {<<>>}
          [] OTHER -> {}

\* Once the executor was called its own error follows, but for a set-up that
\* failed (orch.go:653-656 and 779-782 return without a report).
Failures(k) == IF k < 3 \/ cause = "setup" THEN NodeErrors(k)
               ELSE {e \o <<<<"main", "error">>>> : e \in NodeErrors(k)}

\* What was reported tells what happened, as far as the code reports it: a run
\* that returned a report is one whole trail. One that returned an error is a
\* trail cut off where the caller's error says, by the error of the node that
\* failed, if one of its own, and by the executor's once that was called and
\* its graph set up (orch.go:66-160, 616-818). Of a panic in the parsing
\* nothing is reported by the node, of a failed set-up nothing at all.
TrailTruthful ==
    /\ outcome = "report" => metrics = FullTrail
    /\ outcome = "error" =>
         \E k \in 0..Len(FullTrail) - 1 : \E failure \in Failures(k) :
            metrics = SubSeq(FullTrail, 1, k) \o failure

\* Although OnStart's increments race, a record counts no call that was not
\* made and loses none but of those that could overlap, of these never all
\* (logger_callback.go:61).
CountsTruthful == \A r \in Range(records) :
    /\ r.step <= r.starts.alone + r.starts.shared
    /\ r.step >= r.starts.alone + (IF r.starts.shared > 0 THEN 1 ELSE 0)

\* The reports and the records together: there is a record for each agent run
\* of the executor that was reported, also a failed one (orch.go:686-693).
MetricsTruthful ==
    /\ TrailTruthful /\ CountsTruthful
    /\ Len(records) = Cardinality({i \in DOMAIN metrics :
            metrics[i] \in {"normal", "final"} \X {"react_output", "react_error"}})

\* The promise of PlanRun, which Executor keeps too. The notes the report was
\* written from stand for those a caller would be given.
Promise == INSTANCE PlanRun WITH
    done <- IF outcome = "report" THEN planLen ELSE idx,
    basis <- IF outcome = "report" THEN prompt ELSE NoNotes,
    kept <- IF outcome = "report" THEN prompt ELSE NoNotes
PromiseKept == Promise!Spec
=============================================================================
