------------------------------ MODULE Executor ------------------------------
(***************************************************************************)
(* One call of Executor.Run (internal/executor/executor.go): the loop      *)
(* graph that runs a plan step by step through one ReAct agent.            *)
(*                                                                         *)
(* The graph runs in supersteps, one node each. "is-last" sends the plan's *)
(* last step to the final chain and every other one to the normal chain,   *)
(* whose parse node loops back. Each prepare node puts the state collected *)
(* so far into the agent's prompt; each normal parse node appends to that  *)
(* state and copies it into closure variables, out of which the result is  *)
(* built when the graph has ended.                                         *)
(*                                                                         *)
(* A step is its position in the plan, a finding or a log entry is the     *)
(* number of the step that wrote it, and an agent's answer is what its     *)
(* text does to the parse node and which of its two fields are not empty.  *)
(***************************************************************************)
EXTENDS Integers, Sequences

CONSTANTS
    MaxPlanSteps,   \* bound on the length of a plan
    MaxRunSteps     \* compose.WithMaxRunSteps: supersteps a run may take

ASSUME MaxPlanStepsAssumption == MaxPlanSteps \in Nat
ASSUME MaxRunStepsAssumption == MaxRunSteps \in Nat \ {0}

VARIABLES
    planLen,            \* len(plan.Steps)
    node,               \* the node the next superstep runs, or where Run stands
    ran,                \* supersteps taken
    idx,                \* PlanState.CurrentStepIndex
    findings,           \* PlanState.ResearchFindings
    opLog,              \* PlanState.OperationLog
    prompt,             \* the state the current prompt was formatted from
    said,               \* the normal agents' answers, in order
    capturedFindings,   \* closure copy of findings
    capturedOpLog,      \* closure copy of opLog
    err,                \* the error Invoke returned, "none" if none
    events,             \* what was handed to the emitter, in order
    outcome,            \* what Run returned: "none" yet, "report" or "error"
    result              \* Result.Findings and Result.OperationLog

state == <<idx, findings, opLog>>
captured == <<capturedFindings, capturedOpLog>>
vars == <<planLen, node, ran, state, prompt, said, captured, err, events,
          outcome, result>>

-----------------------------------------------------------------------------
NormalNodes == {"normal-prepare", "normal-template", "normal-react", "normal-parse"}
FinalNodes == {"final-prepare", "final-template", "final-react", "final-parse"}
GraphNodes == {"is-last"} \cup NormalNodes \cup FinalNodes

\* "called": before the graph is invoked; "end" and "failed": Invoke has
\* returned; "returned": Run has; "crashed": the process is gone.
Places == GraphNodes \cup {"called", "end", "failed", "returned", "crashed"}

\* What Run fails with before it has a graph, and what ends the graph's run.
Refusals == {"empty", "setup"}
Errors == Refusals \cup {"maxSteps", "agent", "parse", "panic", "range"}

\* What an agent may answer: whether an object is found in it that decodes,
\* or none, or its fences overlap, so that looking for the object panics
\* (SlicePanics of ExtractJSON); and whether the object's findings and its
\* actions are non-empty.
Reply == [text : {"decodes", "fails", "panics"}, findings : BOOLEAN, actions : BOOLEAN]

Context == [findings : Seq(Nat), opLog : Seq(Nat)]
NoContext == [findings |-> <<>>, opLog |-> <<>>]

\* An event names its type and its step, 0 when it has none.
EventTypes == {"step.started", "step.findings", "step.error", "report.generated", "error"}
Events == [type : EventTypes, step : Nat]
Event(type, step) == [type |-> type, step |-> step]

Init ==
    /\ planLen \in 0..MaxPlanSteps
    /\ node = "called"
    /\ ran = 0
    /\ idx = 0
    /\ findings = <<>>
    /\ opLog = <<>>
    /\ prompt = NoContext
    /\ said = <<>>
    /\ capturedFindings = <<>>
    /\ capturedOpLog = <<>>
    /\ err = "none"
    /\ events = <<>>
    /\ outcome = "none"
    /\ result = NoContext

-----------------------------------------------------------------------------
\* A plan without steps is refused; the prompts may not load or the graph not
\* compile; otherwise the plan is handed to the graph. None of it is emitted.
Call ==
    /\ node = "called"
    /\ \/ /\ planLen # 0
          /\ node' = "is-last"
          /\ UNCHANGED <<err, outcome>>
       \/ /\ node' = "returned"
          /\ err' = IF planLen = 0 THEN "empty" ELSE "setup"
          /\ outcome' = "error"
    /\ UNCHANGED <<planLen, ran, state, prompt, said, captured, events, result>>

\* Variant: the step limit is not enforced.
SuperstepUnbounded(n) ==
    /\ node = n
    /\ ran' = ran + 1
    /\ UNCHANGED <<planLen, outcome, result>>

\* The graph takes its next superstep at node n.
Superstep(n) ==
    /\ node = n
    /\ ran < MaxRunSteps
    /\ ran' = ran + 1
    /\ UNCHANGED <<planLen, outcome, result>>

\* The node's handler returned an error, and so does Invoke.
Abort(e) == node' = "failed" /\ err' = e

Goto(n) == node' = n /\ UNCHANGED err

\* Variant: the limit bites one superstep early.
ExceedMaxStepsEarly ==
    /\ node \in GraphNodes
    /\ ran >= MaxRunSteps - 1
    /\ Abort("maxSteps")
    /\ UNCHANGED <<planLen, ran, state, prompt, said, captured, events, outcome, result>>

\* No superstep is left (ErrExceedMaxSteps).
ExceedMaxSteps ==
    /\ node \in GraphNodes
    /\ ran = MaxRunSteps
    /\ Abort("maxSteps")
    /\ UNCHANGED <<planLen, ran, state, prompt, said, captured, events, outcome, result>>

\* Variant: the loop check is off by one.
IsLastTooLate ==
    /\ Superstep("is-last")
    /\ Goto(IF planLen - idx = 0 THEN "final-prepare" ELSE "normal-prepare")
    /\ UNCHANGED <<state, prompt, said, captured, events>>

IsLast ==
    /\ Superstep("is-last")
    /\ Goto(IF planLen - idx = 1 THEN "final-prepare" ELSE "normal-prepare")
    /\ UNCHANGED <<state, prompt, said, captured, events>>

\* The two prepare nodes: announce the step and format the state into the
\* variables of the prompt.
Prepare(template) ==
    /\ IF idx >= planLen
       THEN Abort("range") /\ UNCHANGED <<events, prompt>>
       ELSE /\ Goto(template)
            /\ events' = Append(events, Event("step.started", idx + 1))
            /\ prompt' = [findings |-> findings, opLog |-> opLog]
    /\ UNCHANGED <<state, said, captured>>

\* Variant: the final prompt is formatted without the state.
FinalPrepareNoContext ==
    /\ Superstep("final-prepare")
    /\ Goto("final-template")
    /\ events' = Append(events, Event("step.started", idx + 1))
    /\ prompt' = NoContext
    /\ UNCHANGED <<state, said, captured>>

NormalPrepare == Superstep("normal-prepare") /\ Prepare("normal-template")
FinalPrepare == Superstep("final-prepare") /\ Prepare("final-template")

NormalTemplate ==
    /\ Superstep("normal-template")
    /\ Goto("normal-react")
    /\ UNCHANGED <<state, prompt, said, captured, events>>

FinalTemplate ==
    /\ Superstep("final-template")
    /\ Goto("final-react")
    /\ UNCHANGED <<state, prompt, said, captured, events>>

\* The agent works on its prompt and answers, or its run fails (the model
\* or a tool returned an error, or the agent took too many steps).
NormalReact ==
    /\ Superstep("normal-react")
    /\ \/ Abort("agent") /\ UNCHANGED said
       \/ Goto("normal-parse") /\ \E r \in Reply : said' = Append(said, r)
    /\ UNCHANGED <<state, prompt, captured, events>>

FinalReact ==
    /\ Superstep("final-react")
    /\ \/ Abort("agent")
       \/ Goto("final-parse")
    /\ UNCHANGED <<state, prompt, said, captured, events>>

\* Variant: an entry replaces the earlier ones.
NotedOver(list, i, wrote) == IF wrote THEN <<i>> ELSE list

\* The list after step i, which wrote an entry iff said so.
Noted(list, i, wrote) == IF wrote THEN Append(list, i) ELSE list

\* The answer last given, on the edge into the parse node.
Answer == said[Len(said)]

\* The answer is bad: the step's error is announced and nothing changes.
RejectAnswer ==
    /\ Answer.text = "fails"
    /\ events' = Append(events, Event("step.error", idx + 1))
    /\ UNCHANGED <<state, captured>>

\* Looking for the answer's object panics: nothing is announced. Whether the
\* graph, a library, makes an error of it or the process ends is left open.
PanicAtAnswer ==
    /\ Answer.text = "panics"
    /\ \/ Abort("panic")
       \/ node' = "crashed" /\ UNCHANGED err
    /\ UNCHANGED <<state, captured, events>>

\* The answer is appended to the state and announced; the step is over.
AcceptAnswer ==
    /\ Answer.text = "decodes"
    /\ findings' = Noted(findings, idx + 1, Answer.findings)
    /\ opLog' = Noted(opLog, idx + 1, Answer.actions)
    /\ events' = Append(events, Event("step.findings", idx + 1))
    /\ idx' = idx + 1

\* Variant: the closure copies are taken before the answer is appended.
NormalParseStaleCapture ==
    /\ Superstep("normal-parse")
    /\ \/ Abort("parse") /\ RejectAnswer
       \/ PanicAtAnswer
       \/ /\ Goto("is-last") /\ AcceptAnswer
          /\ capturedFindings' = findings
          /\ capturedOpLog' = opLog
    /\ UNCHANGED <<prompt, said>>

\* Variant: after a bad answer the step is run again.
NormalParseRetry ==
    /\ Superstep("normal-parse")
    /\ \/ Goto("is-last") /\ RejectAnswer
       \/ PanicAtAnswer
       \/ /\ Goto("is-last") /\ AcceptAnswer
          /\ capturedFindings' = findings'
          /\ capturedOpLog' = opLog'
    /\ UNCHANGED <<prompt, said>>

\* The parse node's pre-handler. An answer that has no JSON object or whose
\* object does not decode ends the run; any other one is taken and the new
\* state captured for the result.
NormalParse ==
    /\ Superstep("normal-parse")
    /\ \/ Abort("parse") /\ RejectAnswer
       \/ PanicAtAnswer
       \/ /\ Goto("is-last") /\ AcceptAnswer
          /\ capturedFindings' = findings'
          /\ capturedOpLog' = opLog'
    /\ UNCHANGED <<prompt, said>>

\* The final agent's answer is the report as it stands.
FinalParse ==
    /\ Superstep("final-parse")
    /\ Goto("end")
    /\ UNCHANGED <<state, prompt, said, captured, events>>

\* Variant: the error is returned without being announced.
ReturnErrorSilent ==
    /\ node = "failed"
    /\ node' = "returned"
    /\ outcome' = "error"
    /\ UNCHANGED <<planLen, ran, state, prompt, said, captured, err, events, result>>

\* Invoke returned an error: announced, and nothing but the error returned.
ReturnError ==
    /\ node = "failed"
    /\ node' = "returned"
    /\ events' = Append(events, Event("error", 0))
    /\ outcome' = "error"
    /\ UNCHANGED <<planLen, ran, state, prompt, said, captured, err, result>>

\* Invoke returned the report: announced, and returned with what the
\* closure captured.
ReturnReport ==
    /\ node = "end"
    /\ node' = "returned"
    /\ events' = Append(events, Event("report.generated", 0))
    /\ outcome' = "report"
    /\ result' = [findings |-> capturedFindings, opLog |-> capturedOpLog]
    /\ UNCHANGED <<planLen, ran, state, prompt, said, captured, err>>

\* Run has returned, or the process is gone; nothing more happens.
Returned == node \in {"returned", "crashed"} /\ UNCHANGED vars

Next ==
    \/ Call \/ ExceedMaxSteps \/ IsLast
    \/ NormalPrepare \/ NormalTemplate \/ NormalReact \/ NormalParse
    \/ FinalPrepare \/ FinalTemplate \/ FinalReact \/ FinalParse
    \/ ReturnError \/ ReturnReport \/ Returned

\* Weak fairness: Run is one goroutine that nothing blocks but the agent,
\* whose model calls and tools are assumed to return.
Spec == Init /\ [][Next]_vars /\ WF_vars(Next)

-----------------------------------------------------------------------------
\* The types of the variables.
TypeOK ==
    /\ planLen \in 0..MaxPlanSteps
    /\ node \in Places
    /\ ran \in 0..MaxRunSteps
    /\ idx \in Nat
    /\ findings \in Seq(Nat)
    /\ opLog \in Seq(Nat)
    /\ prompt \in Context
    /\ said \in Seq(Reply)
    /\ capturedFindings \in Seq(Nat)
    /\ capturedOpLog \in Seq(Nat)
    /\ err \in Errors \cup {"none"}
    /\ events \in Seq(Events)
    /\ outcome \in {"none", "report", "error"}
    /\ result \in Context

\* The steps before step n that, going by the agents' answers, wrote an
\* entry of the given field.
Wrote(n, field) == {i \in 1..n : i <= Len(said) /\ said[i][field]}

\* A list of entries is exactly those of the given set of steps, in order
\* and none of them twice.
Lists(list, steps) ==
    /\ {list[k] : k \in 1..Len(list)} = steps
    /\ \A j, k \in 1..Len(list) : j < k => list[j] < list[k]

\* A context is complete up to step n: every finding and every action that
\* the agents of steps 1..n reported, in order, and nothing else.
CompleteUpTo(context, n) ==
    /\ Lists(context.findings, Wrote(n, "findings"))
    /\ Lists(context.opLog, Wrote(n, "actions"))

\* An agent that is about to run, or has just run, was told all that the
\* agents before it reported: no step is run on a stale or partial prompt
\* (executor.go:126-145, 230-249 against 184-192).
ContextComplete ==
    node \in {"normal-template", "normal-react", "normal-parse",
             "final-template", "final-react", "final-parse", "end"}
        => CompleteUpTo(prompt, idx)

\* A report comes with everything the normal agents reported, although the
\* result is built from closure variables and not from the graph's state
\* (executor.go:202-207, 350-356), and with the very state that the final
\* agent wrote the report from; an error comes with nothing.
ResultComplete ==
    /\ outcome = "report" => CompleteUpTo(result, planLen - 1) /\ result = prompt
    /\ outcome # "report" => result = NoContext

\* The final chain runs the last step and nothing else does: the normal
\* chain leaves at least one step, so that its unguarded Steps[idx]
\* (executor.go:162) is in range, and both prepare nodes' range errors are
\* unreachable.
LastStepIsFinal ==
    /\ node \in NormalNodes => idx + 1 < planLen
    /\ node \in FinalNodes => idx + 1 = planLen
    /\ err # "range"

\* Five supersteps a step: a plan fits the budget exactly when five times
\* its length does. One that fits is never cut off, one that does not never
\* gets a report, however much work was done (executor.go:322-323).
StepBudget ==
    /\ err = "maxSteps" => 5 * planLen > MaxRunSteps
    /\ outcome = "report" => 5 * planLen <= MaxRunSteps

\* The events of the first n steps.
Trail(n) == [i \in 1..2 * n |->
    IF i % 2 = 1 THEN Event("step.started", (i + 1) \div 2)
                 ELSE Event("step.findings", i \div 2)]

\* What may follow the events of the finished steps, by what Run returned and
\* what went wrong.
Tails ==
    LET started == Event("step.started", idx + 1)
        bad == Event("step.error", idx + 1)
        failed == Event("error", 0)
        failures == CASE err \in Refusals -> {<<>>}
                      [] err = "parse" -> {<<started, bad, failed>>}
                      [] OTHER -> {<<failed>>, <<started, failed>>}
    IN  CASE outcome = "none" -> {<<>>, <<started>>, <<started, bad>>}
          [] outcome = "report" -> {<<started, Event("report.generated", 0)>>}
          [] OTHER -> failures

\* What a subscriber can rely on: each step is announced once, in order, and
\* its findings before the next one starts; a run of the graph that returns
\* ends in exactly one report.generated or error, which is its last event
\* and agrees with what Run returns; a step.error is emitted exactly if an
\* answer did not parse, which a panic of the parsing is not, and is followed
\* by nothing but that error (executor.go:121, 165, 175, 195, 226, 335, 343).
EventProtocol == \E tail \in Tails : events = Trail(idx) \o tail

\* The promise of PlanRun: what is done is the parse nodes' work and the
\* report, what the report is written from is the final agent's prompt, and
\* what is kept is the result.
Promise == INSTANCE PlanRun WITH
    done <- IF outcome = "report" THEN planLen ELSE idx,
    notes <- [findings |-> findings, opLog |-> opLog],
    basis <- IF outcome = "report" THEN prompt ELSE NoContext,
    kept <- result
PromiseKept == Promise!Spec

\* The plan has steps and fits the budget.
Fits == planLen > 0 /\ 5 * planLen <= MaxRunSteps

\* Run returns whatever the agents do, unless one of their answers panics and
\* the graph lets the panic through, which ends the process; and if the plan
\* fits the budget, it returns a report unless an agent failed, answered badly
\* or the graph could not be set up.
RunReturns ==
    <>(\/ /\ outcome # "none"
          /\ Fits => outcome = "report" \/ err \in {"agent", "parse", "panic", "setup"}
       \/ node = "crashed" /\ Answer.text = "panics")
=============================================================================
