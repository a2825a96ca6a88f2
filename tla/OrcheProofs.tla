---------------------------- MODULE OrcheProofs ----------------------------
(***************************************************************************)
(* The properties of Orche, for every length of plan, budget and number of *)
(* tool calls.                                                             *)
(*                                                                         *)
(* Where the program stands and which step it is at go together (Control); *)
(* that a step's index is in range and the promise of PlanRun follow. The  *)
(* bounds of the callback's counter follow from what the goroutines that   *)
(* have read it, and not yet written it, have read (Counted).              *)
(* What is reported is compared with the trail of a run that goes well:    *)
(* where the program stands tells how much of it is reported (Reported,    *)
(* Trail), and only a failing node adds to it.                             *)
(***************************************************************************)
EXTENDS Orche, FiniteSetTheorems, TLAPS

USE MaxCallsAssumption, MaxAgentStepsAssumption, MaxPlanStepsAssumption, MaxRunStepsAssumption

-----------------------------------------------------------------------------
\* Where the program stands tells which step it is at, and what is decided.
Control ==
    /\ node[1] = "plan" \/ node = <<"main", "call">> => idx = 0 /\ notes = NoNotes
    /\ node = <<"main", "is-last">> => idx < planLen
    /\ node[1] = "normal" => idx + 1 < planLen
    /\ node[1] = "final" \/ node = <<"main", "end">> => idx + 1 = planLen
    /\ (node[1] = "final" /\ node[2] # "prepare") \/ node = <<"main", "end">> => prompt = notes
    /\ node = <<"main", "returned">> <=> outcome # "none"
    /\ outcome = "report" => planLen > 0 /\ prompt = notes
    /\ node[2] # "react" => agent = "idle"
    /\ agent # "waiting" => \A i \in DOMAIN calls : calls[i].at \in {"waiting", "text", "error"}

\* No superstep goes over the budget.
LEMMA SuperstepCounts ==
    ASSUME NEW chain, NEW at, ran \in 0..MaxRunSteps, Superstep(chain, at)
    PROVE  ran' \in 0..MaxRunSteps /\ node = <<chain, at>>
BY DEF Superstep

\* One step of the agent keeps its types.
LEMMA AgentTypes ==
    ASSUME AgentTypeOK, AgentNext PROVE AgentTypeOK'
<1> USE DEF AgentTypeOK
<1>1. CASE Model
  <2>1. ASSUME NEW n \in 1..MaxCalls, NEW list \in [1..n -> Requests] PROVE list \in Seq(Call)
    <3>1. Requests \subseteq Call
      BY DEF Requests, Call
    <3>2. list \in [1..n -> Call] /\ n \in Nat
      BY <3>1
    <3> QED
      BY <3>2
  <2>2. calls' \in Seq(Call)
    BY <1>1, <2>1 DEF Model
  <2>3. agent' \in {"failed", "answered", "tools"}
    BY <1>1 DEF Model
  <2> QED
    BY <1>1, <2>2, <2>3, SMTT(30) DEF Model, Node
<1>2. CASE Dispatch
  <2>1. calls' = [i \in DOMAIN calls |-> [calls[i] EXCEPT !.at = "called"]]
    BY <1>2 DEF Dispatch
  <2>2. \A c \in Call : [c EXCEPT !.at = "called"] \in Call
    BY DEF Call
  <2>3. calls' \in Seq(Call)
    BY <2>1, <2>2
  <2> QED
    BY <1>2, <2>3, SMTT(30) DEF Dispatch, Node
<1>3. CASE Join \/ ExceedAgentSteps
  BY <1>3 DEF Join, ExceedAgentSteps
<1>4. ASSUME NEW i \in DOMAIN calls, Load(i) \/ Store(i) \/ Return(i) PROVE AgentTypeOK'
  <2>1. calls[i] \in Call
    OBVIOUS
  <2>2. \A c \in Call : /\ [c EXCEPT !.at = "loaded", !.read = step] \in Call
                        /\ [c EXCEPT !.at = "running"] \in Call
                        /\ \A at \in {"text", "error"} : [c EXCEPT !.at = at] \in Call
                        /\ c.read \in Nat
    BY DEF Call
  <2>3. Run(calls[i]) \subseteq {"text", "error"}
    BY DEF Run, RunBash, RunSafely
  <2>4. \E c \in Call : calls' = [calls EXCEPT ![i] = c]
    <3>1. CASE Load(i)
      <4>1. calls' = [calls EXCEPT ![i] = [calls[i] EXCEPT !.at = "loaded", !.read = step]]
        BY <3>1 DEF Load
      <4>2. [calls[i] EXCEPT !.at = "loaded", !.read = step] \in Call
        BY <2>1, <2>2
      <4> QED
        BY <4>1, <4>2
    <3>2. CASE Store(i)
      BY <2>1, <2>2, <3>2 DEF Store
    <3>3. CASE Return(i)
      BY <2>1, <2>2, <2>3, <3>3 DEF Return
    <3> QED
      BY <1>4, <3>1, <3>2, <3>3
  <2>5. calls' \in Seq(Call)
    BY <2>4
  <2>6. step' \in Nat /\ starts' \in [alone : Nat, shared : Nat]
    <3>1. CASE Load(i)
      BY <3>1 DEF Load
    <3>2. CASE Store(i)
      <4>1. calls[i].read \in Nat
        BY <2>1, <2>2
      <4> QED
        BY <3>2, <4>1 DEF Store
    <3>3. CASE Return(i)
      BY <3>3 DEF Return
    <3> QED
      BY <1>4, <3>1, <3>2, <3>3
  <2>7. UNCHANGED <<agent, taken>>
    BY <1>4 DEF Load, Store, Return
  <2> QED
    BY <2>5, <2>6, <2>7
<1> QED
  BY <1>1, <1>2, <1>3, <1>4 DEF AgentNext

\* Only while the agent waits for its tools is a goroutine at work.
LEMMA AgentSettles ==
    ASSUME AgentTypeOK, AgentNext,
           agent # "waiting" => \A i \in DOMAIN calls : calls[i].at \in {"waiting", "text", "error"}
    PROVE  /\ agent # "idle"
           /\ agent' # "waiting" => \A i \in DOMAIN calls' : calls'[i].at \in {"waiting", "text", "error"}
<1>1. CASE Model
  <2>1. ASSUME NEW n \in 1..MaxCalls, calls' \in [1..n -> Requests], NEW i \in DOMAIN calls'
        PROVE  calls'[i].at = "waiting"
    <3>1. calls'[i] \in Requests
      BY <2>1
    <3> QED
      BY <3>1 DEF Requests
  <2>2. calls' = calls \/ \E n \in 1..MaxCalls : calls' \in [1..n -> Requests]
    BY <1>1 DEF Model
  <2> QED
    BY <1>1, <2>1, <2>2 DEF Model, Node
<1>2. CASE Dispatch \/ Join \/ ExceedAgentSteps
  BY <1>2 DEF Dispatch, Node, Join, ExceedAgentSteps
<1>3. ASSUME NEW i \in DOMAIN calls, Load(i) \/ Store(i) \/ Return(i)
      PROVE  agent = "waiting" /\ agent' = agent
  BY <1>3 DEF Load, Store, Return
<1> QED
  BY <1>1, <1>2, <1>3 DEF AgentNext

-----------------------------------------------------------------------------
\* The types, and the control that keeps the index in range, are inductive.
LEMMA ControlInductive == Spec => [](TypeOK /\ Control)
<1>1. Init => TypeOK /\ Control
  BY DEF Init, AgentInit, TypeOK, AgentTypeOK, Control, Notes, NoNotes, Places, Chains, Causes
<1>2. TypeOK /\ Control /\ [Next]_vars => TypeOK' /\ Control'
  <2> SUFFICES ASSUME TypeOK, Control, [Next]_vars PROVE TypeOK' /\ Control'
    OBVIOUS
  <2> USE DEF TypeOK
  <2>p. /\ \A chain \in Chains : \A at \in {"prepare", "template", "react", "parse"} :
             <<chain, at>> \in Places
        /\ \A at \in {"call", "is-last", "end", "failed", "returned", "crashed"} :
             <<"main", at>> \in Places
        /\ Causes = {"none", "empty", "setup", "range", "agent", "parse", "panic", "maxSteps"}
    BY DEF Places, Causes
  <2>c. {"plan", "normal", "final"} = Chains
    BY DEF Chains
  <2>l. /\ Append(metrics, <<"main", "loop_check">>) \in Seq(LogTypes)
        /\ \A chain \in Chains : \A what \in {"prepare", "react_output", "error", "react_error",
                                              "parsed", "parse_error", "output"} :
             Append(metrics, <<chain, what>>) \in Seq(LogTypes)
        /\ \A what \in {"start", "end", "error"} : Append(metrics, <<"main", what>>) \in Seq(LogTypes)
    BY DEF LogTypes, Chains
  <2>1. CASE Start
    <3>0. metrics' \in Seq(LogTypes)
      <4>1. metrics \o <<<<"main", "start">>, <<"main", "error">>>> \in Seq(LogTypes)
        BY DEF LogTypes
      <4> QED
        BY <2>1, <2>l, <4>1 DEF Start, Report
    <3>1. TypeOK'
      BY <2>1, <2>l, <2>p, <2>c, <3>0 DEF Start, Refuse, Report, Goto, agentVars, AgentTypeOK
    <3>2. Control'
      BY <2>1, <2>c DEF Control, Start, Refuse, Goto, agentVars
    <3> QED
      BY <3>1, <3>2
  <2>2. CASE IsLast
    <3>1. TypeOK'
      BY <2>2, <2>l, <2>p, <2>c, SuperstepCounts DEF IsLast, Report, Goto, agentVars, AgentTypeOK
    <3>2. Control'
      BY <2>2, <2>c DEF Control, IsLast, Superstep, Goto, agentVars
    <3> QED
      BY <3>1, <3>2
  <2>3. CASE NormalPrepare \/ FinalPrepare
    <3>0. PICK chain \in {"normal", "final"} : Prepare(chain)
      BY <2>3 DEF NormalPrepare, FinalPrepare
    <3>1. TypeOK'
      BY <2>l, <2>p, <2>c, <3>0, SuperstepCounts DEF Prepare, Report, Goto, Fail, agentVars, AgentTypeOK
    <3>2. Control'
      BY <2>c, <3>0 DEF Control, Prepare, Superstep, Goto, Fail, agentVars
    <3> QED
      BY <3>1, <3>2
  <2>4. CASE \E chain \in {"normal", "final"} : Template(chain)
    <3>0. PICK chain \in {"normal", "final"} : Template(chain)
      BY <2>4
    <3>1. TypeOK'
      BY <2>p, <2>c, <3>0, SuperstepCounts DEF Template, Goto, agentVars, AgentTypeOK
    <3>2. Control'
      BY <3>0 DEF Control, Template, Superstep, Goto, agentVars
    <3> QED
      BY <3>1, <3>2
  <2>5. CASE \E chain \in Chains : React(chain)
    <3>0. PICK chain \in Chains : React(chain)
      BY <2>5
    <3>1. TypeOK'
      BY <3>0 DEF React, Superstep, CallAgent, AgentTypeOK
    <3>2. Control'
      BY <3>0 DEF Control, React, Superstep, CallAgent, AgentTypeOK
    <3> QED
      BY <3>1, <3>2
  <2>6. CASE Working
    <3>1. AgentTypeOK' /\ UNCHANGED <<planLen, node, ran, idx, notes, prompt, records, metrics, cause, outcome>>
      BY <2>6, AgentTypes DEF Working
    <3>2. /\ agent # "idle"
          /\ agent' # "waiting" => \A i \in DOMAIN calls' : calls'[i].at \in {"waiting", "text", "error"}
      BY <2>6, AgentSettles DEF Working, Control
    <3>3. Control'
      BY <3>1, <3>2 DEF Control
    <3> QED
      BY <3>1, <3>3
  <2>7. CASE ExecutorReacted \/ PlannerReacted
    <3>0. PICK chain \in Chains : Reacted(chain)
      BY <2>7, <2>c DEF ExecutorReacted, PlannerReacted
    <3>1. metrics' \in Seq(LogTypes)
      BY <2>l, <3>0 DEF Reacted, Report, ReactError
    <3>2. records' \in Seq(Record)
      <4>1. [step |-> step, starts |-> starts] \in Record
        BY DEF Record, AgentTypeOK
      <4> QED
        BY <3>0, <4>1 DEF Reacted
    <3>3. TypeOK'
      BY <2>p, <3>0, <3>1, <3>2 DEF Reacted, AgentTypeOK, Goto, Fail
    <3>4. Control'
      BY <3>0 DEF Control, Reacted, Goto, Fail
    <3> QED
      BY <3>3, <3>4
  <2>8. CASE PlanParse
    <3>1. TypeOK'
      BY <2>8, <2>l, <2>p, <2>c DEF PlanParse, Panic, Report, Goto, Fail, agentVars, AgentTypeOK
    <3>2. Control'
      BY <2>8, <2>c DEF Control, PlanParse, Panic, Goto, Fail, agentVars
    <3> QED
      BY <3>1, <3>2
  <2>9. CASE NormalParse
    <3>1. metrics' \in Seq(LogTypes)
      BY <2>9, <2>l, <2>c DEF NormalParse, Panic, Report
    <3>2. notes' \in Notes
      <4>1. \A f, o \in Seq(Nat) : [findings |-> f, opLog |-> o] \in Notes
        BY DEF Notes
      <4>2. notes.findings \in Seq(Nat) /\ notes.opLog \in Seq(Nat)
        BY DEF Notes
      <4>3. Append(notes.findings, idx + 1) \in Seq(Nat) /\ Append(notes.opLog, idx + 1) \in Seq(Nat)
        BY <4>2
      <4> QED
        BY <2>9, <4>1, <4>2, <4>3 DEF NormalParse
    <3>3. TypeOK'
      <4>1. node[1] = "normal" /\ ran' \in 0..MaxRunSteps /\ node' \in Places
        <5>1. node = <<"normal", "parse">> /\ ran' \in 0..MaxRunSteps
          BY <2>9, SuperstepCounts DEF NormalParse
        <5>2. node' \in {<<"main", "failed">>, <<"main", "crashed">>, <<"main", "is-last">>}
          BY <2>9 DEF NormalParse, Panic, Goto, Fail
        <5> QED
          BY <2>p, <5>1, <5>2
      <4>2. idx' \in Nat /\ (planLen' > 0 => idx' < planLen')
        BY <2>9, <4>1 DEF NormalParse, Control
      <4> QED
        BY <2>9, <2>p, <3>1, <3>2, <4>1, <4>2
           DEF NormalParse, Panic, Fail, Goto, agentVars, AgentTypeOK
    <3>4. Control'
      BY <2>9 DEF Control, NormalParse, Panic, Superstep, Goto, Fail, agentVars
    <3> QED
      BY <3>3, <3>4
  <2>10. CASE FinalParse
    <3>1. TypeOK'
      BY <2>10, <2>l, <2>p, <2>c, SuperstepCounts DEF FinalParse, Report, Goto, agentVars, AgentTypeOK
    <3>2. Control'
      BY <2>10, <2>c DEF Control, FinalParse, Superstep, Goto, agentVars
    <3> QED
      BY <3>1, <3>2
  <2>11. CASE ExceedMaxSteps
    <3>1. TypeOK'
      BY <2>11, <2>l, <2>p, <2>c DEF ExceedMaxSteps, Goto, Fail, agentVars, AgentTypeOK
    <3>2. Control'
      BY <2>11, <2>c DEF Control, ExceedMaxSteps, Goto, Fail, agentVars
    <3> QED
      BY <3>1, <3>2
  <2>12. CASE Finish
    <3>1. TypeOK'
      BY <2>12, <2>l, <2>p, <2>c DEF Finish, Report, Goto, agentVars, AgentTypeOK
    <3>2. Control'
      BY <2>12, <2>c DEF Control, Finish, Goto, agentVars
    <3> QED
      BY <3>1, <3>2
  <2>13. CASE Over \/ UNCHANGED vars
    <3>1. UNCHANGED vars
      BY <2>13, Zenon DEF Over
    <3>2. TypeOK'
      BY <3>1 DEF vars, agentVars, AgentTypeOK
    <3>3. Control'
      BY <3>1 DEF vars, agentVars, Control
    <3> QED
      BY <3>2, <3>3
  <2> QED
    BY <2>1, <2>2, <2>3, <2>4, <2>5, <2>6, <2>7, <2>8, <2>9, <2>10, <2>11, <2>12, <2>13 DEF Next
<1> QED
  BY <1>1, <1>2, PTL DEF Spec

\* The variables always have their types, and the index is that of a step.
THEOREM TypeCorrect == Spec => []TypeOK
BY ControlInductive, PTL

\* The orchestrator keeps the promise of PlanRun, like the newer executor.
THEOREM OrcheImplementsPlanRun == Spec => PromiseKept
<1>1. Init => Promise!Init
  BY DEF Init, Promise!Init, NoNotes, Promise!NoNotes
<1>2. TypeOK /\ Control /\ [Next]_vars => [Promise!Next]_(Promise!vars)
  <2> SUFFICES ASSUME TypeOK, Control, [Next]_vars
               PROVE  Promise!Next \/ UNCHANGED Promise!vars
    OBVIOUS
  <2>0. outcome \in {"none", "report", "error"} /\ planLen \in Nat /\ idx \in Nat
    BY DEF TypeOK
  <2>1. CASE UNCHANGED <<planLen, idx, notes, outcome>> /\ outcome = "none"
    BY <2>1 DEF Promise!vars
  <2>2. CASE UNCHANGED <<planLen, idx, notes, outcome, prompt>>
    BY <2>2 DEF Promise!vars
  <2>3. CASE NormalParse
    <3>1. /\ node[1] = "normal" /\ outcome = "none" /\ outcome' = "none"
          /\ idx + 1 < planLen /\ planLen' = planLen
      BY <2>3 DEF NormalParse, Superstep, Control
    <3>2. CASE UNCHANGED <<idx, notes>>
      BY <3>1, <3>2 DEF Promise!vars
    <3>3. CASE ~UNCHANGED <<idx, notes>>
      <4>1. idx' = idx + 1 /\ notes' \in Promise!NotesAfter(idx + 1)
        BY <2>3, <3>3 DEF NormalParse, Promise!NotesAfter
      <4>2. Promise!CompleteStep
        BY <3>1, <4>1 DEF Promise!CompleteStep
      <4> QED
        BY <4>2 DEF Promise!Next
    <3> QED
      BY <3>2, <3>3
  <2>4. CASE Finish
    <3>1. outcome = "none" /\ UNCHANGED <<planLen, idx, notes, prompt>>
      BY <2>4 DEF Finish, Control
    <3>2. CASE node = <<"main", "end">>
      <4>1. outcome' = "report" /\ idx + 1 = planLen /\ prompt = notes
        BY <2>4, <3>2 DEF Finish, Control
      <4>2. Promise!Report
        BY <3>1, <4>1 DEF Promise!Report
      <4> QED
        BY <4>2 DEF Promise!Next
    <3>3. CASE node = <<"main", "failed">>
      <4>1. outcome' = "error"
        BY <2>4, <3>3 DEF Finish
      <4>2. Promise!Fail
        BY <3>1, <4>1 DEF Promise!Fail
      <4> QED
        BY <4>2 DEF Promise!Next
    <3> QED
      BY <2>4, <3>2, <3>3 DEF Finish
  <2>5. CASE Start
    <3>1. outcome = "none" /\ UNCHANGED <<planLen, idx, notes, prompt>>
      BY <2>5 DEF Start, Control
    <3>2. outcome' = "error" \/ outcome' = outcome
      BY <2>5 DEF Start, Refuse
    <3>3. outcome' = "error" => Promise!Fail
      BY <3>1 DEF Promise!Fail
    <3> QED
      BY <2>1, <3>1, <3>2, <3>3 DEF Promise!Next
  <2>6. CASE IsLast \/ NormalPrepare \/ FinalPrepare \/ PlanParse \/ FinalParse
             \/ (\E chain \in {"normal", "final"} : Template(chain))
    <3>1. UNCHANGED <<planLen, idx, notes, outcome>> /\ outcome = "none"
      BY <2>6 DEF IsLast, NormalPrepare, FinalPrepare, Prepare, PlanParse, FinalParse, Template,
                  Superstep, Control
    <3> QED
      BY <2>1, <3>1
  <2>7. CASE Working \/ PlannerReacted \/ ExecutorReacted \/ ExceedMaxSteps \/ Over
             \/ UNCHANGED vars \/ (\E chain \in Chains : React(chain))
    <3>1. UNCHANGED <<planLen, idx, notes, outcome, prompt>>
      BY <2>7 DEF Working, PlannerReacted, ExecutorReacted, Reacted, ExceedMaxSteps, Over, vars, React
    <3> QED
      BY <2>2, <3>1
  <2> QED
    BY <2>3, <2>4, <2>5, <2>6, <2>7 DEF Next
<1> QED
  BY <1>1, <1>2, ControlInductive, PTL DEF Spec, PromiseKept, Promise!Spec
-----------------------------------------------------------------------------
\* What the counter must at least have: the calls that nothing overlaps, and
\* one of the others.
Least == starts.alone + (IF starts.shared > 0 THEN 1 ELSE 0)

\* The counter is between this and the calls made, but for a goroutine that has
\* read it and not yet written it: what it will write is.
Counted ==
    /\ step <= starts.alone + starts.shared
    /\ step + 1 >= Least
    /\ step >= Least \/ \E i \in DOMAIN calls : calls[i].at = "loaded"
    /\ \A i \in DOMAIN calls : calls[i].at = "loaded" =>
         /\ calls[i].read + 1 >= Least
         /\ calls[i].read + 1 <= starts.alone + starts.shared
         /\ Len(calls) > 1 => starts.shared > 0

\* The agent's steps keep the counter so.
LEMMA AgentCounts ==
    ASSUME AgentTypeOK, Counted, AgentNext,
           agent # "waiting" => \A i \in DOMAIN calls : calls[i].at \in {"waiting", "text", "error"}
    PROVE  Counted'
<1> DEFINE Loaded(i) == calls[i].at = "loaded"
<1>1. /\ step \in Nat /\ starts.alone \in Nat /\ starts.shared \in Nat
      /\ starts = [alone |-> starts.alone, shared |-> starts.shared]
      /\ DOMAIN calls = 1..Len(calls) /\ Len(calls) \in Nat
      /\ \A i \in DOMAIN calls : calls[i] \in Call
  BY DEF AgentTypeOK
<1>2. \A i \in DOMAIN calls : calls[i].read \in Nat
  BY <1>1 DEF Call
<1>3. ASSUME agent # "waiting" PROVE step >= Least
  BY <1>3 DEF Counted
<1>4. ASSUME Model \/ Dispatch PROVE Counted'
  <2>1. agent # "waiting" /\ step' = step + 1
        /\ starts'.alone = starts.alone + 1 /\ starts'.shared = starts.shared
    BY <1>1, <1>4 DEF Model, Dispatch, Node
  <2>2. \A i \in DOMAIN calls' : calls'[i].at # "loaded"
    <3>1. CASE Model
      <4>1. calls' = calls \/ \E n \in 1..MaxCalls : calls' \in [1..n -> Requests]
        BY <3>1 DEF Model
      <4>2. \A r \in Requests : r.at # "loaded"
        BY DEF Requests
      <4> QED
        BY <2>1, <4>1, <4>2
    <3>2. CASE Dispatch
      <4>1. calls' = [i \in DOMAIN calls |-> [calls[i] EXCEPT !.at = "called"]]
        BY <3>2 DEF Dispatch
      <4>2. \A c \in Call : [c EXCEPT !.at = "called"].at # "loaded"
        BY DEF Call
      <4> QED
        BY <1>1, <4>1, <4>2
    <3> QED
      BY <1>4, <3>1, <3>2
  <2>3. Least' = Least + 1 /\ Least \in Nat
    BY <1>1, <2>1 DEF Least
  <2> QED
    BY <1>1, <1>3, <2>1, <2>2, <2>3, SMTT(30) DEF Counted
<1>5. CASE Join \/ ExceedAgentSteps
  BY <1>5 DEF Join, ExceedAgentSteps, Counted, Least
<1>6. ASSUME NEW i \in DOMAIN calls, Load(i) PROVE Counted'
  <2>1. /\ calls[i].at = "called" /\ step' = step
        /\ calls' = [calls EXCEPT ![i] = [calls[i] EXCEPT !.at = "loaded", !.read = step]]
    BY <1>6 DEF Load
  <2>2. /\ DOMAIN calls' = DOMAIN calls /\ Len(calls') = Len(calls)
        /\ \A j \in DOMAIN calls : j # i => calls'[j] = calls[j]
    BY <1>1, <2>1 DEF AgentTypeOK
  <2>3. calls'[i].at = "loaded" /\ calls'[i].read = step
    <3>1. calls'[i] = [calls[i] EXCEPT !.at = "loaded", !.read = step]
      BY <2>1
    <3>2. \A c \in Call : /\ [c EXCEPT !.at = "loaded", !.read = step].at = "loaded"
                          /\ [c EXCEPT !.at = "loaded", !.read = step].read = step
      BY DEF Call
    <3> QED
      BY <1>1, <3>1, <3>2
  <2>4. CASE Len(calls) = 1
    <3>1. starts'.alone = starts.alone + 1 /\ starts'.shared = starts.shared
      BY <1>1, <1>6, <2>4 DEF Load
    <3>2. \A j \in DOMAIN calls : j = i
      BY <1>1, <2>4
    <3>3. step >= Least
      BY <2>1, <3>2 DEF Counted
    <3>4. Least' = Least + 1 /\ Least \in Nat
      BY <1>1, <3>1 DEF Least
    <3>5. \A j \in DOMAIN calls' : j = i
      BY <2>2, <3>2
    <3>6. step' <= starts'.alone + starts'.shared /\ step' + 1 >= Least'
      BY <1>1, <2>1, <3>1, <3>3, <3>4, SMTT(30) DEF Counted
    <3>7. /\ calls'[i].read + 1 >= Least'
          /\ calls'[i].read + 1 <= starts'.alone + starts'.shared
      BY <1>1, <2>3, <3>1, <3>3, <3>4, SMTT(30) DEF Counted
    <3>8. ~(Len(calls') > 1)
      BY <2>2, <2>4
    <3> QED
      BY <2>2, <2>3, <3>5, <3>6, <3>7, <3>8 DEF Counted
  <2>5. CASE Len(calls) # 1
    <3>1. starts'.alone = starts.alone /\ starts'.shared = starts.shared + 1
      BY <1>1, <1>6, <2>5 DEF Load
    <3>2. Len(calls) > 1
      BY <1>1, <2>5
    <3>3. Least' = starts.alone + 1 /\ Least' >= Least /\ Least \in Nat
      BY <1>1, <3>1 DEF Least
    <3>4. step + 1 >= Least'
      <4>1. CASE step >= Least
        BY <1>1, <3>3, <4>1 DEF Least
      <4>2. CASE \E j \in DOMAIN calls : Loaded(j)
        <5>1. starts.shared > 0
          BY <3>2, <4>2 DEF Counted
        <5> QED
          BY <1>1, <3>3, <5>1 DEF Least, Counted
      <4> QED
        BY <4>1, <4>2 DEF Counted
    <3>5. ASSUME NEW j \in DOMAIN calls, Loaded(j)
          PROVE  calls[j].read + 1 >= Least'
      <4>1. starts.shared > 0
        BY <3>2, <3>5 DEF Counted
      <4> QED
        BY <1>1, <3>3, <3>5, <4>1 DEF Least, Counted
    <3> QED
      BY <1>1, <1>2, <2>1, <2>2, <2>3, <3>1, <3>2, <3>4, <3>5, SMTT(30) DEF Counted
  <2> QED
    BY <2>4, <2>5
<1>7. ASSUME NEW i \in DOMAIN calls, Store(i) PROVE Counted'
  <2>1. /\ calls[i].at = "loaded" /\ step' = calls[i].read + 1 /\ starts' = starts
        /\ calls' = [calls EXCEPT ![i] = [calls[i] EXCEPT !.at = "running"]]
    BY <1>7 DEF Store
  <2>2. /\ DOMAIN calls' = DOMAIN calls /\ Len(calls') = Len(calls)
        /\ \A j \in DOMAIN calls : j # i => calls'[j] = calls[j]
    BY <1>1, <2>1 DEF AgentTypeOK
  <2>3. calls'[i].at # "loaded"
    <3>1. calls'[i] = [calls[i] EXCEPT !.at = "running"]
      BY <2>1
    <3>2. \A c \in Call : [c EXCEPT !.at = "running"].at = "running"
      BY DEF Call
    <3> QED
      BY <1>1, <3>1, <3>2
  <2>4. Least' = Least /\ Least \in Nat
    BY <1>1, <2>1 DEF Least
  <2> QED
    BY <1>1, <1>2, <2>1, <2>2, <2>3, <2>4, SMTT(30) DEF Counted
<1>8. ASSUME NEW i \in DOMAIN calls, Return(i) PROVE Counted'
  <2>1. /\ calls[i].at = "running" /\ step' = step /\ starts' = starts
        /\ \E at \in Run(calls[i]) : calls' = [calls EXCEPT ![i] = [calls[i] EXCEPT !.at = at]]
    BY <1>8 DEF Return
  <2>2. PICK at \in {"text", "error"} : calls' = [calls EXCEPT ![i] = [calls[i] EXCEPT !.at = at]]
    BY <2>1 DEF Run, RunBash, RunSafely
  <2>3. /\ DOMAIN calls' = DOMAIN calls /\ Len(calls') = Len(calls)
        /\ \A j \in DOMAIN calls : j # i => calls'[j] = calls[j]
    BY <1>1, <2>2 DEF AgentTypeOK
  <2>4. calls'[i].at # "loaded"
    <3>1. calls'[i] = [calls[i] EXCEPT !.at = at]
      BY <2>2
    <3>2. \A c \in Call : [c EXCEPT !.at = at].at = at
      BY DEF Call
    <3> QED
      BY <1>1, <3>1, <3>2
  <2>5. Least' = Least /\ Least \in Nat
    BY <1>1, <2>1 DEF Least
  <2> QED
    BY <1>1, <1>2, <2>1, <2>3, <2>4, <2>5 DEF Counted
<1> QED
  BY <1>4, <1>5, <1>6, <1>7, <1>8 DEF AgentNext

\* Whatever increments the race loses, a record counts no call that was not
\* made, and every call that nothing overlapped.
THEOREM RecordsCount == Spec => []CountsTruthful
<1>1. Init => Counted /\ CountsTruthful
  BY DEF Init, AgentInit, Counted, Least, CountsTruthful, Range
<1>2. TypeOK /\ Control /\ Counted /\ CountsTruthful /\ [Next]_vars => Counted' /\ CountsTruthful'
  <2> SUFFICES ASSUME TypeOK, Control, Counted, CountsTruthful, [Next]_vars
               PROVE  Counted' /\ CountsTruthful'
    OBVIOUS
  <2>1. CASE Working
    <3>1. Counted'
      BY <2>1, AgentCounts DEF Working, Control, TypeOK
    <3>2. records' = records
      BY <2>1 DEF Working
    <3> QED
      BY <3>1, <3>2 DEF CountsTruthful, Range
  <2>2. CASE \E chain \in Chains : React(chain)
    <3>1. /\ calls' = <<>> /\ step' = 1 /\ starts' = [alone |-> 1, shared |-> 0]
          /\ records' = records
      BY <2>2 DEF React, CallAgent
    <3> QED
      BY <3>1 DEF Counted, Least, CountsTruthful, Range
  <2>3. CASE PlannerReacted \/ ExecutorReacted
    <3>1. PICK chain \in Chains : Reacted(chain)
      BY <2>3 DEF ExecutorReacted, PlannerReacted, Chains
    <3>2. UNCHANGED <<calls, step, starts>>
      BY <3>1 DEF Reacted
    <3>3. step >= Least /\ step <= starts.alone + starts.shared
      BY <3>1 DEF Reacted, Control, Counted
    <3>4. \/ records' = records
          \/ records' = Append(records, [step |-> step, starts |-> starts])
      BY <3>1 DEF Reacted
    <3>5. Range(records') \subseteq Range(records) \cup {[step |-> step, starts |-> starts]}
      BY <3>4 DEF Range, TypeOK
    <3> QED
      BY <3>2, <3>3, <3>5 DEF Counted, CountsTruthful, Least
  <2>4. CASE \/ Start \/ IsLast \/ NormalPrepare \/ FinalPrepare \/ PlanParse \/ NormalParse
             \/ FinalParse \/ (\E chain \in {"normal", "final"} : Template(chain))
             \/ ExceedMaxSteps \/ Finish \/ Over \/ UNCHANGED vars
    <3>1. UNCHANGED <<agentVars, records>>
      BY <2>4 DEF Start, IsLast, NormalPrepare, FinalPrepare, Prepare, PlanParse, NormalParse,
                  FinalParse, Template, ExceedMaxSteps, Finish, Over, vars
    <3> QED
      BY <3>1 DEF agentVars, Counted, Least, CountsTruthful, Range
  <2> QED
    BY <2>1, <2>2, <2>3, <2>4 DEF Next
<1> QED
  BY <1>1, <1>2, ControlInductive, PTL DEF Spec
-----------------------------------------------------------------------------
\* The chain that takes step j, counted from 0.
ChainOf(j) == IF j + 1 = planLen THEN "final" ELSE "normal"

\* The whole trail, place by place.
LEMMA TrailFacts ==
    ASSUME planLen \in Nat
    PROVE  /\ FullTrail \in Seq(LogTypes) /\ Len(FullTrail) = 4 + 4 * planLen
           /\ FullTrail[1] = <<"plan", "react_output">>
           /\ FullTrail[2] = <<"plan", "parsed">>
           /\ FullTrail[3] = <<"main", "start">>
           /\ FullTrail[4 + 4 * planLen] = <<"main", "end">>
           /\ \A j \in 0 .. planLen - 1 :
                /\ FullTrail[4 + 4 * j] = <<"main", "loop_check">>
                /\ FullTrail[5 + 4 * j] = <<ChainOf(j), "prepare">>
                /\ FullTrail[6 + 4 * j] = <<ChainOf(j), "react_output">>
                /\ FullTrail[7 + 4 * j] =
                     <<ChainOf(j), IF ChainOf(j) = "final" THEN "output" ELSE "parsed">>
<1> DEFINE head == <<<<"plan", "react_output">>, <<"plan", "parsed">>, <<"main", "start">>>>
           body == [i \in 1..4 * planLen |-> Log(i)]
           tail == <<<<"main", "end">>>>
           start == head \o body
<1>1. \A i \in 1..4 * planLen : Log(i) \in LogTypes
  BY DEF Log, LogTypes, Chains
<1>2. /\ body \in Seq(LogTypes) /\ Len(body) = 4 * planLen
      /\ \A i \in 1..4 * planLen : body[i] = Log(i)
  <2>1. body \in [1..4 * planLen -> LogTypes] /\ 4 * planLen \in Nat
    BY <1>1
  <2> QED
    BY <2>1
<1>3. /\ head \in Seq(LogTypes) /\ Len(head) = 3
      /\ head[1] = <<"plan", "react_output">> /\ head[2] = <<"plan", "parsed">>
      /\ head[3] = <<"main", "start">>
  BY DEF LogTypes, Chains
<1>4. tail \in Seq(LogTypes) /\ Len(tail) = 1 /\ tail[1] = <<"main", "end">>
  BY DEF LogTypes
<1>5. FullTrail = start \o tail
  BY DEF FullTrail
<1> HIDE DEF head, body, tail
<1>6. /\ start \in Seq(LogTypes) /\ Len(start) = 3 + 4 * planLen
      /\ \A i \in 1..3 : start[i] = head[i]
      /\ \A i \in 1..4 * planLen : start[3 + i] = Log(i)
  <2>0. head \in Seq(LogTypes) /\ body \in Seq(LogTypes)
    BY <1>2, <1>3
  <2>1. /\ head \o body \in Seq(LogTypes) /\ Len(head \o body) = Len(head) + Len(body)
        /\ \A i \in 1..Len(head) : (head \o body)[i] = head[i]
        /\ \A i \in 1..Len(body) : (head \o body)[Len(head) + i] = body[i]
    BY <2>0, SMTT(30)
  <2>2. /\ start \in Seq(LogTypes) /\ Len(start) = Len(head) + Len(body)
        /\ \A i \in 1..Len(head) : start[i] = head[i]
        /\ \A i \in 1..Len(body) : start[Len(head) + i] = body[i]
    BY <2>1 DEF start
  <2> HIDE DEF start
  <2> QED
    BY <1>2, <1>3, <2>2
<1> HIDE DEF start
<1>7. /\ FullTrail \in Seq(LogTypes) /\ Len(FullTrail) = 4 + 4 * planLen
      /\ \A i \in 1 .. 3 + 4 * planLen : FullTrail[i] = start[i]
      /\ FullTrail[4 + 4 * planLen] = <<"main", "end">>
  <2>0. start \in Seq(LogTypes) /\ tail \in Seq(LogTypes)
    BY <1>4, <1>6
  <2>a. /\ start \o tail \in Seq(LogTypes) /\ Len(start \o tail) = Len(start) + Len(tail)
        /\ \A i \in 1..Len(start) : (start \o tail)[i] = start[i]
        /\ \A i \in 1..Len(tail) : (start \o tail)[Len(start) + i] = tail[i]
    BY <2>0, SMTT(30)
  <2>1. /\ FullTrail \in Seq(LogTypes) /\ Len(FullTrail) = Len(start) + Len(tail)
        /\ \A i \in 1..Len(start) : FullTrail[i] = start[i]
        /\ \A i \in 1..Len(tail) : FullTrail[Len(start) + i] = tail[i]
    BY <1>5, <2>a, Zenon
  <2>2. FullTrail[Len(start) + 1] = tail[1]
    BY <1>4, <2>1
  <2>3. (3 + 4 * planLen) + 1 = 4 + 4 * planLen
    OBVIOUS
  <2> QED
    BY <1>4, <1>6, <2>1, <2>2, <2>3
<1>8. \A i \in 1..4 * planLen : FullTrail[3 + i] = Log(i)
  <2>1. ASSUME NEW i \in 1..4 * planLen PROVE 3 + i \in 1 .. 3 + 4 * planLen
    OBVIOUS
  <2> QED
    BY <1>6, <1>7, <2>1
<1>9. ASSUME NEW j \in 0 .. planLen - 1
      PROVE  /\ FullTrail[4 + 4 * j] = <<"main", "loop_check">>
             /\ FullTrail[5 + 4 * j] = <<ChainOf(j), "prepare">>
             /\ FullTrail[6 + 4 * j] = <<ChainOf(j), "react_output">>
             /\ FullTrail[7 + 4 * j] =
                  <<ChainOf(j), IF ChainOf(j) = "final" THEN "output" ELSE "parsed">>
  <2>1. \A m \in 1..4 : 4 * j + m \in 1..4 * planLen /\ 3 + (4 * j + m) = (3 + m) + 4 * j
    OBVIOUS
  <2>2. /\ (4 * j + 1) % 4 = 1 /\ (4 * j + 2) % 4 = 2 /\ (4 * j + 3) % 4 = 3 /\ (4 * j + 4) % 4 = 0
    OBVIOUS
  <2>3. \A m \in 1..4 : (4 * j + m > 4 * (planLen - 1)) <=> (j + 1 = planLen)
    OBVIOUS
  <2>4. /\ Log(4 * j + 1) = <<"main", "loop_check">>
        /\ Log(4 * j + 2) = <<ChainOf(j), "prepare">>
        /\ Log(4 * j + 3) = <<ChainOf(j), "react_output">>
        /\ Log(4 * j + 4) = <<ChainOf(j), IF ChainOf(j) = "final" THEN "output" ELSE "parsed">>
    BY <2>2, <2>3 DEF Log, ChainOf
  <2>5. \A m \in 1..4 : FullTrail[(3 + m) + 4 * j] = Log(4 * j + m)
    BY <1>8, <2>1
  <2>6. /\ FullTrail[4 + 4 * j] = Log(4 * j + 1) /\ FullTrail[5 + 4 * j] = Log(4 * j + 2)
        /\ FullTrail[6 + 4 * j] = Log(4 * j + 3) /\ FullTrail[7 + 4 * j] = Log(4 * j + 4)
    BY <2>5
  <2> QED
    BY <2>4, <2>6
<1>10. FullTrail[1] = head[1] /\ FullTrail[2] = head[2] /\ FullTrail[3] = head[3]
  BY <1>6, <1>7
<1> QED
  BY <1>3, <1>7, <1>9, <1>10

\* The first k of the trail.
Cut(k) == SubSeq(FullTrail, 1, k)

\* How much of the trail is reported where the program stands, if it has not
\* failed.
Reported ==
    IF node[1] = "plan"
    THEN IF node[2] = "react" THEN 0 ELSE 1
    ELSE CASE node[2] = "call" -> 2
           [] node[2] = "is-last" -> 3 + 4 * idx
           [] node[2] = "prepare" -> 4 + 4 * idx
           [] node[2] \in {"template", "react"} -> 5 + 4 * idx
           [] node[2] = "parse" -> 6 + 4 * idx
           [] OTHER -> 3 + 4 * planLen

Stopped == {<<"main", "failed">>, <<"main", "returned">>, <<"main", "crashed">>}

\* A trail, cut off if the program has failed; the main error is still to come.
Trail ==
    /\ node \notin Stopped => metrics = Cut(Reported)
    /\ node = <<"main", "failed">> =>
         /\ cause # "setup"
         /\ \E k \in 0..Len(FullTrail) - 1 : \E e \in NodeErrors(k) : metrics = Cut(k) \o e
    /\ TrailTruthful
    /\ node[1] = "plan" => node[2] \in {"react", "parse"}

LEMMA CutFacts ==
    ASSUME planLen \in Nat
    PROVE  /\ Cut(0) = <<>>
           /\ Cut(Len(FullTrail)) = FullTrail
           /\ \A k \in 0..Len(FullTrail) : Cut(k) \in Seq(LogTypes) /\ Len(Cut(k)) = k
           /\ \A k \in 0..Len(FullTrail) : \A i \in 1..k : Cut(k)[i] = FullTrail[i]
           /\ \A k \in 0..Len(FullTrail) - 1 : Append(Cut(k), FullTrail[k + 1]) = Cut(k + 1)
<1>1. FullTrail \in Seq(LogTypes) /\ Len(FullTrail) \in Nat
  BY TrailFacts
<1> DEFINE f == FullTrail
<1>2. f \in Seq(LogTypes) /\ Len(f) \in Nat /\ \A k : Cut(k) = SubSeq(f, 1, k)
  BY <1>1 DEF Cut
<1> HIDE DEF f
<1>3. \A k \in 0..Len(f) : /\ SubSeq(f, 1, k) \in Seq(LogTypes) /\ Len(SubSeq(f, 1, k)) = k
                           /\ \A i \in 1..k : SubSeq(f, 1, k)[i] = f[i]
  BY <1>2
<1>4. SubSeq(f, 1, 0) = <<>> /\ SubSeq(f, 1, Len(f)) = f
  BY <1>2, <1>3
<1>5. ASSUME NEW k \in 0..Len(f) - 1
      PROVE  Append(SubSeq(f, 1, k), f[k + 1]) = SubSeq(f, 1, k + 1)
  BY <1>2, <1>3
<1> QED
  BY <1>2, <1>3, <1>4, <1>5 DEF f

\* What it is compared with does not change after the plan is made.
LEMMA TrailStays ==
    ASSUME planLen' = planLen
    PROVE  /\ FullTrail' = FullTrail
           /\ \A k : Cut(k)' = Cut(k)
           /\ cause' = cause => \A k : NodeErrors(k)' = NodeErrors(k)
<1>1. FullTrail' = FullTrail
  BY DEF FullTrail, Log
<1> QED
  BY <1>1 DEF Cut, NodeErrors

\* Never is the trail complete before the end.
LEMMA ReportedInRange ==
    ASSUME TypeOK, Control, Trail, node \notin Stopped
    PROVE  /\ Reported \in 0..Len(FullTrail) - 1 /\ Reported \in Nat
           /\ metrics = Cut(Reported) /\ outcome = "none"
<1>1. planLen \in Nat /\ idx \in Nat
  BY DEF TypeOK
<1>2. Len(FullTrail) = 4 + 4 * planLen
  BY <1>1, TrailFacts
<1>3. metrics = Cut(Reported) /\ outcome = "none"
  BY DEF Trail, Stopped, Control, TypeOK
<1>4. Reported \in Nat /\ Reported <= 3 + 4 * planLen
  <2>1. CASE node \in {<<"plan", "react">>, <<"plan", "parse">>, <<"main", "call">>}
    <3>1. /\ node = <<"plan", "react">> => Reported = 0
          /\ node = <<"plan", "parse">> => Reported = 1
          /\ node = <<"main", "call">> => Reported = 2
      BY DEF Reported
    <3> QED
      BY <1>1, <2>1, <3>1
  <2>2. CASE node = <<"main", "is-last">>
    BY <1>1, <2>2 DEF Reported, Control
  <2>3. CASE node = <<"main", "end">>
    BY <1>1, <2>3 DEF Reported
  <2>4. CASE node \in {"normal", "final"} \X {"prepare", "template", "react", "parse"}
    <3>1. idx < planLen
      BY <1>1, <2>4 DEF Control
    <3>2. Reported \in {4 + 4 * idx, 5 + 4 * idx, 6 + 4 * idx}
      BY <2>4 DEF Reported
    <3> QED
      BY <1>1, <3>1, <3>2
  <2> QED
    BY <2>1, <2>2, <2>3, <2>4 DEF TypeOK, Places, Chains, Trail, Stopped
<1> QED
  BY <1>1, <1>2, <1>3, <1>4

\* A step that reports the next of the trail, and where that leads to.
LEMMA TrailGrows ==
    ASSUME TypeOK, Control, Trail, node \notin Stopped, node' \notin Stopped,
           node'[1] = "plan" => node'[2] \in {"react", "parse"},
           planLen' = planLen, outcome' = outcome,
           metrics' = Append(metrics, FullTrail[Reported + 1]), Reported' = Reported + 1
    PROVE  Trail'
<1>1. planLen \in Nat
  BY DEF TypeOK
<1>2. metrics' = Cut(Reported + 1)
  BY <1>1, ReportedInRange, CutFacts
<1>3. metrics' = Cut(Reported)'
  <2>1. Cut(Reported)' = SubSeq(FullTrail', 1, Reported')
    BY DEF Cut
  <2>2. Cut(Reported + 1) = SubSeq(FullTrail, 1, Reported + 1)
    BY DEF Cut
  <2> QED
    BY <1>2, <2>1, <2>2, TrailStays
<1>4. outcome' = "none"
  BY ReportedInRange
<1> QED
  BY <1>3, <1>4 DEF Trail, Stopped, TrailTruthful

\* A step that reports nothing and does not fail.
LEMMA TrailWaits ==
    ASSUME TypeOK, Control, Trail, node \notin Stopped, node' \notin Stopped,
           node'[1] = "plan" => node'[2] \in {"react", "parse"},
           planLen' = planLen, outcome' = outcome, metrics' = metrics, Reported' = Reported
    PROVE  Trail'
<1>1. metrics' = Cut(Reported)'
  <2>1. Cut(Reported)' = SubSeq(FullTrail', 1, Reported')
    BY DEF Cut
  <2>2. Cut(Reported) = SubSeq(FullTrail, 1, Reported)
    BY DEF Cut
  <2> QED
    BY <2>1, <2>2, TrailStays, ReportedInRange
<1>2. outcome' = "none"
  BY ReportedInRange
<1> QED
  BY <1>1, <1>2 DEF Trail, Stopped, TrailTruthful

\* A step of a node that fails.
LEMMA TrailBreaks ==
    ASSUME TypeOK, Control, Trail, node \notin Stopped,
           node' = <<"main", "failed">>, planLen' = planLen, outcome' = outcome, cause' # "setup",
           NEW k, k = Reported, NEW e \in NodeErrors(k)', metrics' = metrics \o e
    PROVE  Trail'
<1>1. /\ metrics' = Cut(k) \o e /\ k \in 0..Len(FullTrail) - 1
      /\ outcome' = "none"
  BY ReportedInRange
<1>2. \E m \in 0..Len(FullTrail') - 1 : \E f \in NodeErrors(m)' : metrics' = Cut(m)' \o f
  BY <1>1, TrailStays
<1> QED
  BY <1>1, <1>2 DEF Trail, Stopped, TrailTruthful

\* A panic in the parsing: a node that fails without a report, or a crash.
LEMMA TrailPanics ==
    ASSUME TypeOK, Control, Trail, node \notin Stopped, Panic, planLen' = planLen,
           outcome' = outcome, NEW k, k = Reported, cause' = "panic" => <<>> \in NodeErrors(k)'
    PROVE  Trail'
<1>1. CASE Fail("panic")
  <2>1. metrics' = metrics \o <<>>
    BY DEF Panic, TypeOK
  <2> QED
    BY <1>1, <2>1, TrailBreaks DEF Fail, Goto
<1>2. CASE Goto("main", "crashed")
  <2>1. outcome' = "none"
    BY ReportedInRange
  <2> QED
    BY <1>2, <2>1 DEF Goto, Trail, Stopped, TrailTruthful
<1> QED
  BY <1>1, <1>2 DEF Panic

\* The start is in what was reported, if and only if that is more than the
\* planner's part.
LEMMA StartReported ==
    ASSUME planLen \in Nat, NEW k \in 0..Len(FullTrail) - 1, NEW e \in NodeErrors(k)
    PROVE  /\ e \in Seq(LogTypes) /\ Cut(k) \o e \in Seq(LogTypes)
           /\ <<"main", "start">> \in Range(Cut(k) \o e) <=> k >= 3
<1>1. /\ e \in Seq(LogTypes)
      /\ \A i \in 1..Len(e) : e[i] # <<"main", "start">>
  <2>1. \/ e = <<>>
        \/ e \in {<<<<"plan", "error">>>>, <<<<"normal", "parse_error">>>>}
        \/ k >= 3 /\ FullTrail[k][2] = "prepare" /\ e = <<<<FullTrail[k][1], "react_error">>>>
    BY Zenon DEF NodeErrors
  <2>2. CASE e = <<>>
    BY <2>2
  <2>3. CASE e \in {<<<<"plan", "error">>>>, <<<<"normal", "parse_error">>>>}
    <3>1. <<"plan", "error">> \in LogTypes /\ <<"normal", "parse_error">> \in LogTypes
      BY DEF LogTypes, Chains
    <3>2. CASE e = <<<<"plan", "error">>>>
      BY <3>1, <3>2
    <3>3. CASE e = <<<<"normal", "parse_error">>>>
      BY <3>1, <3>3
    <3> QED
      BY <2>3, <3>2, <3>3, Zenon
  <2>4. CASE k >= 3 /\ FullTrail[k][2] = "prepare" /\ e = <<<<FullTrail[k][1], "react_error">>>>
    <3>1. FullTrail[k] \in LogTypes
      BY <2>4, TrailFacts
    <3>2. <<FullTrail[k][1], "react_error">> \in LogTypes
      BY <3>1 DEF LogTypes
    <3> QED
      BY <2>4, <3>2
  <2> QED
    BY <2>1, <2>2, <2>3, <2>4, Zenon
<1>2. Cut(k) \in Seq(LogTypes) /\ Len(Cut(k)) = k /\ k \in Nat /\ \A i \in 1..k : Cut(k)[i] = FullTrail[i]
  <2>1. k \in 0..Len(FullTrail) /\ k \in Nat
    BY TrailFacts
  <2> QED
    BY <2>1, CutFacts
<1> DEFINE c == Cut(k)
<1>3. c \in Seq(LogTypes) /\ Len(c) = k /\ \A i \in 1..k : c[i] = FullTrail[i]
  BY <1>2
<1> HIDE DEF c
<1>4. /\ c \o e \in Seq(LogTypes) /\ Len(c \o e) = k + Len(e)
      /\ \A i \in 1..k : (c \o e)[i] = FullTrail[i]
      /\ \A i \in 1..Len(e) : (c \o e)[k + i] = e[i]
  <2>1. c \o e \in Seq(LogTypes) /\ Len(c \o e) = Len(c) + Len(e) /\ Len(e) \in Nat
    BY <1>1, <1>3
  <2>2. \A i \in 1..Len(c) : (c \o e)[i] = c[i]
    BY <1>1, <1>3
  <2>3. \A i \in 1..Len(e) : (c \o e)[Len(c) + i] = e[i]
    BY <1>1, <1>3
  <2> QED
    BY <1>3, <2>1, <2>2, <2>3
<1>5. k >= 3 => <<"main", "start">> \in Range(c \o e)
  <2>1. k >= 3 => (c \o e)[3] = <<"main", "start">> /\ 3 \in DOMAIN (c \o e)
    BY <1>1, <1>2, <1>4, TrailFacts
  <2> QED
    BY <2>1 DEF Range
<1>6. ASSUME k < 3, NEW i \in DOMAIN (c \o e) PROVE (c \o e)[i] # <<"main", "start">>
  <2>1. CASE i \in 1..k
    <3>1. i \in {1, 2}
      BY <1>2, <1>6, <2>1
    <3> QED
      BY <1>4, <2>1, <3>1, TrailFacts
  <2>2. CASE i \notin 1..k
    <3>1. i - k \in 1..Len(e) /\ k + (i - k) = i
      BY <1>1, <1>2, <1>4, <2>2
    <3> QED
      BY <1>1, <1>4, <3>1
  <2> QED
    BY <2>1, <2>2
<1>7. <<"main", "start">> \in Range(c \o e) => k >= 3
  BY <1>2, <1>6 DEF Range
<1> QED
  BY <1>1, <1>4, <1>5, <1>7 DEF c

\* What is reported follows the trail until something fails.
LEMMA TrailInductive == Spec => []Trail
<1>1. Init => Trail
  <2> SUFFICES ASSUME Init PROVE Trail
    OBVIOUS
  <2>1. planLen \in Nat /\ node = <<"plan", "react">> /\ metrics = <<>> /\ outcome = "none"
    BY DEF Init
  <2>2. metrics = Cut(Reported)
    BY <2>1, CutFacts DEF Reported
  <2> QED
    BY <2>1, <2>2 DEF Trail, Stopped, TrailTruthful
<1>2. TypeOK /\ Control /\ Trail /\ [Next]_vars => Trail'
  <2> SUFFICES ASSUME TypeOK, Control, Trail, [Next]_vars PROVE Trail'
    OBVIOUS
  <2>t. /\ planLen \in Nat /\ idx \in Nat /\ node \in Places /\ metrics \in Seq(LogTypes)
        /\ outcome \in {"none", "report", "error"}
    BY DEF TypeOK
  <2>a. ASSUME NEW x PROVE Append(metrics, x) = metrics \o <<x>>
    BY <2>t
  <2>b. metrics = metrics \o <<>>
    BY <2>t
  <2>1. CASE Start
    <3>1. node = <<"main", "call">> /\ Reported = 2 /\ planLen' = planLen
      BY <2>1 DEF Start, Reported
    <3>2. /\ FullTrail[Reported + 1] = <<"main", "start">> /\ metrics = Cut(2)
          /\ 2 \in 0..Len(FullTrail) - 1 /\ 3 \in 0..Len(FullTrail) - 1 /\ outcome = "none"
      <4>1. Reported + 1 = 3
        BY <3>1
      <4>2. node \notin Stopped
        BY <3>1 DEF Stopped
      <4> QED
        BY <2>t, <3>1, <4>1, <4>2, TrailFacts, ReportedInRange
    <3>3. Append(metrics, <<"main", "start">>) = Cut(3)
      <4>1. Append(Cut(2), FullTrail[2 + 1]) = Cut(2 + 1)
        BY <2>t, <3>2, CutFacts
      <4> QED
        BY <3>1, <3>2, <4>1
    <3>4. CASE Goto("main", "returned") /\ outcome' = "error"
      <4>1. \E failure \in Failures(3)' : metrics' = Cut(3) \o failure
        <5>1. CASE planLen = 0
          <6>1. cause' = "empty" /\ metrics' = metrics \o <<<<"main", "start">>, <<"main", "error">>>>
            BY <2>1, <5>1 DEF Start, Refuse
          <6>2. metrics' = Append(metrics, <<"main", "start">>) \o <<<<"main", "error">>>>
            <7>1. <<"main", "start">> \in LogTypes /\ <<"main", "error">> \in LogTypes
              BY DEF LogTypes
            <7>2. \A x, y \in LogTypes : metrics \o <<x, y>> = Append(metrics, x) \o <<y>>
              BY <2>t
            <7> QED
              BY <6>1, <7>1, <7>2
          <6>3. <<>> \in NodeErrors(3)'
            BY <6>1 DEF NodeErrors
          <6>4. <<<<"main", "error">>>> = <<>> \o <<<<"main", "error">>>>
            OBVIOUS
          <6>5. <<<<"main", "error">>>> \in Failures(3)'
            <7>1. Failures(3)' = {e \o <<<<"main", "error">>>> : e \in NodeErrors(3)'}
              <8>1. ~(3 < 3) /\ cause' # "setup"
                BY <6>1
              <8> QED
                BY <8>1 DEF Failures
            <7> QED
              BY <6>3, <6>4, <7>1
          <6> QED
            BY <3>3, <6>2, <6>5
        <5>2. CASE planLen # 0
          <6>1. cause' = "setup" /\ metrics' = Append(metrics, <<"main", "start">>)
            BY <2>1, <3>2, <3>4, <5>2 DEF Start, Refuse, Report
          <6>2. <<>> \in NodeErrors(3)'
            BY <6>1 DEF NodeErrors
          <6>3. <<>> \in Failures(3)'
            BY <6>1, <6>2 DEF Failures
          <6>4. metrics' = metrics' \o <<>>
            BY <2>t, <3>2, <3>3, <6>1, CutFacts
          <6> QED
            BY <3>3, <6>1, <6>3, <6>4
        <5> QED
          BY <5>1, <5>2
      <4>2. FullTrail' = FullTrail /\ \A k : Cut(k)' = Cut(k)
        BY <3>1, TrailStays
      <4>3. \E failure \in Failures(3)' : metrics' = SubSeq(FullTrail', 1, 3) \o failure
        BY <4>1, <4>2 DEF Cut
      <4>4. \E k \in 0..Len(FullTrail') - 1 : \E failure \in Failures(k)' :
              metrics' = SubSeq(FullTrail', 1, k) \o failure
        BY <3>2, <4>2, <4>3
      <4> QED
        BY <3>4, <4>4 DEF Goto, Trail, Stopped, TrailTruthful
    <3>5. CASE Goto("main", "is-last") /\ outcome' = outcome
      <4>1. /\ metrics' = Append(metrics, FullTrail[Reported + 1])
            /\ node' = <<"main", "is-last">> /\ idx' = idx
        <5>1. planLen # 0
          BY <2>1, <3>2, <3>5 DEF Start, Refuse
        <5> QED
          BY <2>1, <3>2, <3>5, <5>1 DEF Start, Report, Goto
      <4>2. idx = 0
        BY <3>1 DEF Control
      <4>3. Reported' = Reported + 1
        BY <3>1, <4>1, <4>2 DEF Reported
      <4> QED
        BY <3>1, <3>5, <4>1, <4>3, TrailGrows DEF Stopped
    <3> QED
      BY <2>1, <3>4, <3>5 DEF Start, Refuse
  <2>2. CASE IsLast
    <3>1. node = <<"main", "is-last">> /\ planLen' = planLen /\ outcome' = outcome /\ idx' = idx
      BY <2>2 DEF IsLast, Superstep
    <3>2. idx \in 0 .. planLen - 1 /\ Reported = 3 + 4 * idx
      BY <2>t, <3>1 DEF Control, Reported
    <3>3. metrics' = Append(metrics, FullTrail[Reported + 1])
      <4>1. Reported + 1 = 4 + 4 * idx
        BY <2>t, <3>2
      <4> QED
        BY <2>2, <2>t, <3>2, <4>1, TrailFacts DEF IsLast, Report
    <3>4. PICK chain \in {"normal", "final"} : node' = <<chain, "prepare">>
      BY <2>2 DEF IsLast, Goto
    <3>5. Reported' = Reported + 1
      BY <2>t, <3>1, <3>2, <3>4 DEF Reported
    <3> QED
      BY <3>1, <3>3, <3>4, <3>5, TrailGrows DEF Stopped
  <2>3. CASE NormalPrepare \/ FinalPrepare
    <3>1. PICK chain \in {"normal", "final"} : Prepare(chain)
      BY <2>3 DEF NormalPrepare, FinalPrepare
    <3>2. /\ node = <<chain, "prepare">> /\ planLen' = planLen /\ outcome' = outcome /\ idx' = idx
          /\ idx \in 0 .. planLen - 1 /\ chain = ChainOf(idx)
      BY <2>t, <3>1 DEF Prepare, Superstep, Control, ChainOf
    <3>3. Reported = 4 + 4 * idx
      BY <3>2 DEF Reported
    <3>4. metrics' = Append(metrics, FullTrail[Reported + 1])
      <4>1. Reported + 1 = 5 + 4 * idx
        BY <2>t, <3>3
      <4> QED
        BY <2>t, <3>1, <3>2, <4>1, TrailFacts DEF Prepare, Report
    <3>5. node' = <<chain, "template">>
      BY <2>t, <3>1, <3>2 DEF Prepare, Goto
    <3>6. Reported' = Reported + 1
      BY <2>t, <3>2, <3>3, <3>5 DEF Reported
    <3> QED
      BY <3>2, <3>4, <3>5, <3>6, TrailGrows DEF Stopped
  <2>4. CASE \E chain \in {"normal", "final"} : Template(chain)
    <3>1. PICK chain \in {"normal", "final"} : Template(chain)
      BY <2>4
    <3>2. /\ node = <<chain, "template">> /\ node' = <<chain, "react">>
          /\ planLen' = planLen /\ outcome' = outcome /\ idx' = idx /\ metrics' = metrics
      BY <3>1 DEF Template, Superstep, Goto
    <3>3. Reported' = Reported
      BY <3>2 DEF Reported
    <3> QED
      BY <3>2, <3>3, TrailWaits DEF Stopped
  <2>5. CASE (\E chain \in Chains : React(chain)) \/ Working \/ Over \/ UNCHANGED vars
    <3>1. UNCHANGED <<planLen, node, idx, metrics, cause, outcome>>
      BY <2>5 DEF React, Working, Over, vars
    <3>2. FullTrail' = FullTrail /\ Reported' = Reported
      BY <3>1, TrailStays DEF Reported
    <3>3. \A k : Cut(k)' = Cut(k) /\ NodeErrors(k)' = NodeErrors(k) /\ Failures(k)' = Failures(k)
      BY <3>1, TrailStays DEF Failures
    <3>4. TrailTruthful'
      BY <3>1, <3>2, <3>3 DEF Trail, TrailTruthful
    <3>5. Cut(Reported)' = Cut(Reported)
      BY <3>2 DEF Cut
    <3> QED
      BY <3>1, <3>2, <3>3, <3>4, <3>5 DEF Trail, Stopped
  <2>6. CASE ExecutorReacted \/ PlannerReacted
    <3>1. PICK chain \in Chains : Reacted(chain)
      BY <2>6 DEF ExecutorReacted, PlannerReacted, Chains
    <3>2. node = <<chain, "react">> /\ planLen' = planLen /\ outcome' = outcome /\ idx' = idx
      BY <3>1 DEF Reacted
    <3>3. CASE agent = "answered"
      <4>1. metrics' = Append(metrics, <<chain, "react_output">>) /\ node' = <<chain, "parse">>
        BY <3>1, <3>3 DEF Reacted, Report, Goto
      <4>2. CASE chain = "plan"
        <5>1. Reported = 0 /\ Reported' = 1
          BY <3>2, <4>1, <4>2 DEF Reported
        <5>2. metrics' = Append(metrics, FullTrail[Reported + 1])
          <6>1. Reported + 1 = 1
            BY <5>1
          <6>2. FullTrail[Reported + 1] = <<"plan", "react_output">>
            BY <2>t, <6>1, TrailFacts
          <6> QED
            BY <4>1, <4>2, <6>2
        <5>3. node = <<"plan", "react">> /\ node' = <<"plan", "parse">>
          BY <3>2, <4>1, <4>2
        <5>4. node \notin Stopped /\ node' \notin Stopped /\ node'[2] \in {"react", "parse"}
          BY <5>3 DEF Stopped
        <5>5. Reported' = Reported + 1
          BY <5>1
        <5> QED
          BY <3>2, <5>2, <5>4, <5>5, TrailGrows, Zenon
      <4>3. CASE chain # "plan"
        <5>1. /\ chain \in {"normal", "final"} /\ idx \in 0 .. planLen - 1 /\ chain = ChainOf(idx)
              /\ Reported = 5 + 4 * idx
          BY <2>t, <3>2, <4>3 DEF Chains, Control, ChainOf, Reported
        <5>2. Reported + 1 = 6 + 4 * idx
          BY <2>t, <5>1
        <5>3. metrics' = Append(metrics, FullTrail[Reported + 1])
          BY <2>t, <4>1, <5>1, <5>2, TrailFacts
        <5>4. Reported' = Reported + 1
          BY <2>t, <3>2, <4>1, <5>1, <5>2 DEF Reported
        <5> QED
          BY <3>2, <4>1, <5>1, <5>3, <5>4, TrailGrows DEF Stopped
      <4> QED
        BY <4>2, <4>3
    <3>4. CASE agent # "answered"
      <4>1. /\ metrics' = Append(metrics, ReactError(chain))
            /\ node' = <<"main", "failed">> /\ cause' = "agent"
        BY <3>1, <3>4 DEF Reacted, Report, Goto, Fail
      <4>2. node \notin Stopped
        BY <3>2 DEF Stopped, Chains
      <4>3. PICK k \in Nat : k = Reported
        BY <4>2, ReportedInRange
      <4>4. <<ReactError(chain)>> \in NodeErrors(k)'
        <5>1. CASE chain = "plan"
          <6>1. k = 0
            BY <3>2, <4>3, <5>1 DEF Reported
          <6> QED
            BY <4>1, <5>1, <6>1 DEF ReactError, NodeErrors
        <5>2. CASE chain # "plan"
          <6>1. /\ chain \in {"normal", "final"} /\ idx \in 0 .. planLen - 1 /\ chain = ChainOf(idx)
                /\ k = 5 + 4 * idx
            BY <2>t, <3>2, <4>3, <5>2 DEF Chains, Control, ChainOf, Reported
          <6>2. FullTrail'[k] = <<chain, "prepare">>
            BY <2>t, <3>2, <6>1, TrailFacts, TrailStays
          <6>3. k >= 3 /\ k # 0
            BY <2>t, <6>1
          <6>4. NodeErrors(k)' = {<<<<chain, "react_error">>>>}
            BY <4>1, <6>2, <6>3 DEF NodeErrors
          <6> QED
            BY <5>2, <6>4 DEF ReactError
        <5> QED
          BY <5>1, <5>2
      <4> QED
        BY <2>a, <3>2, <4>1, <4>2, <4>3, <4>4, TrailBreaks
    <3> QED
      BY <3>3, <3>4
  <2>7. CASE PlanParse
    <3>1. node = <<"plan", "parse">> /\ planLen' = planLen /\ outcome' = outcome /\ idx' = idx /\ Reported = 1
      BY <2>7 DEF PlanParse, Reported
    <3>2. CASE Report(<<"plan", "parsed">>) /\ Goto("main", "call")
      <4>1. /\ metrics' = Append(metrics, FullTrail[Reported + 1]) /\ node' = <<"main", "call">>
            /\ Reported' = Reported + 1
        <5>1. Reported + 1 = 2
          BY <3>1
        <5>2. FullTrail[Reported + 1] = <<"plan", "parsed">>
          BY <2>t, <5>1, TrailFacts
        <5> QED
          BY <3>2, <5>1, <5>2 DEF Report, Goto, Reported
      <4> QED
        BY <3>1, <4>1, TrailGrows DEF Stopped
    <3>3. CASE Report(<<"plan", "error">>) /\ Fail("parse")
      <4>1. metrics' = metrics \o <<<<"plan", "error">>>> /\ node' = <<"main", "failed">> /\ cause' = "parse"
        BY <2>a, <3>3 DEF Report, Fail, Goto
      <4>2. <<<<"plan", "error">>>> \in NodeErrors(1)'
        BY <4>1 DEF NodeErrors
      <4> QED
        BY <3>1, <4>1, <4>2, TrailBreaks DEF Stopped
    <3>4. CASE Panic
      <4>1. cause' = "panic" => <<>> \in NodeErrors(1)'
        BY DEF NodeErrors
      <4> QED
        BY <3>1, <3>4, <4>1, TrailPanics DEF Stopped
    <3> QED
      BY <2>7, <3>2, <3>3, <3>4 DEF PlanParse
  <2>8. CASE NormalParse
    <3>1. /\ node = <<"normal", "parse">> /\ planLen' = planLen /\ outcome' = outcome
          /\ idx \in 0 .. planLen - 1 /\ ChainOf(idx) = "normal" /\ Reported = 6 + 4 * idx
      BY <2>8, <2>t DEF NormalParse, Superstep, Control, ChainOf, Reported
    <3>e. FullTrail'[6 + 4 * idx] = <<"normal", "react_output">> /\ 6 + 4 * idx \in Nat /\ 6 + 4 * idx >= 3
      BY <2>t, <3>1, TrailFacts, TrailStays
    <3>k. PICK k \in Nat : k = Reported /\ FullTrail'[k] = <<"normal", "react_output">> /\ k >= 3 /\ k # 1
      BY <2>t, <3>1, <3>e
    <3>2. CASE Report(<<"normal", "parse_error">>) /\ Fail("parse")
      <4>1. /\ metrics' = metrics \o <<<<"normal", "parse_error">>>>
            /\ node' = <<"main", "failed">> /\ cause' = "parse"
        BY <2>a, <3>2 DEF Report, Fail, Goto
      <4>2. NodeErrors(k)' = {<<<<"normal", "parse_error">>>>}
        BY <3>k, <4>1 DEF NodeErrors
      <4> QED
        BY <3>1, <3>k, <4>1, <4>2, TrailBreaks DEF Stopped
    <3>4. CASE Panic
      <4>1. cause' = "panic" => <<>> \in NodeErrors(k)'
        BY <3>k DEF NodeErrors
      <4> QED
        BY <3>1, <3>4, <3>k, <4>1, TrailPanics DEF Stopped
    <3>3. CASE Report(<<"normal", "parsed">>) /\ idx' = idx + 1 /\ Goto("main", "is-last")
      <4>1. Reported + 1 = 7 + 4 * idx
        BY <2>t, <3>1
      <4>2. metrics' = Append(metrics, FullTrail[Reported + 1]) /\ node' = <<"main", "is-last">>
        BY <2>t, <3>1, <3>3, <4>1, TrailFacts DEF Report, Goto
      <4>3. Reported' = Reported + 1
        BY <2>t, <3>1, <3>3, <4>1, <4>2 DEF Reported
      <4> QED
        BY <3>1, <4>2, <4>3, TrailGrows DEF Stopped
    <3> QED
      BY <2>8, <3>2, <3>3, <3>4 DEF NormalParse
  <2>9. CASE FinalParse
    <3>1. /\ node = <<"final", "parse">> /\ planLen' = planLen /\ outcome' = outcome /\ idx' = idx
          /\ idx + 1 = planLen /\ idx \in 0 .. planLen - 1 /\ ChainOf(idx) = "final"
          /\ Reported = 6 + 4 * idx /\ node' = <<"main", "end">>
      BY <2>9, <2>t DEF FinalParse, Superstep, Control, ChainOf, Reported, Goto
    <3>2. Reported + 1 = 7 + 4 * idx
      BY <2>t, <3>1
    <3>3. metrics' = Append(metrics, FullTrail[Reported + 1])
      BY <2>9, <2>t, <3>1, <3>2, TrailFacts DEF FinalParse, Report
    <3>4. Reported' = Reported + 1
      <4>1. Reported' = 3 + 4 * planLen
        BY <3>1 DEF Reported
      <4> QED
        BY <2>t, <3>1, <4>1
    <3> QED
      BY <3>1, <3>3, <3>4, TrailGrows DEF Stopped
  <2>10. CASE ExceedMaxSteps
    <3>1. /\ node[1] # "plan" /\ node[2] \notin {"call", "end", "failed", "returned", "crashed"}
          /\ node' = <<"main", "failed">> /\ cause' = "maxSteps"
          /\ planLen' = planLen /\ outcome' = outcome /\ metrics' = metrics
      BY <2>10 DEF ExceedMaxSteps, Fail, Goto
    <3>2. Reported >= 3 /\ Reported \in Nat /\ node \notin Stopped
      BY <2>t, <3>1, SMTT(30) DEF Reported, Places, Chains, Stopped
    <3>3. PICK k \in Nat : k = Reported /\ k >= 3
      BY <3>2
    <3>4. <<>> \in NodeErrors(k)'
      BY <3>1, <3>3 DEF NodeErrors
    <3> QED
      BY <2>b, <3>1, <3>2, <3>3, <3>4, TrailBreaks
  <2>11. CASE Finish
    <3>1. node' = <<"main", "returned">> /\ planLen' = planLen /\ cause' = cause
      BY <2>11 DEF Finish, Goto
    <3>2. FullTrail' = FullTrail /\ \A k : Cut(k)' = Cut(k) /\ Failures(k)' = Failures(k)
      BY <3>1, TrailStays DEF Failures
    <3>3. CASE node = <<"main", "end">>
      <4>1. Reported = 3 + 4 * planLen /\ Reported + 1 = Len(FullTrail)
        BY <2>t, <3>3, TrailFacts DEF Reported
      <4>2. metrics' = Append(metrics, FullTrail[Reported + 1]) /\ outcome' = "report"
        <5>1. Reported + 1 = 4 + 4 * planLen
          BY <2>t, <4>1
        <5> QED
          BY <2>11, <2>t, <3>3, <5>1, TrailFacts DEF Finish, Report
      <4>3. metrics' = FullTrail
        BY <2>t, <3>3, <4>1, <4>2, ReportedInRange, CutFacts DEF Stopped
      <4> QED
        BY <3>1, <3>2, <4>2, <4>3 DEF Trail, Stopped, TrailTruthful
    <3>4. CASE node = <<"main", "failed">>
      <4>1. PICK k \in 0..Len(FullTrail) - 1 : \E e \in NodeErrors(k) : metrics = Cut(k) \o e
        BY <3>4 DEF Trail
      <4>2. PICK e \in NodeErrors(k) : metrics = Cut(k) \o e
        BY <4>1
      <4>3. <<"main", "start">> \in Range(metrics) <=> k >= 3
        BY <2>t, <4>2, StartReported
      <4>4. k \in Nat /\ e \in Seq(LogTypes) /\ Cut(k) \in Seq(LogTypes)
        BY <2>t, StartReported, TrailFacts, CutFacts
      <4>5. outcome' = "error"
        BY <2>11, <3>4 DEF Finish
      <4>6. \E failure \in Failures(k) : metrics' = Cut(k) \o failure
        <5>1. CASE k >= 3
          <6>1. metrics' = Append(Cut(k) \o e, <<"main", "error">>)
            BY <2>11, <3>4, <4>2, <4>3, <5>1 DEF Finish, Report
          <6>2. metrics' = Cut(k) \o (e \o <<<<"main", "error">>>>)
            <7> DEFINE c == Cut(k)
                      last == <<<<"main", "error">>>>
            <7>1. c \in Seq(LogTypes) /\ e \in Seq(LogTypes) /\ last \in Seq(LogTypes)
              BY <4>4 DEF LogTypes
            <7>2. metrics' = (c \o e) \o last
              <8> DEFINE so == c \o e
              <8>1. so \in Seq(LogTypes) /\ <<"main", "error">> \in LogTypes
                <9>1. so \in Seq(LogTypes)
                  BY <2>t, StartReported
                <9> QED
                  BY <9>1 DEF LogTypes
              <8>2. metrics' = Append(so, <<"main", "error">>)
                BY <6>1
              <8> HIDE DEF so
              <8>3. Append(so, <<"main", "error">>) = so \o last
                BY <8>1
              <8> QED
                BY <8>2, <8>3 DEF so
            <7> HIDE DEF c, last
            <7>3. (c \o e) \o last = c \o (e \o last)
              BY <7>1
            <7> QED
              BY <7>2, <7>3 DEF c, last
          <6>3. e \o <<<<"main", "error">>>> \in Failures(k)
            <7>1. Failures(k) = {f \o <<<<"main", "error">>>> : f \in NodeErrors(k)}
              <8>1. ~(k < 3) /\ cause # "setup"
                BY <3>4, <4>4, <5>1 DEF Trail
              <8> QED
                BY <8>1 DEF Failures
            <7> QED
              BY <4>2, <7>1
          <6> QED
            BY <6>2, <6>3
        <5>2. CASE k < 3
          <6>1. metrics' = metrics
            BY <2>11, <3>4, <4>3, <4>4, <5>2 DEF Finish
          <6>2. e \in Failures(k)
            BY <5>2 DEF Failures
          <6> QED
            BY <4>2, <6>1, <6>2
        <5> QED
          BY <4>4, <5>1, <5>2, SMTT(30)
      <4>7. \E m \in 0..Len(FullTrail') - 1 : \E failure \in Failures(m)' :
              metrics' = SubSeq(FullTrail', 1, m) \o failure
        <5>1. \E failure \in Failures(k)' : metrics' = SubSeq(FullTrail', 1, k) \o failure
          BY <3>2, <4>6 DEF Cut
        <5>2. k \in 0..Len(FullTrail') - 1
          BY <3>2
        <5> QED
          BY <5>1, <5>2
      <4> QED
        BY <3>1, <4>5, <4>7 DEF Trail, Stopped, TrailTruthful
    <3> QED
      BY <2>11, <3>3, <3>4 DEF Finish
  <2> QED
    BY <2>1, <2>2, <2>3, <2>4, <2>5, <2>6, <2>7, <2>8, <2>9, <2>10, <2>11 DEF Next
<1> QED
  BY <1>1, <1>2, ControlInductive, PTL DEF Spec

-----------------------------------------------------------------------------
\* What was reported of the executor's agent runs.
AgentLog == {"normal", "final"} \X {"react_output", "react_error"}
Runs(log) == {i \in DOMAIN log : log[i] \in AgentLog}

\* One more report is one more run, or none.
LEMMA RunsGrow ==
    ASSUME metrics \in Seq(LogTypes), NEW x \in LogTypes, metrics' = Append(metrics, x)
    PROVE  /\ IsFiniteSet(Runs(metrics)) /\ Cardinality(Runs(metrics)) \in Nat
           /\ x \notin AgentLog => Cardinality(Runs(metrics')) = Cardinality(Runs(metrics))
           /\ x \in AgentLog => Cardinality(Runs(metrics')) = Cardinality(Runs(metrics)) + 1
<1>1. Len(metrics) \in Nat /\ DOMAIN metrics = 1..Len(metrics)
  OBVIOUS
<1>2. IsFiniteSet(1..Len(metrics)) /\ Runs(metrics) \subseteq 1..Len(metrics)
  BY <1>1, FS_Interval DEF Runs
<1>3. IsFiniteSet(Runs(metrics))
  BY <1>2, FS_Subset
<1>4. Cardinality(Runs(metrics)) \in Nat
  BY <1>3, FS_CardinalityType
<1>5. /\ DOMAIN metrics' = 1..Len(metrics) + 1 /\ metrics'[Len(metrics) + 1] = x
      /\ \A i \in 1..Len(metrics) : metrics'[i] = metrics[i]
  OBVIOUS
<1>6. x \notin AgentLog => Runs(metrics') = Runs(metrics)
  BY <1>1, <1>5 DEF Runs
<1>7. /\ x \in AgentLog => Runs(metrics') = Runs(metrics) \cup {Len(metrics) + 1}
      /\ Len(metrics) + 1 \notin Runs(metrics)
  BY <1>1, <1>2, <1>5 DEF Runs
<1>8. Cardinality(Runs(metrics) \cup {Len(metrics) + 1}) = Cardinality(Runs(metrics)) + 1
  BY <1>3, <1>7, FS_AddElement
<1> QED
  BY <1>3, <1>4, <1>6, <1>7, <1>8

\* There is a record of each, also of one that failed.
Recorded == Len(records) = Cardinality(Runs(metrics))

LEMMA RecordedInductive == Spec => []Recorded
<1>1. Init => Recorded
  <2> SUFFICES ASSUME Init PROVE Recorded
    OBVIOUS
  <2>1. records = <<>> /\ Runs(metrics) = {}
    BY DEF Init, Runs
  <2> QED
    BY <2>1, FS_EmptySet DEF Recorded
<1>2. TypeOK /\ Recorded /\ [Next]_vars => Recorded'
  <2> SUFFICES ASSUME TypeOK, Recorded, [Next]_vars PROVE Recorded'
    OBVIOUS
  <2>t. /\ metrics \in Seq(LogTypes) /\ records \in Seq(Record)
        /\ Len(records) = Cardinality(Runs(metrics))
    BY DEF TypeOK, Recorded
  <2>s. ASSUME UNCHANGED records, UNCHANGED metrics PROVE Recorded'
    BY <2>t, <2>s DEF Recorded
  <2>r. ASSUME UNCHANGED records, NEW x \in LogTypes \ AgentLog, metrics' = Append(metrics, x)
        PROVE  Recorded'
    BY <2>t, <2>r, RunsGrow DEF Recorded
  <2>1. CASE Start
    <3>1. /\ <<"main", "start">> \in LogTypes \ AgentLog /\ <<"main", "error">> \in LogTypes \ AgentLog
          /\ UNCHANGED records
      BY <2>1 DEF Start, LogTypes, AgentLog
    <3>2. CASE planLen # 0
      <4>1. planLen > 0 /\ metrics' = Append(metrics, <<"main", "start">>)
        BY <2>1, <3>2 DEF Start, Report
      <4> QED
        BY <2>r, <3>1, <4>1
    <3>3. CASE planLen = 0
      <4>1. metrics' = metrics \o <<<<"main", "start">>, <<"main", "error">>>>
        BY <2>1, <3>3 DEF Start
      <4>2. Runs(metrics') = Runs(metrics)
        <5>1. /\ DOMAIN metrics' = 1..Len(metrics) + 2 /\ DOMAIN metrics = 1..Len(metrics)
              /\ metrics'[Len(metrics) + 1] = <<"main", "start">>
              /\ metrics'[Len(metrics) + 2] = <<"main", "error">>
              /\ \A i \in 1..Len(metrics) : metrics'[i] = metrics[i]
          BY <2>t, <4>1
        <5>2. \A i \in 1..Len(metrics) + 2 :
                 i \in 1..Len(metrics) \/ i = Len(metrics) + 1 \/ i = Len(metrics) + 2
          BY <2>t
        <5>3. \A i \in DOMAIN metrics' : metrics'[i] \in AgentLog => i \in DOMAIN metrics
          BY <3>1, <5>1, <5>2
        <5>4. \A i \in DOMAIN metrics : i \in DOMAIN metrics' /\ metrics'[i] = metrics[i]
          BY <2>t, <5>1
        <5> QED
          BY <5>3, <5>4 DEF Runs
      <4> QED
        BY <2>t, <3>1, <4>2 DEF Recorded
    <3> QED
      BY <3>2, <3>3
  <2>2. CASE /\ IsLast \/ PlanParse \/ NormalParse \/ FinalParse \/ NormalPrepare \/ FinalPrepare
             /\ ~UNCHANGED metrics
    <3>1. UNCHANGED records
      BY <2>2 DEF IsLast, PlanParse, NormalParse, FinalParse, NormalPrepare, FinalPrepare, Prepare
    <3>2. \E x \in Chains \cup {"main"} : \E what \in {"loop_check", "prepare", "parsed", "parse_error", "error", "output"} :
             metrics' = Append(metrics, <<x, what>>)
      BY <2>2 DEF IsLast, PlanParse, NormalParse, FinalParse, NormalPrepare, FinalPrepare, Prepare,
                  Panic, Report, Chains
    <3>3. PICK x \in LogTypes \ AgentLog : metrics' = Append(metrics, x)
      BY <3>2 DEF LogTypes, AgentLog
    <3> QED
      BY <2>r, <3>1, <3>3
  <2>p. CASE (PlanParse \/ NormalParse) /\ UNCHANGED metrics
    BY <2>p, <2>s DEF PlanParse, NormalParse
  <2>g. ASSUME IsLast \/ FinalParse \/ NormalPrepare \/ FinalPrepare PROVE ~UNCHANGED metrics
    <3>1. \A x : Len(Append(metrics, x)) # Len(metrics)
      BY <2>t
    <3>2. \E x : metrics' = Append(metrics, x)
      BY <2>g DEF IsLast, FinalParse, NormalPrepare, FinalPrepare, Prepare, Report
    <3> QED
      BY <3>1, <3>2
  <2>3. CASE \/ Working \/ ExceedMaxSteps \/ Over \/ UNCHANGED vars
             \/ \E chain \in {"normal", "final"} : Template(chain)
             \/ \E chain \in Chains : React(chain)
    BY <2>3, <2>s DEF Working, ExceedMaxSteps, Over, vars, Template, React
  <2>4. CASE PlannerReacted
    <3>1. UNCHANGED records
      BY <2>4 DEF PlannerReacted, Reacted
    <3>2. PICK x \in {<<"plan", "react_output">>, <<"plan", "error">>} : metrics' = Append(metrics, x)
      BY <2>4 DEF PlannerReacted, Reacted, Report, ReactError
    <3>3. x \in LogTypes \ AgentLog
      BY DEF LogTypes, AgentLog, Chains
    <3> QED
      BY <2>r, <3>1, <3>2, <3>3
  <2>5. CASE ExecutorReacted
    <3>1. PICK chain \in {"normal", "final"} : Reacted(chain)
      BY <2>5 DEF ExecutorReacted
    <3>2. records' = Append(records, [step |-> step, starts |-> starts])
      BY <3>1 DEF Reacted
    <3>3. Len(records') = Len(records) + 1
      BY <2>t, <3>2
    <3>4. PICK x \in AgentLog : metrics' = Append(metrics, x)
      BY <3>1 DEF Reacted, Report, ReactError, AgentLog
    <3>5. x \in LogTypes
      BY DEF LogTypes, AgentLog, Chains
    <3> QED
      BY <2>t, <3>3, <3>4, <3>5, RunsGrow DEF Recorded
  <2>6. CASE Finish
    <3>1. UNCHANGED records
      BY <2>6 DEF Finish
    <3>2. CASE UNCHANGED metrics
      BY <2>s, <3>1, <3>2
    <3>3. CASE \E x \in {<<"main", "end">>, <<"main", "error">>} : metrics' = Append(metrics, x)
      <4>1. PICK x \in {<<"main", "end">>, <<"main", "error">>} : metrics' = Append(metrics, x)
        BY <3>3
      <4>2. x \in LogTypes \ AgentLog
        BY DEF LogTypes, AgentLog
      <4> QED
        BY <2>r, <3>1, <4>1, <4>2
    <3> QED
      BY <2>6, <3>2, <3>3 DEF Finish, Report
  <2> QED
    BY <2>1, <2>2, <2>p, <2>g, <2>3, <2>4, <2>5, <2>6 DEF Next
<1> QED
  BY <1>1, <1>2, TypeCorrect, PTL DEF Spec

\* What the orchestrator reports and records of a run is true: the trail of
\* its reports, a record for each agent run in it, and the counts in these.
THEOREM MetricsCorrect == Spec => []MetricsTruthful
<1>1. Trail /\ CountsTruthful /\ Recorded => MetricsTruthful
  BY DEF Trail, Recorded, MetricsTruthful, Runs, AgentLog
<1> QED
  BY <1>1, TrailInductive, RecordsCount, RecordedInductive, PTL
=============================================================================
