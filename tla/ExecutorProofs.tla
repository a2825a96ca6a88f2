--------------------------- MODULE ExecutorProofs ---------------------------
(***************************************************************************)
(* The safety properties of Executor, for plans of every length, every     *)
(* step limit and every sequence of answers.                               *)
(*                                                                         *)
(* Three inductive invariants carry them. Control fixes where the loop may *)
(* stand and how many supersteps it has taken there: five for each step    *)
(* done and the node's position in its chain. Collected relates the lists  *)
(* in the graph's state, the closure copies, the prompt and the result to  *)
(* the answers given. Announced gives the events emitted at each node.     *)
(***************************************************************************)
EXTENDS Executor, TLAPS

USE MaxPlanStepsAssumption, MaxRunStepsAssumption

-----------------------------------------------------------------------------
\* What emit builds is an event.
LEMMA EventTyped ==
    ASSUME NEW type \in EventTypes, NEW step \in Nat
    PROVE  Event(type, step) \in Events
BY DEF Event, Events

\* A list of steps with a step added is a list of steps.
LEMMA AppendTyped ==
    ASSUME NEW S, NEW s \in Seq(S), NEW x \in S
    PROVE  Append(s, x) \in Seq(S)
OBVIOUS

\* Every step keeps the types.
LEMMA TypeStep ==
    ASSUME TypeOK, [Next]_vars
    PROVE  TypeOK'
<1> USE DEF TypeOK, state, captured
<1>1. CASE Call
  BY <1>1 DEF Call, Places, GraphNodes, Errors, Refusals
<1>2. CASE ExceedMaxSteps
  BY <1>2 DEF ExceedMaxSteps, Abort, Places, Errors
<1>3. CASE IsLast
  BY <1>3 DEF IsLast, Superstep, Goto, Places, GraphNodes, NormalNodes, FinalNodes
<1>4. CASE NormalPrepare
  <2>1. events' = events \/ events' = Append(events, Event("step.started", idx + 1))
    BY <1>4 DEF NormalPrepare, Prepare
  <2>2. Event("step.started", idx + 1) \in Events
    BY EventTyped DEF EventTypes
  <2>3. events' \in Seq(Events)
    BY <2>1, <2>2, AppendTyped
  <2> QED
    BY <1>4, <2>3, SMTT(30) DEF NormalPrepare, Prepare, Superstep, Goto, Abort, Context, Places,
                      GraphNodes, NormalNodes, FinalNodes, Errors
<1>5. CASE NormalTemplate
  BY <1>5 DEF NormalTemplate, Superstep, Goto, Places, GraphNodes, NormalNodes
<1>6. CASE NormalReact
  <2>1. said' \in Seq(Reply)
    BY <1>6, AppendTyped DEF NormalReact
  <2> QED
    BY <1>6, <2>1 DEF NormalReact, Superstep, Goto, Abort, Places, GraphNodes, NormalNodes, Errors
<1>7. CASE NormalParse
  <2> DEFINE e(type) == Event(type, idx + 1)
  <2>a. e("step.error") \in Events /\ e("step.findings") \in Events
    BY EventTyped DEF EventTypes
  <2>b. \/ UNCHANGED events
        \/ \E type \in {"step.error", "step.findings"} : events' = Append(events, e(type))
    BY <1>7 DEF NormalParse, RejectAnswer, PanicAtAnswer, AcceptAnswer
  <2>1. events' \in Seq(Events)
    BY <2>a, <2>b, AppendTyped
  <2>c. /\ findings' = findings \/ findings' = Append(findings, idx + 1)
        /\ opLog' = opLog \/ opLog' = Append(opLog, idx + 1)
        /\ idx' = idx \/ idx' = idx + 1
    BY <1>7 DEF NormalParse, RejectAnswer, PanicAtAnswer, AcceptAnswer, Noted
  <2>d. idx + 1 \in Nat
    OBVIOUS
  <2>e. Append(findings, idx + 1) \in Seq(Nat) /\ Append(opLog, idx + 1) \in Seq(Nat)
    BY <2>d, AppendTyped
  <2>2. findings' \in Seq(Nat) /\ opLog' \in Seq(Nat) /\ idx' \in Nat
    BY <2>c, <2>d, <2>e
  <2>3. capturedFindings' \in Seq(Nat) /\ capturedOpLog' \in Seq(Nat)
    BY <1>7, <2>2 DEF NormalParse, RejectAnswer, PanicAtAnswer
  <2>4. /\ node' \in {"failed", "crashed", "is-last"}
        /\ err' \in {err, "parse", "panic"}
    BY <1>7 DEF NormalParse, PanicAtAnswer, Abort, Goto
  <2> QED
    BY <1>7, <2>1, <2>2, <2>3, <2>4 DEF NormalParse, Superstep, Places, GraphNodes, Errors
<1>8. CASE FinalPrepare
  <2>1. events' = events \/ events' = Append(events, Event("step.started", idx + 1))
    BY <1>8 DEF FinalPrepare, Prepare
  <2>2. Event("step.started", idx + 1) \in Events
    BY EventTyped DEF EventTypes
  <2>3. events' \in Seq(Events)
    BY <2>1, <2>2, AppendTyped
  <2> QED
    BY <1>8, <2>3 DEF FinalPrepare, Prepare, Superstep, Goto, Abort, Context, Places,
                      GraphNodes, NormalNodes, FinalNodes, Errors
<1>9. CASE FinalTemplate
  BY <1>9 DEF FinalTemplate, Superstep, Goto, Places, GraphNodes, FinalNodes
<1>10. CASE FinalReact
  BY <1>10 DEF FinalReact, Superstep, Goto, Abort, Places, GraphNodes, FinalNodes, Errors
<1>11. CASE FinalParse
  BY <1>11 DEF FinalParse, Superstep, Goto, Places
<1>12. CASE ReturnError
  <2>1. events' \in Seq(Events)
    BY <1>12, EventTyped, AppendTyped DEF ReturnError, EventTypes
  <2> QED
    BY <1>12, <2>1 DEF ReturnError, Places
<1>13. CASE ReturnReport
  <2>1. events' \in Seq(Events)
    BY <1>13, EventTyped, AppendTyped DEF ReturnReport, EventTypes
  <2> QED
    BY <1>13, <2>1 DEF ReturnReport, Places, Context
<1>14. CASE Returned \/ UNCHANGED vars
  BY <1>14 DEF Returned, vars
<1> QED
  BY <1>1, <1>2, <1>3, <1>4, <1>5, <1>6, <1>7, <1>8, <1>9, <1>10, <1>11, <1>12,
     <1>13, <1>14 DEF Next

\* The variables always have their types (Executor.Run, executor.go:56-361).
THEOREM TypeCorrect == Spec => []TypeOK
<1>1. Init => TypeOK
  BY DEF Init, TypeOK, Places, GraphNodes, Context, NoContext
<1>2. TypeOK /\ [Next]_vars => TypeOK'
  BY TypeStep
<1> QED
  BY <1>1, <1>2, PTL DEF Spec

-----------------------------------------------------------------------------
\* The supersteps a chain has taken when it stands at a node.
Position(n) ==
    CASE n = "is-last" -> 0
      [] n \in {"normal-prepare", "final-prepare"} -> 1
      [] n \in {"normal-template", "final-template"} -> 2
      [] n \in {"normal-react", "final-react"} -> 3
      [] OTHER -> 4

\* Where the loop may stand, and the supersteps it has taken there.
Control ==
    /\ node = "called" => idx = 0 /\ ran = 0
    /\ idx <= planLen
    /\ node \in GraphNodes => idx < planLen /\ ran = 5 * idx + Position(node)
    /\ node \in NormalNodes => idx + 1 < planLen
    /\ node \in FinalNodes \cup {"end"} => idx + 1 = planLen
    /\ node = "end" => ran = 5 * planLen
    /\ node # "returned" => outcome = "none"
    /\ outcome = "report" => idx + 1 = planLen /\ ran = 5 * planLen
    /\ err # "range"
    /\ err = "maxSteps" => 5 * planLen > MaxRunSteps
    /\ node \notin {"failed", "returned"} \/ outcome = "report" => err = "none"
    /\ err \in Refusals => node = "returned" /\ idx = 0
    /\ node = "failed" \/ outcome = "error" => err # "none"

\* Every step of the graph keeps the control invariant.
LEMMA ControlStep ==
    ASSUME TypeOK, Control, [Next]_vars
    PROVE  Control'
<1> USE DEF TypeOK, Control, GraphNodes, NormalNodes, FinalNodes, state, Position
<1>1. CASE Call
  BY <1>1 DEF Call, Refusals
<1>2. CASE ExceedMaxSteps
  <2>1. Position(node) <= 4
    BY <1>2 DEF ExceedMaxSteps
  <2>2. 5 * planLen > MaxRunSteps
    BY <1>2, <2>1, SMTT(30) DEF ExceedMaxSteps
  <2> QED
    BY <1>2, <2>2 DEF ExceedMaxSteps, Abort, Refusals
<1>3. CASE IsLast
  <2>1. /\ node = "is-last" /\ ran' = ran + 1
        /\ node' = IF planLen - idx = 1 THEN "final-prepare" ELSE "normal-prepare"
        /\ UNCHANGED <<planLen, idx, err, outcome>>
    BY <1>3 DEF IsLast, Superstep, Goto
  <2> QED
    BY <2>1, SMTT(30)
<1>4. CASE NormalPrepare
  <2>1. idx < planLen /\ node = "normal-prepare" /\ outcome = "none" /\ err # "range"
    BY <1>4 DEF NormalPrepare, Superstep
  <2>2. /\ node' = "normal-template" /\ ran' = ran + 1
        /\ UNCHANGED <<planLen, idx, err, outcome>>
    BY <1>4, <2>1, SMTT(30) DEF NormalPrepare, Prepare, Superstep, Goto
  <2> QED
    BY <2>1, <2>2, SMTT(30)
<1>5. CASE NormalTemplate
  <2>1. /\ node = "normal-template" /\ node' = "normal-react" /\ ran' = ran + 1
        /\ UNCHANGED <<planLen, idx, err, outcome>>
    BY <1>5 DEF NormalTemplate, Superstep, Goto
  <2> QED
    BY <2>1, SMTT(30)
<1>6. CASE NormalReact
  <2>1. /\ node = "normal-react" /\ ran' = ran + 1
        /\ UNCHANGED <<planLen, idx, outcome>>
    BY <1>6 DEF NormalReact, Superstep
  <2>2. \/ node' = "failed" /\ err' = "agent"
        \/ node' = "normal-parse" /\ UNCHANGED err
    BY <1>6 DEF NormalReact, Goto, Abort
  <2> QED
    BY <2>1, <2>2, SMTT(30) DEF Refusals
<1>7. CASE NormalParse
  <2>1. /\ node = "normal-parse" /\ ran' = ran + 1
        /\ UNCHANGED <<planLen, outcome>>
    BY <1>7 DEF NormalParse, Superstep
  <2>2. \/ node' = "failed" /\ err' \in {"parse", "panic"} /\ UNCHANGED idx
        \/ node' = "crashed" /\ UNCHANGED <<idx, err>>
        \/ node' = "is-last" /\ idx' = idx + 1 /\ UNCHANGED err
    BY <1>7 DEF NormalParse, RejectAnswer, PanicAtAnswer, AcceptAnswer, Goto, Abort
  <2>3. idx + 1 < planLen /\ ran = 5 * idx + 4 /\ outcome = "none" /\ err = "none"
    BY <2>1
  <2>4. CASE node' \in {"failed", "crashed"}
    BY <2>1, <2>2, <2>3, <2>4 DEF Refusals
  <2>5. CASE node' = "is-last"
    <3>1. idx' < planLen' /\ ran' = 5 * idx'
      BY <2>1, <2>2, <2>3, <2>5
    <3> QED
      BY <2>1, <2>2, <2>3, <2>5, <3>1, SMTT(30)
  <2> QED
    BY <2>2, <2>4, <2>5
<1>8. CASE FinalPrepare
  <2>1. idx < planLen /\ node = "final-prepare" /\ outcome = "none" /\ err # "range"
    BY <1>8 DEF FinalPrepare, Superstep
  <2>2. /\ node' = "final-template" /\ ran' = ran + 1
        /\ UNCHANGED <<planLen, idx, err, outcome>>
    BY <1>8, <2>1, SMTT(30) DEF FinalPrepare, Prepare, Superstep, Goto
  <2> QED
    BY <2>1, <2>2, SMTT(30)
<1>9. CASE FinalTemplate
  <2>1. /\ node = "final-template" /\ node' = "final-react" /\ ran' = ran + 1
        /\ UNCHANGED <<planLen, idx, err, outcome>>
    BY <1>9 DEF FinalTemplate, Superstep, Goto
  <2> QED
    BY <2>1, SMTT(30)
<1>10. CASE FinalReact
  <2>1. /\ node = "final-react" /\ ran' = ran + 1
        /\ UNCHANGED <<planLen, idx, outcome>>
    BY <1>10 DEF FinalReact, Superstep
  <2>2. \/ node' = "failed" /\ err' = "agent"
        \/ node' = "final-parse" /\ UNCHANGED err
    BY <1>10 DEF FinalReact, Goto, Abort
  <2> QED
    BY <2>1, <2>2, SMTT(30) DEF Refusals
<1>11. CASE FinalParse
  <2>1. /\ node = "final-parse" /\ node' = "end" /\ ran' = ran + 1
        /\ UNCHANGED <<planLen, idx, err, outcome>>
    BY <1>11 DEF FinalParse, Superstep, Goto
  <2>2. ran' = 5 * planLen'
    BY <2>1, SMTT(30)
  <2> QED
    BY <2>1, <2>2
<1>12. CASE ReturnError
  BY <1>12 DEF ReturnError, Refusals
<1>13. CASE ReturnReport
  BY <1>13 DEF ReturnReport
<1>14. CASE Returned \/ UNCHANGED vars
  <2>1. UNCHANGED <<planLen, node, ran, idx, err, outcome>>
    BY <1>14 DEF Returned, vars
  <2> QED
    BY <2>1
<1> QED
  BY <1>1, <1>2, <1>3, <1>4, <1>5, <1>6, <1>7, <1>8, <1>9, <1>10, <1>11, <1>12,
     <1>13, <1>14 DEF Next

\* The loop always stands where it may.
LEMMA ControlInvariant == Spec => []Control
<1>1. Init => Control
  BY DEF Init, Control, GraphNodes, NormalNodes, FinalNodes, Refusals
<1>2. TypeOK /\ Control /\ [Next]_vars => Control'
  BY ControlStep
<1> QED
  BY <1>1, <1>2, TypeCorrect, PTL DEF Spec

\* The final chain runs the last step and no other, and no index is ever out
\* of range (executor.go:115, 162, 219, 269).
THEOREM LastStepRunsFinalChain == Spec => []LastStepIsFinal
<1>1. Control => LastStepIsFinal
  BY DEF Control, LastStepIsFinal
<1> QED
  BY <1>1, ControlInvariant, PTL

\* A plan is cut off by the step limit exactly if it does not fit it
\* (executor.go:322-323).
THEOREM BudgetIsFiveSuperstepsAStep == Spec => []StepBudget
<1>1. TypeOK /\ Control => StepBudget
  BY DEF TypeOK, Control, StepBudget
<1> QED
  BY <1>1, TypeCorrect, ControlInvariant, PTL

-----------------------------------------------------------------------------
\* The nodes at which the prompt of the current step has been formatted.
Prompted == {"normal-template", "normal-react", "normal-parse",
             "final-template", "final-react", "final-parse", "end"}

Collection == [findings |-> findings, opLog |-> opLog]

\* What the state, the closure copies, the prompt and the result hold.
Collected ==
    /\ capturedFindings = findings /\ capturedOpLog = opLog
    /\ Len(said) >= idx
    /\ node \in GraphNodes \cup {"called"} =>
         Len(said) = IF node = "normal-parse" THEN idx + 1 ELSE idx
    /\ Lists(findings, Wrote(idx, "findings"))
    /\ Lists(opLog, Wrote(idx, "actions"))
    /\ node \in Prompted => prompt = Collection
    /\ IF outcome = "report" THEN prompt = Collection /\ result = Collection
                             ELSE result = NoContext

\* An entry of a later step keeps a list in order.
LEMMA ListsAppend ==
    ASSUME NEW list \in Seq(Nat), NEW n \in Nat, NEW steps \in SUBSET (1..n),
           Lists(list, steps)
    PROVE  Lists(Append(list, n + 1), steps \cup {n + 1})
<1> DEFINE longer == Append(list, n + 1)
<1>1. /\ Len(longer) = Len(list) + 1
      /\ \A k \in 1..Len(list) : longer[k] = list[k]
      /\ longer[Len(list) + 1] = n + 1
  OBVIOUS
<1>2. \A k \in 1..Len(list) : list[k] \in 1..n
  BY DEF Lists
<1>3. {longer[k] : k \in 1..Len(longer)} = steps \cup {n + 1}
  <2>1. {list[k] : k \in 1..Len(list)} = steps
    BY DEF Lists
  <2>2. 1..Len(longer) = (1..Len(list)) \cup {Len(list) + 1}
    BY <1>1
  <2> QED
    BY <1>1, <2>1, <2>2
<1>4. \A j, k \in 1..Len(longer) : j < k => longer[j] < longer[k]
  <2> SUFFICES ASSUME NEW j \in 1..Len(longer), NEW k \in 1..Len(longer), j < k
               PROVE  longer[j] < longer[k]
    OBVIOUS
  <2>1. j \in 1..Len(list) /\ longer[j] = list[j]
    BY <1>1
  <2>2. CASE k \in 1..Len(list)
    BY <1>1, <2>1, <2>2 DEF Lists
  <2>3. CASE k = Len(list) + 1
    BY <1>1, <1>2, <2>1, <2>3
  <2> QED
    BY <1>1, <2>2, <2>3
<1> QED
  BY <1>3, <1>4 DEF Lists

\* The steps that wrote are among the steps asked about.
LEMMA WroteInRange ==
    ASSUME NEW n \in Nat, NEW field PROVE Wrote(n, field) \in SUBSET (1..n)
BY DEF Wrote

\* One step more: the list with the answer's entry noted is the list of the
\* steps that wrote, that step included.
LEMMA ListsNoted ==
    ASSUME NEW list \in Seq(Nat), NEW n \in Nat, NEW field,
           said \in Seq(Reply), Len(said) = n + 1, said[n + 1][field] \in BOOLEAN,
           Lists(list, Wrote(n, field))
    PROVE  Lists(Noted(list, n + 1, said[n + 1][field]), Wrote(n + 1, field))
<1>1. CASE said[n + 1][field]
  <2>1. Wrote(n + 1, field) = Wrote(n, field) \cup {n + 1}
    BY <1>1 DEF Wrote
  <2> QED
    BY <1>1, <2>1, ListsAppend, WroteInRange DEF Noted
<1>2. CASE ~said[n + 1][field]
  <2>1. Wrote(n + 1, field) = Wrote(n, field)
    BY <1>2 DEF Wrote
  <2> QED
    BY <1>2, <2>1 DEF Noted
<1> QED
  BY <1>1, <1>2

\* Every step of the graph keeps the invariant on what was collected.
LEMMA CollectedStep ==
    ASSUME TypeOK, Control, Collected, [Next]_vars
    PROVE  Collected'
<1> USE DEF state, captured, GraphNodes, NormalNodes, FinalNodes, Prompted
<1>a. ASSUME UNCHANGED <<findings, opLog, idx, said>>
      PROVE  /\ Lists(findings, Wrote(idx, "findings"))'
             /\ Lists(opLog, Wrote(idx, "actions"))'
  BY <1>a DEF Collected, Lists, Wrote
<1>b. ASSUME UNCHANGED <<findings, opLog, idx, said, captured, result>>,
             node' \in GraphNodes \cup {"called"} => node # "normal-parse" /\ node' # "normal-parse",
             node \in GraphNodes \cup {"called"} \/ node' \notin GraphNodes \cup {"called"},
             \/ node' \in Prompted => node \in Prompted /\ UNCHANGED prompt
             \/ prompt' = Collection,
             outcome # "report", outcome' # "report"
      PROVE  Collected'
  BY <1>a, <1>b DEF Collected, Collection, TypeOK
<1>1. CASE Call
  BY <1>1, <1>b DEF Call, Control
<1>2. CASE ExceedMaxSteps
  BY <1>2, <1>b DEF ExceedMaxSteps, Abort, Control
<1>3. CASE IsLast
  BY <1>3, <1>b DEF IsLast, Superstep, Goto, Control
<1>4. CASE NormalPrepare
  BY <1>4, <1>b DEF NormalPrepare, Prepare, Superstep, Goto, Abort, Control, Collection
<1>5. CASE NormalTemplate
  BY <1>5, <1>b DEF NormalTemplate, Superstep, Goto, Control
<1>6. CASE NormalReact
  <2>1. CASE Abort("agent") /\ UNCHANGED said
    BY <1>6, <2>1, <1>b DEF NormalReact, Superstep, Abort, Control
  <2>2. CASE Goto("normal-parse") /\ \E r \in Reply : said' = Append(said, r)
    <3>1. PICK r \in Reply : said' = Append(said, r)
      BY <2>2
    <3>2. /\ node = "normal-react" /\ node' = "normal-parse" /\ outcome = "none"
          /\ UNCHANGED <<findings, opLog, idx, captured, prompt, outcome, result>>
      BY <1>6, <2>2 DEF NormalReact, Superstep, Goto, Control
    <3>3. Len(said) = idx /\ Len(said') = idx + 1
      BY <3>1, <3>2 DEF Collected, TypeOK
    <3>4. /\ Wrote(idx, "findings")' = Wrote(idx, "findings")
          /\ Wrote(idx, "actions")' = Wrote(idx, "actions")
      <4>1. said \in Seq(Reply) /\ idx \in Nat /\ idx <= Len(said)
        BY <3>3 DEF TypeOK
      <4>2. ASSUME NEW field PROVE Wrote(idx, field)' = Wrote(idx, field)
        <5>1. Len(said') = Len(said) + 1 /\ \A i \in 1..Len(said) : said'[i] = said[i]
          BY <3>1, <4>1
        <5> QED
          BY <3>2, <4>1, <5>1 DEF Wrote
      <4> QED
        BY <4>2
    <3>5. /\ Lists(findings, Wrote(idx, "findings"))'
          /\ Lists(opLog, Wrote(idx, "actions"))'
      BY <3>2, <3>4 DEF Collected, Lists
    <3> QED
      BY <3>2, <3>3, <3>5 DEF Collected, Collection, TypeOK
  <2> QED
    BY <1>6, <2>1, <2>2 DEF NormalReact
<1>7. CASE NormalParse
  <2>1. /\ node = "normal-parse" /\ outcome = "none" /\ Len(said) = idx + 1
        /\ UNCHANGED <<said, outcome, result>>
    BY <1>7 DEF NormalParse, Superstep, Control, Collected
  <2>2. CASE Answer.text # "decodes"
    BY <1>7, <2>1, <2>2, <1>b DEF NormalParse, RejectAnswer, PanicAtAnswer, AcceptAnswer, Abort
  <2>3. CASE Answer.text = "decodes"
    <3>1. /\ node' = "is-last" /\ idx' = idx + 1
          /\ findings' = Noted(findings, idx + 1, said[idx + 1].findings)
          /\ opLog' = Noted(opLog, idx + 1, said[idx + 1].actions)
          /\ capturedFindings' = findings' /\ capturedOpLog' = opLog'
      BY <1>7, <2>1, <2>3 DEF NormalParse, RejectAnswer, PanicAtAnswer, AcceptAnswer, Goto, Answer
    <3>2. said[idx + 1] \in Reply
      BY <2>1 DEF TypeOK
    <3>3. /\ Lists(findings', Wrote(idx + 1, "findings"))
          /\ Lists(opLog', Wrote(idx + 1, "actions"))
      BY <2>1, <3>1, <3>2, ListsNoted DEF TypeOK, Collected, Reply
    <3>4. /\ Wrote(idx, "findings")' = Wrote(idx + 1, "findings")
          /\ Wrote(idx, "actions")' = Wrote(idx + 1, "actions")
      BY <2>1, <3>1 DEF Wrote
    <3>5. Lists(findings, Wrote(idx, "findings"))' /\ Lists(opLog, Wrote(idx, "actions"))'
      BY <3>3, <3>4 DEF Lists
    <3> QED
      BY <2>1, <3>1, <3>5 DEF Collected, TypeOK
  <2> QED
    BY <2>2, <2>3
<1>8. CASE FinalPrepare
  BY <1>8, <1>b DEF FinalPrepare, Prepare, Superstep, Goto, Abort, Control, Collection
<1>9. CASE FinalTemplate
  BY <1>9, <1>b DEF FinalTemplate, Superstep, Goto, Control
<1>10. CASE FinalReact
  BY <1>10, <1>b DEF FinalReact, Superstep, Goto, Abort, Control
<1>11. CASE FinalParse
  BY <1>11, <1>b DEF FinalParse, Superstep, Goto, Control
<1>12. CASE ReturnError
  BY <1>12, <1>a DEF ReturnError, Collected, Control, TypeOK
<1>13. CASE ReturnReport
  BY <1>13, <1>a DEF ReturnReport, Collected, Collection, Control, TypeOK
<1>14. CASE Returned \/ UNCHANGED vars
  BY <1>14, <1>a DEF Returned, vars, Collected, Collection
<1> QED
  BY <1>1, <1>2, <1>3, <1>4, <1>5, <1>6, <1>7, <1>8, <1>9, <1>10, <1>11, <1>12,
     <1>13, <1>14 DEF Next

\* What was collected agrees with the answers at every moment.
LEMMA CollectedInvariant == Spec => []Collected
<1>1. Init => Collected
  BY DEF Init, Collected, Lists, Wrote, Prompted, GraphNodes
<1>2. TypeOK /\ Control /\ Collected /\ [Next]_vars => Collected'
  BY CollectedStep
<1> QED
  BY <1>1, <1>2, TypeCorrect, ControlInvariant, PTL DEF Spec

\* Every agent is told all that the agents before it reported, in order
\* (executor.go:126-145, 184-192, 230-249).
THEOREM PromptsAreComplete == Spec => []ContextComplete
<1>1. Collected => ContextComplete
  BY DEF Collected, Collection, ContextComplete, CompleteUpTo, Prompted
<1> QED
  BY <1>1, CollectedInvariant, PTL

\* What was collected is what a report comes with.
LEMMA ResultFromCollected ==
    ASSUME TypeOK, Control, Collected
    PROVE  ResultComplete
<1>1. CASE outcome = "report"
  <2>1. planLen - 1 = idx /\ result = Collection /\ result = prompt
    BY <1>1 DEF Control, Collected, TypeOK
  <2>2. CompleteUpTo(result, idx)
    BY <2>1 DEF CompleteUpTo, Collection, Collected
  <2> QED
    BY <1>1, <2>1, <2>2 DEF ResultComplete
<1>2. CASE outcome # "report"
  BY <1>2 DEF Collected, ResultComplete
<1> QED
  BY <1>1, <1>2

\* A report comes with everything reported, an error with nothing
\* (executor.go:202-207, 334-340, 350-356).
THEOREM ResultsAreComplete == Spec => []ResultComplete
<1>1. TypeOK /\ Control /\ Collected => ResultComplete
  BY ResultFromCollected
<1> QED
  BY <1>1, TypeCorrect, ControlInvariant, CollectedInvariant, PTL

-----------------------------------------------------------------------------
\* The executor keeps the promise of PlanRun: a run begins as PlanRun's does,
\* and each of its steps does a step of the plan, reports, fails, or changes
\* nothing that PlanRun sees.
THEOREM ExecutorImplementsPlanRun == Spec => PromiseKept
<1>1. Init => Promise!Init
  BY DEF Init, Promise!Init, Promise!NoNotes, NoContext
<1>2. TypeOK /\ Control /\ Collected /\ [Next]_vars => [Promise!Next]_(Promise!vars)
  <2> SUFFICES ASSUME TypeOK, Control, Collected, [Next]_vars
               PROVE  Promise!Next \/ UNCHANGED Promise!vars
    BY DEF Promise!Next, Promise!vars
  <2> USE DEF state, captured, Promise!vars
  <2>a. ASSUME UNCHANGED <<planLen, idx, findings, opLog, result, outcome>>,
               outcome # "report"
        PROVE  UNCHANGED Promise!vars
    BY <2>a
  <2>b. ASSUME UNCHANGED <<planLen, idx, findings, opLog, result>>,
               outcome = "none", outcome' = "error"
        PROVE  Promise!Fail
    BY <2>b DEF Promise!Fail
  <2>1. CASE Call
    <3>1. outcome = "none"
      BY <2>1 DEF Call, Control
    <3>2. UNCHANGED <<planLen, idx, findings, opLog, result>>
      BY <2>1 DEF Call
    <3>3. outcome' = "error" \/ UNCHANGED outcome
      BY <2>1 DEF Call
    <3> QED
      BY <3>1, <3>2, <3>3, <2>a, <2>b DEF Promise!Next
  <2>2. CASE ExceedMaxSteps
    BY <2>2, <2>a DEF ExceedMaxSteps, GraphNodes, NormalNodes, FinalNodes, Control
  <2>3. CASE IsLast
    BY <2>3, <2>a DEF IsLast, Superstep, Control
  <2>4. CASE NormalPrepare
    BY <2>4, <2>a DEF NormalPrepare, Prepare, Superstep, Control
  <2>5. CASE NormalTemplate
    BY <2>5, <2>a DEF NormalTemplate, Superstep, Control
  <2>6. CASE NormalReact
    BY <2>6, <2>a DEF NormalReact, Superstep, Control
  <2>7. CASE NormalParse
    <3>1. /\ node = "normal-parse" /\ outcome = "none" /\ idx + 1 < planLen
          /\ UNCHANGED <<planLen, outcome, result>>
      BY <2>7 DEF NormalParse, Superstep, Control, NormalNodes
    <3>2. CASE Answer.text # "decodes"
      BY <2>7, <3>1, <3>2, <2>a DEF NormalParse, RejectAnswer, PanicAtAnswer, AcceptAnswer
    <3>3. CASE Answer.text = "decodes"
      <4>1. /\ idx' = idx + 1
            /\ findings' \in {findings, Append(findings, idx + 1)}
            /\ opLog' \in {opLog, Append(opLog, idx + 1)}
        BY <2>7, <3>3 DEF NormalParse, RejectAnswer, PanicAtAnswer, AcceptAnswer, Noted
      <4>2. Promise!CompleteStep
        BY <3>1, <4>1 DEF Promise!CompleteStep, Promise!NotesAfter
      <4> QED
        BY <4>2 DEF Promise!Next
    <3> QED
      BY <3>2, <3>3
  <2>8. CASE FinalPrepare
    BY <2>8, <2>a DEF FinalPrepare, Prepare, Superstep, Control
  <2>9. CASE FinalTemplate
    BY <2>9, <2>a DEF FinalTemplate, Superstep, Control
  <2>10. CASE FinalReact
    BY <2>10, <2>a DEF FinalReact, Superstep, Control
  <2>11. CASE FinalParse
    BY <2>11, <2>a DEF FinalParse, Superstep, Control
  <2>12. CASE ReturnError
    BY <2>12, <2>b DEF ReturnError, Control, Promise!Next
  <2>13. CASE ReturnReport
    <3>1. /\ idx + 1 = planLen /\ outcome = "none" /\ outcome' = "report"
          /\ UNCHANGED <<planLen, idx, findings, opLog, prompt>>
      BY <2>13 DEF ReturnReport, Control, GraphNodes
    <3>2. prompt = Collection /\ result' = Collection
      BY <2>13 DEF ReturnReport, Collected, Collection, Prompted
    <3>3. Promise!Report
      BY <3>1, <3>2 DEF Promise!Report, Collection
    <3> QED
      BY <3>3 DEF Promise!Next
  <2>14. CASE Returned \/ UNCHANGED vars
    BY <2>14 DEF Returned, vars
  <2> QED
    BY <2>1, <2>2, <2>3, <2>4, <2>5, <2>6, <2>7, <2>8, <2>9, <2>10, <2>11, <2>12,
       <2>13, <2>14 DEF Next
<1> QED
  BY <1>1, <1>2, TypeCorrect, ControlInvariant, CollectedInvariant, PTL
     DEF Spec, PromiseKept, Promise!Spec

-----------------------------------------------------------------------------
\* The trail is a sequence of events, and its length grows with the plan.
LEMMA TrailTyped ==
    ASSUME NEW n \in Nat
    PROVE  Trail(n) \in Seq(Events) /\ Len(Trail(n)) = 2 * n
<1>1. \A i \in 1..2 * n : (i + 1) \div 2 \in Nat /\ i \div 2 \in Nat
  OBVIOUS
<1>2. \A i \in 1..2 * n : Trail(n)[i] \in Events
  BY <1>1, EventTyped DEF Trail, EventTypes
<1>3. 2 * n \in Nat /\ DOMAIN Trail(n) = 1..2 * n /\ Trail(n) \in [1..2 * n -> Events]
  BY <1>2 DEF Trail
<1> QED
  BY <1>3

\* A finished step adds its start and its findings to the trail.
LEMMA TrailStep ==
    ASSUME NEW n \in Nat
    PROVE  Append(Append(Trail(n), Event("step.started", n + 1)),
                  Event("step.findings", n + 1)) = Trail(n + 1)
<1> DEFINE a == Event("step.started", n + 1)
           b == Event("step.findings", n + 1)
           t == Append(Append(Trail(n), a), b)
<1>1. a \in Events /\ b \in Events
  BY EventTyped DEF EventTypes
<1>2. /\ t \in Seq(Events) /\ Len(t) = 2 * n + 2
      /\ \A i \in 1..2 * n : t[i] = Trail(n)[i]
      /\ t[2 * n + 1] = a /\ t[2 * n + 2] = b
  <2> DEFINE u == Append(Trail(n), a)
  <2> HIDE DEF a, b
  <2>1. Trail(n) \in Seq(Events) /\ Len(Trail(n)) = 2 * n
    BY TrailTyped
  <2>2. /\ u \in Seq(Events) /\ Len(u) = 2 * n + 1 /\ u[2 * n + 1] = a
        /\ \A i \in 1..2 * n : u[i] = Trail(n)[i]
    BY <1>1, <2>1
  <2> HIDE DEF u
  <2>3. Append(u, b) \in Seq(Events) /\ Len(Append(u, b)) = 2 * n + 2
    BY <1>1, <2>2
  <2>4. /\ Append(u, b)[2 * n + 2] = b
        /\ \A i \in 1..2 * n + 1 : Append(u, b)[i] = u[i]
    BY <1>1, <2>2
  <2> QED
    BY <2>2, <2>3, <2>4 DEF u
<1>3. Trail(n + 1) \in Seq(Events) /\ Len(Trail(n + 1)) = 2 * n + 2
  BY TrailTyped
<1>4. ASSUME NEW i \in 1..2 * n + 2 PROVE t[i] = Trail(n + 1)[i]
  <2>1. i \in 1..2 * (n + 1)
    OBVIOUS
  <2>2. CASE i \in 1..2 * n
    <3>1. Trail(n)[i] = Trail(n + 1)[i]
      BY <2>1, <2>2 DEF Trail
    <3> QED
      BY <1>2, <2>2, <3>1
  <2>3. CASE i = 2 * n + 1
    <3>1. i % 2 = 1 /\ (i + 1) \div 2 = n + 1
      BY <2>3
    <3>2. Trail(n + 1)[i] = a
      BY <2>1, <3>1 DEF Trail
    <3> QED
      BY <1>2, <2>3, <3>2
  <2>4. CASE i = 2 * n + 2
    <3>1. i % 2 # 1 /\ i \div 2 = n + 1
      BY <2>4
    <3>2. Trail(n + 1)[i] = b
      BY <2>1, <3>1 DEF Trail
    <3> QED
      BY <1>2, <2>4, <3>2
  <2>5. i \in 1..2 * n \/ i = 2 * n + 1 \/ i = 2 * n + 2
    OBVIOUS
  <2> QED
    BY <2>2, <2>3, <2>4, <2>5
<1> QED
  BY <1>2, <1>3, <1>4

\* Appending one by one is concatenating a tail.
LEMMA AppendsAreTails ==
    ASSUME NEW s \in Seq(Events), NEW a \in Events, NEW b \in Events, NEW c \in Events
    PROVE  /\ s = s \o <<>>
           /\ Append(s, a) = s \o <<a>>
           /\ Append(Append(s, a), b) = s \o <<a, b>>
           /\ Append(Append(Append(s, a), b), c) = s \o <<a, b, c>>
BY SMTT(30)

StartedNow == Event("step.started", idx + 1)
BadNow == Event("step.error", idx + 1)
RunError == Event("error", 0)
RunReport == Event("report.generated", 0)

\* The events that may be announced at a moment are events.
LEMMA NowTyped ==
    ASSUME TypeOK
    PROVE  StartedNow \in Events /\ BadNow \in Events /\ RunError \in Events
           /\ RunReport \in Events
<1>1. idx + 1 \in Nat /\ 0 \in Nat
  BY DEF TypeOK
<1> QED
  BY <1>1, EventTyped DEF EventTypes, StartedNow, BadNow, RunError, RunReport

\* The events emitted when the loop stands at a node.
Announced ==
    /\ node \in {"called", "is-last", "normal-prepare", "final-prepare"} => events = Trail(idx)
    /\ node \in Prompted => events = Append(Trail(idx), StartedNow)
    /\ node = "crashed" => events = Append(Trail(idx), StartedNow)
    /\ node = "failed" =>
         IF err = "parse" THEN events = Append(Append(Trail(idx), StartedNow), BadNow)
         ELSE events \in {Trail(idx), Append(Trail(idx), StartedNow)}
    /\ node = "failed" => err \notin Refusals
    /\ node = "returned" => outcome # "none" /\ EventProtocol

\* Every step of the graph keeps the invariant on what was announced.
LEMMA AnnouncedStep ==
    ASSUME TypeOK, Control, Announced, [Next]_vars
    PROVE  Announced'
<1> USE DEF state, captured, GraphNodes, NormalNodes, FinalNodes, Prompted
<1>a. ASSUME UNCHANGED <<idx, planLen>>
      PROVE  Trail(idx)' = Trail(idx) /\ StartedNow' = StartedNow /\ BadNow' = BadNow
  BY <1>a DEF Trail, StartedNow, BadNow
<1>b. ASSUME UNCHANGED <<idx, planLen, events>>, node' # "returned",
             \/ node' \in {"is-last", "normal-prepare", "final-prepare"}
                  /\ node \in {"called", "is-last", "normal-prepare", "final-prepare"}
             \/ node' \in Prompted /\ node \in Prompted
             \/ node' = "failed" /\ node \in GraphNodes /\ err' \notin {"parse"} \cup Refusals
      PROVE  Announced'
  BY <1>a, <1>b DEF Announced
<1>1. CASE Call
  <2>1. CASE node' = "returned"
    <3>1. /\ outcome' = "error" /\ err' \in Refusals /\ events' = Trail(0)
          /\ UNCHANGED <<idx, planLen>> /\ idx = 0
      BY <1>1, <2>1 DEF Call, Announced, Control, Refusals
    <3>2. events' = Trail(idx)' \o <<>>
      BY <3>1, TrailTyped DEF Trail
    <3>3. <<>> \in Tails'
      BY <3>1 DEF Tails, Refusals
    <3> QED
      BY <2>1, <3>1, <3>2, <3>3 DEF Announced, EventProtocol
  <2>2. CASE node' = "is-last"
    BY <1>1, <2>2, <1>b DEF Call
  <2> QED
    BY <1>1, <2>1, <2>2 DEF Call
<1>2. CASE ExceedMaxSteps
  BY <1>2, <1>b DEF ExceedMaxSteps, Abort, Refusals
<1>3. CASE IsLast
  BY <1>3, <1>b DEF IsLast, Superstep, Goto
<1>4. CASE NormalPrepare \/ FinalPrepare
  <2>1. idx < planLen /\ node \in {"normal-prepare", "final-prepare"}
    BY <1>4 DEF NormalPrepare, FinalPrepare, Superstep, Control
  <2>2. /\ node' \in {"normal-template", "final-template"}
        /\ events' = Append(events, StartedNow)
        /\ UNCHANGED <<idx, planLen>>
    BY <1>4, <2>1 DEF NormalPrepare, FinalPrepare, Prepare, Superstep, Goto, StartedNow, TypeOK
  <2> QED
    BY <2>1, <2>2, <1>a DEF Announced
<1>5. CASE NormalTemplate
  BY <1>5, <1>b DEF NormalTemplate, Superstep, Goto
<1>6. CASE NormalReact
  BY <1>6, <1>b DEF NormalReact, Superstep, Goto, Abort, Refusals
<1>7. CASE NormalParse
  <2>1. node = "normal-parse" /\ idx < planLen /\ UNCHANGED planLen
    BY <1>7 DEF NormalParse, Superstep, Control
  <2>2. CASE Answer.text \notin {"decodes", "panics"}
    <3>1. /\ node' = "failed" /\ err' = "parse" /\ events' = Append(events, BadNow)
          /\ UNCHANGED <<idx, planLen>>
      BY <1>7, <2>1, <2>2 DEF NormalParse, RejectAnswer, PanicAtAnswer, AcceptAnswer, Abort, BadNow
    <3> QED
      BY <2>1, <3>1, <1>a DEF Announced, Refusals
  <2>4. CASE Answer.text = "panics"
    <3>1. /\ \/ node' = "failed" /\ err' = "panic"
             \/ node' = "crashed"
          /\ UNCHANGED <<idx, planLen, events>>
      BY <1>7, <2>1, <2>4 DEF NormalParse, RejectAnswer, PanicAtAnswer, AcceptAnswer, Abort
    <3> QED
      BY <2>1, <3>1, <1>a DEF Announced, Refusals
  <2>3. CASE Answer.text = "decodes"
    <3>1. /\ node' = "is-last" /\ idx' = idx + 1
          /\ events' = Append(events, Event("step.findings", idx + 1))
      BY <1>7, <2>3 DEF NormalParse, RejectAnswer, PanicAtAnswer, AcceptAnswer, Goto
    <3>2. events' = Trail(idx + 1)
      BY <2>1, <3>1, TrailStep DEF Announced, StartedNow, TypeOK
    <3>3. Trail(idx)' = Trail(idx + 1)
      BY <3>1 DEF Trail
    <3> QED
      BY <3>1, <3>2, <3>3 DEF Announced
  <2> QED
    BY <2>2, <2>3, <2>4
<1>9. CASE FinalTemplate
  BY <1>9, <1>b DEF FinalTemplate, Superstep, Goto
<1>10. CASE FinalReact
  BY <1>10, <1>b DEF FinalReact, Superstep, Goto, Abort, Refusals
<1>11. CASE FinalParse
  BY <1>11, <1>b DEF FinalParse, Superstep, Goto
<1>12. CASE ReturnError
  <2>1. /\ node = "failed" /\ node' = "returned" /\ outcome' = "error"
        /\ events' = Append(events, RunError)
        /\ UNCHANGED <<idx, planLen, err>> /\ err \notin Refusals
    BY <1>12 DEF ReturnError, RunError, Announced, TypeOK
  <2>2. Trail(idx) \in Seq(Events)
    BY TrailTyped DEF TypeOK
  <2>3. /\ Append(Trail(idx), RunError) = Trail(idx) \o <<RunError>>
        /\ Append(Append(Trail(idx), StartedNow), RunError)
             = Trail(idx) \o <<StartedNow, RunError>>
        /\ Append(Append(Append(Trail(idx), StartedNow), BadNow), RunError)
             = Trail(idx) \o <<StartedNow, BadNow, RunError>>
    BY <2>2, NowTyped, AppendsAreTails, SMTT(30)
  <2>4. CASE err = "parse"
    <3>1. <<StartedNow, BadNow, RunError>> \in Tails'
      BY <2>1, <2>4 DEF Tails, StartedNow, BadNow, RunError, Refusals
    <3>2. events' = Trail(idx) \o <<StartedNow, BadNow, RunError>>
      BY <2>1, <2>3, <2>4 DEF Announced
    <3> QED
      BY <2>1, <3>1, <3>2, <1>a DEF Announced, EventProtocol
  <2>5. CASE err # "parse"
    <3>1. <<RunError>> \in Tails' /\ <<StartedNow, RunError>> \in Tails'
      BY <2>1, <2>5 DEF Tails, StartedNow, RunError
    <3>2. \/ events' = Trail(idx) \o <<RunError>>
          \/ events' = Trail(idx) \o <<StartedNow, RunError>>
      BY <2>1, <2>3, <2>5 DEF Announced
    <3> QED
      BY <2>1, <3>1, <3>2, <1>a DEF Announced, EventProtocol
  <2> QED
    BY <2>4, <2>5
<1>13. CASE ReturnReport
  <2>1. /\ node = "end" /\ node' = "returned" /\ outcome' = "report"
        /\ events' = Append(events, RunReport)
        /\ UNCHANGED <<idx, planLen>>
    BY <1>13 DEF ReturnReport, RunReport
  <2>2. <<StartedNow, RunReport>> \in Tails'
    BY <2>1 DEF Tails, StartedNow, RunReport
  <2>3. Trail(idx) \in Seq(Events)
    BY TrailTyped DEF TypeOK
  <2>4. events' = Trail(idx) \o <<StartedNow, RunReport>>
    <3>1. Append(Append(Trail(idx), StartedNow), RunReport)
            = Trail(idx) \o <<StartedNow, RunReport>>
      BY <2>3, NowTyped, AppendsAreTails
    <3> QED
      BY <2>1, <3>1 DEF Announced
  <2> QED
    BY <2>1, <2>2, <2>4, <1>a DEF Announced, EventProtocol
<1>14. CASE Returned \/ UNCHANGED vars
  BY <1>14, <1>a DEF Returned, vars, Announced, EventProtocol, Tails
<1> QED
  BY <1>1, <1>2, <1>3, <1>4, <1>5, <1>6, <1>7, <1>9, <1>10, <1>11, <1>12,
     <1>13, <1>14 DEF Next

\* What was announced agrees with the node at every moment.
LEMMA AnnouncedInvariant == Spec => []Announced
<1>1. Init => Announced
  BY DEF Init, Announced, Trail, Prompted
<1>2. TypeOK /\ Control /\ Announced /\ [Next]_vars => Announced'
  BY AnnouncedStep
<1> QED
  BY <1>1, <1>2, TypeCorrect, ControlInvariant, PTL DEF Spec

\* What a run that has returned announced last: the report or the error, or
\* nothing at all if there was no graph to run.
LEMMA LastWord ==
    ASSUME TypeOK, Control, Announced, outcome # "none"
    PROVE  /\ outcome = "report" => planLen > 0 /\ err = "none"
           /\ IF err \in Refusals THEN events = <<>>
              ELSE /\ events # <<>>
                   /\ events[Len(events)] = IF outcome = "report" THEN RunReport ELSE RunError
<1>1. node = "returned" /\ EventProtocol
  BY DEF Control, Announced
<1>2. outcome = "report" => planLen > 0 /\ err = "none"
  BY DEF TypeOK, Control
<1>3. PICK tail \in Tails : events = Trail(idx) \o tail
  BY <1>1 DEF EventProtocol
<1>4. Trail(idx) \in Seq(Events) /\ Len(Trail(idx)) = 2 * idx /\ idx \in Nat
  BY TrailTyped DEF TypeOK
<1> DEFINE end == IF outcome = "report" THEN RunReport ELSE RunError
<1>5. CASE err \in Refusals
  <2>1. idx = 0 /\ outcome = "error"
    BY <1>2, <1>5 DEF TypeOK, Control, Refusals
  <2>2. tail = <<>>
    BY <1>3, <1>5, <2>1 DEF Tails, Refusals
  <2>3. Len(Trail(idx)) = 0
    BY <1>4, <2>1
  <2> QED
    BY <1>3, <1>4, <1>5, <2>1, <2>2, <2>3
<1>6. CASE err \notin Refusals
  <2>1. \E a, b \in Events : tail \in {<<end>>, <<a, end>>, <<a, b, end>>}
    BY <1>3, <1>6, NowTyped, Zenon DEF Tails, TypeOK, StartedNow, BadNow, RunError, RunReport
  <2>2. end \in Events
    BY NowTyped
  <2>3. ASSUME NEW s \in Seq(Events), NEW a \in Events, NEW b \in Events, NEW c \in Events,
               NEW w \in {<<c>>, <<a, c>>, <<a, b, c>>}
        PROVE  s \o w # <<>> /\ (s \o w)[Len(s \o w)] = c
    <3>1. w \in Seq(Events) /\ Len(w) > 0 /\ w[Len(w)] = c
      <4>1. /\ <<c>> \in Seq(Events) /\ Len(<<c>>) = 1 /\ <<c>>[1] = c
            /\ <<a, c>> \in Seq(Events) /\ Len(<<a, c>>) = 2 /\ <<a, c>>[2] = c
            /\ <<a, b, c>> \in Seq(Events) /\ Len(<<a, b, c>>) = 3 /\ <<a, b, c>>[3] = c
        OBVIOUS
      <4>2. w = <<c>> \/ w = <<a, c>> \/ w = <<a, b, c>>
        OBVIOUS
      <4>3. CASE w = <<c>>
        BY <4>1, <4>3
      <4>4. CASE w = <<a, c>>
        BY <4>1, <4>4
      <4>5. CASE w = <<a, b, c>>
        BY <4>1, <4>5
      <4> QED
        BY <4>2, <4>3, <4>4, <4>5
    <3>2. Len(s \o w) = Len(s) + Len(w) /\ s \o w \in Seq(Events)
      BY <3>1
    <3>3. (s \o w)[Len(s) + Len(w)] = w[Len(w)]
      BY <3>1
    <3> QED
      BY <3>1, <3>2, <3>3
  <2> HIDE DEF end
  <2>4. events # <<>> /\ events[Len(events)] = end
    <3>1. PICK a \in Events, b \in Events : tail \in {<<end>>, <<a, end>>, <<a, b, end>>}
      BY <2>1
    <3>2. /\ Trail(idx) \o tail # <<>>
          /\ (Trail(idx) \o tail)[Len(Trail(idx) \o tail)] = end
      BY <1>4, <2>2, <2>3, <3>1, Zenon
    <3> QED
      BY <1>3, <3>2, Zenon
  <2> QED
    BY <1>2, <1>6, <2>4 DEF end
<1> QED
  BY <1>2, <1>5, <1>6

\* All of it together, for the loop that calls Run again and again.
Sound == TypeOK /\ Control /\ Collected /\ Announced

LEMMA SoundInit == Init => Sound
<1>1. Init => TypeOK
  BY DEF Init, TypeOK, Places, GraphNodes, Context, NoContext
<1>2. Init => Control
  BY DEF Init, Control, GraphNodes, NormalNodes, FinalNodes, Refusals
<1>3. Init => Collected
  BY DEF Init, Collected, Lists, Wrote, Prompted, GraphNodes
<1>4. Init => Announced
  BY DEF Init, Announced, Trail, Prompted
<1> QED
  BY <1>1, <1>2, <1>3, <1>4 DEF Sound

LEMMA SoundStep ==
    ASSUME Sound, [Next]_vars
    PROVE  Sound'
BY TypeStep, ControlStep, CollectedStep, AnnouncedStep DEF Sound

\* What was announced is what the protocol allows.
LEMMA ProtocolFromAnnounced ==
    ASSUME TypeOK, Control, Announced
    PROVE  EventProtocol
<1> SUFFICES ASSUME node # "returned" PROVE EventProtocol
  BY DEF Announced
<1>1. outcome = "none"
  BY DEF Control
<1>2. <<>> \in Tails /\ <<StartedNow>> \in Tails /\ <<StartedNow, BadNow>> \in Tails
  BY <1>1 DEF Tails, StartedNow, BadNow
<1>3. Trail(idx) \in Seq(Events)
  BY TrailTyped DEF TypeOK
<1>4. \/ events = Trail(idx) \o <<>>
      \/ events = Trail(idx) \o <<StartedNow>>
      \/ events = Trail(idx) \o <<StartedNow, BadNow>>
  BY <1>3, NowTyped, AppendsAreTails
     DEF Announced, TypeOK, Places, GraphNodes, NormalNodes, FinalNodes, Prompted
<1> QED
  BY <1>2, <1>4 DEF EventProtocol

\* The events a subscriber sees follow the protocol at every moment of every
\* run (executor.go:121, 165, 175, 195, 226, 335, 343).
THEOREM EventsFollowProtocol == Spec => []EventProtocol
<1>1. TypeOK /\ Control /\ Announced => EventProtocol
  BY ProtocolFromAnnounced
<1> QED
  BY <1>1, TypeCorrect, ControlInvariant, AnnouncedInvariant, PTL

\* What is proved of a run, at a glance.
LEMMA SoundSays ==
    ASSUME Sound
    PROVE  ContextComplete /\ ResultComplete /\ LastStepIsFinal /\ StepBudget /\ EventProtocol
<1>1. ContextComplete
  BY DEF Sound, Collected, Collection, ContextComplete, CompleteUpTo, Prompted
<1>2. LastStepIsFinal /\ StepBudget
  BY DEF Sound, TypeOK, Control, LastStepIsFinal, StepBudget
<1> QED
  BY <1>1, <1>2, ResultFromCollected, ProtocolFromAnnounced DEF Sound
=============================================================================
