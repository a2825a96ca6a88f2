----------------------------- MODULE ReplProofs -----------------------------
(***************************************************************************)
(* Repl implements Conversation, its events tell how a query ended, and    *)
(* its components keep in the loop what they promise by themselves.        *)
(*                                                                         *)
(* The proofs of the components are instances here, and what they show is  *)
(* used, not shown again. The theorems on Session hold as they stand, for  *)
(* the loop takes none but Session's steps (SessionSpec). Those on Planner *)
(* and Executor are about one call each, and the loop calls anew: of them  *)
(* it is the inductive invariants that carry over, being kept by every     *)
(* step of a call and true at its start (ComponentsStep). Loop says where  *)
(* the three stand at each stage of the loop, and Stored that the rounds   *)
(* and what they say are in step.                                          *)
(***************************************************************************)
EXTENDS Repl, TLAPS

SP == INSTANCE SessionProofs WITH Procs <- {Self}, MaxRounds <- MaxQueries, MaxRoundNum <- MaxQueries
PP == INSTANCE PlannerProofs WITH planLen <- planned, events <- planEvents, outcome <- planOutcome
XP == INSTANCE ExecutorProofs

-----------------------------------------------------------------------------
\* A step of the executor keeps all that is proved of it.
LEMMA ExecutorStep ==
    ASSUME XP!Sound, X!Next \/ UNCHANGED executorVars
    PROVE  XP!Sound'
<1> USE DEF X!state, X!captured, XP!state, XP!captured, X!vars, XP!vars
<1>1. ASSUME NEW n PROVE X!Superstep(n) <=> XP!Superstep(n)
  BY DEF X!Superstep, XP!Superstep
<1>2. ASSUME NEW n PROVE (X!Goto(n) <=> XP!Goto(n)) /\ (X!Abort(n) <=> XP!Abort(n))
  BY DEF X!Goto, XP!Goto, X!Abort, XP!Abort
<1>3. ASSUME NEW n PROVE X!Prepare(n) <=> XP!Prepare(n)
  BY <1>2 DEF X!Prepare, XP!Prepare, X!Event, XP!Event
<1>4. X!Call => XP!Call
  BY DEF X!Call, XP!Call
<1>5. X!ExceedMaxSteps => XP!ExceedMaxSteps
  BY <1>2 DEF X!ExceedMaxSteps, XP!ExceedMaxSteps, X!GraphNodes, XP!GraphNodes,
              X!NormalNodes, XP!NormalNodes, X!FinalNodes, XP!FinalNodes
<1>6. X!IsLast => XP!IsLast
  BY <1>1, <1>2 DEF X!IsLast, XP!IsLast
<1>7. (X!NormalPrepare => XP!NormalPrepare) /\ (X!FinalPrepare => XP!FinalPrepare)
  BY <1>1, <1>3 DEF X!NormalPrepare, XP!NormalPrepare, X!FinalPrepare, XP!FinalPrepare
<1>8. (X!NormalTemplate => XP!NormalTemplate) /\ (X!FinalTemplate => XP!FinalTemplate)
  BY <1>1, <1>2 DEF X!NormalTemplate, XP!NormalTemplate, X!FinalTemplate, XP!FinalTemplate
<1>9. (X!NormalReact => XP!NormalReact) /\ (X!FinalReact => XP!FinalReact)
  BY <1>1, <1>2 DEF X!NormalReact, XP!NormalReact, X!FinalReact, XP!FinalReact, X!Reply, XP!Reply
<1>10. X!NormalParse => XP!NormalParse
  BY <1>1, <1>2 DEF X!NormalParse, XP!NormalParse, X!RejectAnswer, XP!RejectAnswer,
       X!PanicAtAnswer, XP!PanicAtAnswer, X!AcceptAnswer, XP!AcceptAnswer, X!Answer, XP!Answer, X!Noted, XP!Noted, X!Event, XP!Event
<1>11. X!FinalParse => XP!FinalParse
  BY <1>1, <1>2 DEF X!FinalParse, XP!FinalParse
<1>12. (X!ReturnError => XP!ReturnError) /\ (X!ReturnReport => XP!ReturnReport)
  BY DEF X!ReturnError, XP!ReturnError, X!ReturnReport, XP!ReturnReport, X!Event, XP!Event
<1>13. X!Returned => UNCHANGED XP!vars
  BY DEF X!Returned
<1>14. UNCHANGED executorVars => UNCHANGED XP!vars
  BY DEF executorVars
<1>15. [XP!Next]_(XP!vars)
  BY <1>4, <1>5, <1>6, <1>7, <1>8, <1>9, <1>10, <1>11, <1>12, <1>13, <1>14, Zenon
     DEF X!Next, XP!Next
<1> QED
  BY <1>15, XP!SoundStep, BoundsAssumption DEF XP!MaxPlanStepsAssumption, XP!MaxRunStepsAssumption

\* A call of the executor starts one.
LEMMA ExecutorCalled ==
    ASSUME NEW n \in 0..MaxPlanSteps, CallExecutor(n)
    PROVE  XP!Init'
BY DEF CallExecutor, XP!Init, X!NoContext, XP!NoContext

\* All that is proved of it holds at its start.
LEMMA ExecutorStarts == XP!Init' => XP!Sound'
<1>1. XP!Init => XP!Sound
  BY XP!SoundInit, BoundsAssumption DEF XP!MaxPlanStepsAssumption, XP!MaxRunStepsAssumption
<1> QED
  BY <1>1, PTL

\* What is proved of the executor includes its type invariant.
LEMMA ExecutorTypes == XP!Sound => X!TypeOK
BY DEF XP!Sound, X!TypeOK, XP!TypeOK, X!Places, XP!Places, X!GraphNodes, XP!GraphNodes,
       X!NormalNodes, XP!NormalNodes, X!FinalNodes, XP!FinalNodes, X!Context, XP!Context,
       X!Reply, XP!Reply, X!Events, XP!Events, X!EventTypes, XP!EventTypes, X!Errors, XP!Errors,
       X!Refusals, XP!Refusals

\* The text handling means the same under both names.
LEMMA SameText ==
    ASSUME NEW text
    PROVE  /\ P!SlicePanics(text) <=> PP!SlicePanics(text)
           /\ P!Extract(text) = PP!Extract(text)
           /\ P!IsObject(text) <=> PP!IsObject(text)
<1>1. \A A : P!Min(A) = PP!Min(A) /\ P!Max(A) = PP!Max(A)
  BY DEF P!Min, PP!Min, P!Max, PP!Max
<1>2. \A A : P!Cardinality(A) = PP!Cardinality(A)
  BY DEF P!Cardinality, PP!Cardinality
<1>3. \A s : P!Fences(s) = PP!Fences(s)
  BY DEF P!Fences, PP!Fences
<1>4. \A s, b : P!Braces(s, b) = PP!Braces(s, b)
  BY DEF P!Braces, PP!Braces
<1>5. \A s : P!Header(s) = PP!Header(s)
  BY <1>1 DEF P!Header, PP!Header, P!SelectInSeq, PP!SelectInSeq
<1>6. \A s : P!WithoutHeader(s) = PP!WithoutHeader(s)
  BY <1>5 DEF P!WithoutHeader, PP!WithoutHeader, P!ToSet, PP!ToSet
<1>7. \A s : P!Stripped(s) = PP!Stripped(s)
  BY <1>1, <1>2, <1>3, <1>6 DEF P!Stripped, PP!Stripped
<1>8. \A s : P!Object(s) = PP!Object(s)
  BY <1>1, <1>4 DEF P!Object, PP!Object
<1>9. P!Extract(text) = PP!Extract(text)
  BY <1>7, <1>8 DEF P!Extract, PP!Extract
<1>10. P!SlicePanics(text) <=> PP!SlicePanics(text)
  BY <1>1, <1>3 DEF P!SlicePanics, PP!SlicePanics
<1>11. P!IsObject(text) <=> PP!IsObject(text)
  BY <1>2, <1>4 DEF P!IsObject, PP!IsObject
<1> QED
  BY <1>9, <1>10, <1>11

\* A step of the planner keeps all that is proved of it.
LEMMA PlannerStep ==
    ASSUME PP!Announcing,
           \/ P!Call \/ P!React \/ P!Parse \/ P!ReturnError \/ P!ReturnPlan
           \/ UNCHANGED plannerVars
    PROVE  PP!Announcing'
<1>1. P!Call => PP!Call
  BY DEF P!Call, PP!Call, P!Section, PP!Section
<1>2. P!React => PP!React
  BY DEF P!React, PP!React
<1>3. P!Parse => PP!Parse
  BY SameText DEF P!Parse, PP!Parse
<1>4. P!ReturnError => PP!ReturnError
  BY DEF P!ReturnError, PP!ReturnError
<1>5. P!ReturnPlan => PP!ReturnPlan
  BY DEF P!ReturnPlan, PP!ReturnPlan
<1>6. UNCHANGED plannerVars => UNCHANGED PP!vars
  BY DEF plannerVars, PP!vars
<1>7. [PP!Next]_(PP!vars)
  BY <1>1, <1>2, <1>3, <1>4, <1>5, <1>6, Zenon DEF PP!Next
<1> QED
  BY <1>7, PP!AnnouncingStep, BoundsAssumption, TextsAssumption
     DEF PP!MaxPlanStepsAssumption, PP!TextsAssumption, P!Tokens, PP!Tokens

\* The session's steps are steps of its own specification.
LEMMA SessionStep ==
    ASSUME \/ \E s \in Ids : S!NewSession(Self, s) \/ S!ResumeSession(Self, s)
           \/ S!Ask(Self) \/ S!RoundFails(Self)
           \/ S!SaveRound(Self) \/ S!SaveRoundFails(Self) \/ S!SaveStep(Self)
           \/ S!Touch(Self) \/ S!SaveFails(Self) \/ S!Exit(Self)
           \/ UNCHANGED sessionVars
    PROVE  [SP!Next]_(SP!vars)
<1> USE DEF S!table, SP!table
<1>1. ASSUME NEW s \in Ids PROVE S!NewSession(Self, s) => SP!NewSession(Self, s)
  BY DEF S!NewSession, SP!NewSession, S!Open, SP!Open, S!Rows, SP!Rows
<1>2. ASSUME NEW s \in Ids PROVE S!ResumeSession(Self, s) => SP!ResumeSession(Self, s)
  BY DEF S!ResumeSession, SP!ResumeSession, S!Open, SP!Open, S!Rows, SP!Rows,
         S!Spoil, SP!Spoil, S!Holders, SP!Holders, S!Live, SP!Live
<1>3. S!Ask(Self) => SP!Ask(Self)
  BY DEF S!Ask, SP!Ask, S!Rows, SP!Rows, S!Scanned, SP!Scanned, S!Before, SP!Before,
         S!Previous, SP!Previous, S!Reported, SP!Reported, S!NoHistory, SP!NoHistory
<1>4. S!RoundFails(Self) => SP!RoundFails(Self)
  BY DEF S!RoundFails, SP!RoundFails, S!Forget, SP!Forget, S!NoHistory, SP!NoHistory
<1>5. S!SaveRound(Self) => SP!SaveRound(Self)
  BY DEF S!SaveRound, SP!SaveRound, S!Forget, SP!Forget, S!NoHistory, SP!NoHistory
<1>6. S!SaveRoundFails(Self) => SP!SaveRoundFails(Self)
  BY DEF S!SaveRoundFails, SP!SaveRoundFails, S!Forget, SP!Forget, S!NoHistory, SP!NoHistory,
         S!Spoil, SP!Spoil
<1>7. S!SaveStep(Self) => SP!SaveStep(Self)
  BY DEF S!SaveStep, SP!SaveStep
<1>8. S!Touch(Self) => SP!Touch(Self)
  BY DEF S!Touch, SP!Touch, S!NoRow, SP!NoRow
<1>9. S!SaveFails(Self) => SP!SaveFails(Self)
  BY DEF S!SaveFails, SP!SaveFails, S!NoRow, SP!NoRow
<1>10. S!Exit(Self) => SP!Exit(Self)
  BY DEF S!Exit, SP!Exit, S!NoRow, SP!NoRow, S!NoHistory, SP!NoHistory, S!Live, SP!Live
<1>11. UNCHANGED sessionVars => UNCHANGED SP!vars
  BY DEF sessionVars, SP!vars
<1>12. Self \in {Self}
  OBVIOUS
<1> QED
  BY <1>1, <1>2, <1>3, <1>4, <1>5, <1>6, <1>7, <1>8, <1>9, <1>10, <1>11, <1>12, Zenon DEF SP!Next

\* The loop takes none but the sessions' steps, so that what is proved of them
\* holds in it.
LEMMA SessionSpec == Spec => SP!Spec
<1>1. Init => SP!Init
  BY DEF Init, S!Init, SP!Init, S!NoHistory, SP!NoHistory, S!NoRow, SP!NoRow
<1>2. [Next]_vars => [SP!Next]_(SP!vars)
  <2> SUFFICES ASSUME [Next]_vars PROVE [SP!Next]_(SP!vars)
    OBVIOUS
  <2>1. CASE Start
    BY <2>1, SessionStep DEF Start
  <2>2. CASE ReadQuery
    BY <2>2, SessionStep DEF ReadQuery
  <2>3. CASE Planning \/ Planned \/ Executing \/ PrintReport
    BY <2>3, SessionStep DEF Planning, Planned, Executing, PrintReport
  <2>4. CASE Drop
    BY <2>4, SessionStep DEF Drop
  <2>5. CASE Save
    BY <2>5, SessionStep DEF Save
  <2>6. CASE SaveFails
    BY <2>6, SessionStep DEF SaveFails
  <2>7. CASE Saving
    BY <2>7, SessionStep DEF Saving
  <2>8. CASE Exit
    BY <2>8, SessionStep DEF Exit
  <2>9. CASE UNCHANGED vars
    BY <2>9, SessionStep DEF vars
  <2> QED
    BY <2>1, <2>2, <2>3, <2>4, <2>5, <2>6, <2>7, <2>8, <2>9 DEF Next, Step
<1> QED
  BY <1>1, <1>2, PTL DEF Spec, SP!Spec

\* The two invariants of the sessions that the loop's own proofs need.
LEMMA Sessions == Spec => [](SP!TypeOK /\ SP!InStep)
<1>1. SP!Spec => []SP!TypeOK
  BY SP!TypeCorrect, BoundsAssumption, NoIdAssumption
     DEF SP!BoundsAssumption, SP!NoIdAssumption
<1>2. SP!Spec => []SP!InStep
  BY SP!InStepInvariant, BoundsAssumption, NoIdAssumption
     DEF SP!BoundsAssumption, SP!NoIdAssumption
<1> QED
  BY <1>1, <1>2, SessionSpec, PTL

-----------------------------------------------------------------------------
\* How the loop and its components stand to each other.
Loop ==
    /\ stage \in Stages /\ query \in 0..MaxQueries
    /\ stage = "down" => pc[Self] = "down" /\ place = "called"
    /\ stage \in {"prompt", "printing"} => pc[Self] = "idle"
    /\ Busy => pc[Self] = "running"
    /\ stage = "saving" => pc[Self] \in {"steps", "touch"}
    /\ ~Busy => hist[Self] = S!NoHistory
    /\ stage = "planning" => XP!Init
    /\ stage \in {"executing", "saving", "printing"} =>
         place = "returned" /\ planOutcome = "plan" /\ planned = planLen
    /\ stage \in {"saving", "printing"} => outcome = "report"
    /\ stage = "prompt" =>
         \/ place = "called"
         \/ place = "returned" /\ planOutcome = "error" /\ events = <<>>
         \/ /\ place = "returned" /\ planOutcome = "plan" /\ planned = planLen
            /\ outcome # "none"

\* The executor is not handed another plan while it runs.
LEMMA PlanStays ==
    ASSUME X!Next PROVE planLen' = planLen
BY DEF X!Next, X!Call, X!ExceedMaxSteps, X!IsLast, X!NormalPrepare, X!NormalTemplate,
       X!NormalReact, X!NormalParse, X!FinalPrepare, X!FinalTemplate, X!FinalReact,
       X!FinalParse, X!ReturnError, X!ReturnReport, X!Returned, X!Superstep, X!vars

\* The process of the loop is the only one.
LEMMA OneProcess ==
    ASSUME SP!TypeOK
    PROVE  /\ pc[Self] \in {"down", "idle", "running", "steps", "touch"}
           /\ \A x : [pc EXCEPT ![Self] = x][Self] = x
           /\ \A x : [hist EXCEPT ![Self] = x][Self] = x
           /\ \A x : [sid EXCEPT ![Self] = x][Self] = x
           /\ \A x : [roundNum EXCEPT ![Self] = x][Self] = x
           /\ pc[Self] # "down" => sid[Self] \in Ids
           /\ roundNum[Self] \in Nat
           /\ hist[Self] \in SP!Hist
BY DEF SP!TypeOK, SP!Live

\* Every step keeps the loop and its components together.
LEMMA LoopStep ==
    ASSUME SP!TypeOK, PP!Announcing, XP!Sound, Loop, [Next]_vars
    PROVE  Loop'
<1> USE DEF Loop, Busy, Stages
<1>1. CASE Start
  <2>1. pc'[Self] = "idle" /\ UNCHANGED hist
    BY <1>1, OneProcess DEF Start, S!NewSession, S!ResumeSession, S!Open
  <2> QED
    BY <1>1, <2>1 DEF Start, plannerVars, executorVars
<1>2. CASE ReadQuery
  <2>1. pc'[Self] = "running"
    BY <1>2, OneProcess DEF ReadQuery, S!Ask
  <2>2. XP!Init'
    BY <1>2, ExecutorCalled, BoundsAssumption DEF ReadQuery
  <2>3. stage' = "planning" /\ query' \in 0..MaxQueries
    BY <1>2, BoundsAssumption DEF ReadQuery
  <2> QED
    BY <2>1, <2>2, <2>3
<1>3. CASE Planning
  <2>1. stage = "planning" /\ UNCHANGED <<sessionVars, executorVars, loop>>
    BY <1>3 DEF Planning
  <2>2. XP!Init'
    BY <2>1 DEF XP!Init, executorVars, XP!NoContext
  <2> QED
    BY <2>1, <2>2 DEF loop, sessionVars
<1>4. CASE Planned
  <2>1. place = "returned" /\ planOutcome = "plan" /\ planLen' = planned
    BY <1>4 DEF Planned, CallExecutor, PP!Announcing, PP!Underway
  <2> QED
    BY <1>4, <2>1 DEF Planned, sessionVars, plannerVars
<1>5. CASE Executing
  <2>1. planLen' = planLen
    BY <1>5, PlanStays DEF Executing
  <2> QED
    BY <1>5, <2>1 DEF Executing, sessionVars, plannerVars, loop
<1>6. CASE Drop
  <2>1. pc'[Self] = "idle" /\ hist'[Self] = S!NoHistory
    BY <1>6, OneProcess DEF Drop, S!RoundFails, S!Forget
  <2>2. stage = "planning" => place = "returned" /\ planOutcome = "error" /\ events = <<>>
    BY <1>6 DEF Drop, PP!Announcing, PP!Underway, XP!Init
  <2>3. stage = "executing" => outcome # "none"
    BY <1>6 DEF Drop
  <2> QED
    BY <1>6, <2>1, <2>2, <2>3 DEF Drop, plannerVars, executorVars
<1>7. CASE Save
  <2>1. pc'[Self] = "steps" /\ hist'[Self] = S!NoHistory
    BY <1>7, OneProcess DEF Save, S!SaveRound, S!Forget
  <2> QED
    BY <1>7, <2>1 DEF Save, plannerVars, executorVars
<1>8. CASE SaveFails
  <2>1. pc'[Self] = "idle" /\ hist'[Self] = S!NoHistory
    BY <1>8, OneProcess DEF SaveFails, S!SaveRoundFails, S!Forget
  <2> QED
    BY <1>8, <2>1 DEF SaveFails, plannerVars, executorVars
<1>9. CASE Saving
  <2>1. pc'[Self] \in {"steps", "touch", "idle"} /\ UNCHANGED hist
    BY <1>9, OneProcess DEF Saving, S!SaveStep, S!Touch, S!SaveFails
  <2> QED
    BY <1>9, <2>1 DEF Saving, plannerVars, executorVars
<1>10. CASE PrintReport
  BY <1>10 DEF PrintReport, sessionVars, plannerVars, executorVars
<1>11. CASE Exit
  <2>1. pc'[Self] = "down" /\ hist'[Self] = S!NoHistory
    BY <1>11, OneProcess DEF Exit, S!Exit
  <2> QED
    BY <1>11, <2>1 DEF Exit, CallPlanner
<1>12. CASE UNCHANGED vars
  BY <1>12 DEF vars, loop, sessionVars, plannerVars, executorVars, XP!Init, XP!NoContext
<1> QED
  BY <1>1, <1>2, <1>3, <1>4, <1>5, <1>6, <1>7, <1>8, <1>9, <1>10, <1>11, <1>12 DEF Next, Step

\* A call of the planner starts one.
LEMMA PlannerCalled ==
    ASSUME NEW sections \in SUBSET P!Parts, CallPlanner(sections)
    PROVE  PP!Init'
BY DEF CallPlanner, PP!Init, P!Parts, PP!Parts

\* All that is proved of it holds at its start.
LEMMA PlannerStarts == PP!Init' => PP!Announcing'
<1>1. PP!Init => PP!Announcing
  BY PP!AnnouncingInit, BoundsAssumption, TextsAssumption
     DEF PP!MaxPlanStepsAssumption, PP!TextsAssumption, P!Tokens, PP!Tokens
<1> QED
  BY <1>1, PTL

\* Every step keeps what is proved of the planner and the executor: it is one
\* of theirs, calls them anew, or leaves them alone.
LEMMA ComponentsStep ==
    ASSUME PP!Announcing, XP!Sound, [Next]_vars
    PROVE  PP!Announcing' /\ XP!Sound'
<1>1. CASE Start \/ Drop \/ Save \/ SaveFails \/ Saving \/ PrintReport \/ UNCHANGED vars
  <2>1. UNCHANGED <<plannerVars, executorVars>>
    BY <1>1 DEF Start, Drop, Save, SaveFails, Saving, PrintReport, vars
  <2> QED
    BY <2>1, PlannerStep, ExecutorStep
<1>2. CASE ReadQuery
  <2>1. \E sections \in SUBSET P!Parts : CallPlanner(sections)
    BY <1>2 DEF ReadQuery, Sections, P!Parts
  <2>2. CallExecutor(0) /\ 0 \in 0..MaxPlanSteps
    BY <1>2, BoundsAssumption DEF ReadQuery
  <2> QED
    BY <2>1, <2>2, PlannerCalled, PlannerStarts, ExecutorCalled, ExecutorStarts
<1>3. CASE Planning
  <2>1. UNCHANGED executorVars
    BY <1>3 DEF Planning
  <2>2. P!Call \/ P!React \/ P!Parse \/ P!ReturnError \/ P!ReturnPlan
    BY <1>3 DEF Planning
  <2> QED
    BY <2>1, <2>2, PlannerStep, ExecutorStep
<1>4. CASE Planned
  <2>1. UNCHANGED plannerVars /\ CallExecutor(planned)
    BY <1>4 DEF Planned
  <2>2. planned \in 0..MaxPlanSteps
    BY DEF PP!Announcing, PP!TypeOK
  <2> QED
    BY <2>1, <2>2, PlannerStep, ExecutorCalled, ExecutorStarts
<1>5. CASE Executing
  <2>1. UNCHANGED plannerVars /\ X!Next
    BY <1>5 DEF Executing
  <2> QED
    BY <2>1, PlannerStep, ExecutorStep
<1>6. CASE Exit
  <2>1. {} \in SUBSET P!Parts /\ CallPlanner({})
    BY <1>6 DEF Exit
  <2>2. CallExecutor(0) /\ 0 \in 0..MaxPlanSteps
    BY <1>6, BoundsAssumption DEF Exit
  <2> QED
    BY <2>1, <2>2, PlannerCalled, PlannerStarts, ExecutorCalled, ExecutorStarts
<1> QED
  BY <1>1, <1>2, <1>3, <1>4, <1>5, <1>6 DEF Next, Step

-----------------------------------------------------------------------------
\* What the stored rounds say is kept row by row, and the handle on a session
\* counts at least its rounds.
Stored ==
    /\ content \in [Ids -> Seq(Saved)]
    /\ \A s \in Ids : Len(content[s]) = Len(rounds[s])
    /\ pc[Self] # "down" => Len(rounds[sid[Self]]) <= roundNum[Self]

\* The row that a save adds to a session, and what it says.
LEMMA RowSaved ==
    ASSUME SP!TypeOK, XP!Sound, Loop, Stored, Save
    PROVE  LET s == sid[Self]
               entry == [query |-> query, findings |-> result.findings, opLog |-> result.opLog]
           IN  /\ s \in Ids /\ entry \in Saved
               /\ content' = [content EXCEPT ![s] = Append(@, entry)]
               /\ \E report \in BOOLEAN, n \in Nat :
                    rounds' = [rounds EXCEPT ![s] = Append(@,
                      [num |-> roundNum[Self] + 1, report |-> report, planLen |-> n])]
<1>1. pc[Self] = "running" /\ sid[Self] \in Ids
  BY OneProcess DEF Save, S!SaveRound
<1>2. result.findings \in Seq(Nat) /\ result.opLog \in Seq(Nat)
  BY DEF XP!Sound, XP!TypeOK, XP!Context
<1>3. query \in Nat
  BY BoundsAssumption DEF Loop
<1>4. \E report \in BOOLEAN, n \in 1..MaxPlanSteps :
        rounds' = [rounds EXCEPT ![sid[Self]] = Append(@,
          [num |-> roundNum[Self] + 1, report |-> report, planLen |-> n])]
  BY DEF Save, S!SaveRound
<1>5. \A n \in 1..MaxPlanSteps : n \in Nat
  BY BoundsAssumption
<1>6. content' = [content EXCEPT ![sid[Self]] = Append(@,
        [query |-> query, findings |-> result.findings, opLog |-> result.opLog])]
  BY DEF Save
<1> QED
  BY <1>1, <1>2, <1>3, <1>4, <1>5, <1>6 DEF Saved

\* Every step keeps the rounds and what they say in step.
LEMMA StoredStep ==
    ASSUME SP!TypeOK, SP!InStep, XP!Sound, Loop, Stored, [Next]_vars
    PROVE  Stored'
<1> USE DEF Stored
<1>1. CASE Start
  <2>1. PICK s \in Ids : S!NewSession(Self, s) \/ S!ResumeSession(Self, s)
    BY <1>1 DEF Start
  <2>2. Len(rounds[s]) \in Nat /\ UNCHANGED <<rounds, content>>
    BY <1>1, <2>1 DEF Start, S!NewSession, S!ResumeSession, S!Open, SP!TypeOK
  <2>3. sid'[Self] = s
    BY <2>1, OneProcess DEF S!NewSession, S!ResumeSession, S!Open
  <2>4. CASE S!NewSession(Self, s)
    <3>1. rounds[s] = <<>> /\ roundNum'[Self] = 0
      BY <2>4, OneProcess DEF S!NewSession, S!Open, SP!InStep, SP!Unopened
    <3> QED
      BY <2>2, <2>3, <3>1
  <2>5. CASE S!ResumeSession(Self, s)
    <3>1. roundNum'[Self] = Len(rounds[s])
      BY <2>5, OneProcess DEF S!ResumeSession, S!Open
    <3> QED
      BY <2>2, <2>3, <3>1
  <2> QED
    BY <2>1, <2>4, <2>5
<1>2. ASSUME UNCHANGED <<rounds, content, sid>>, pc[Self] # "down",
             roundNum' = roundNum
      PROVE  Stored'
  BY <1>2
<1>3. CASE ReadQuery
  <2>1. pc[Self] # "down" /\ UNCHANGED <<rounds, content, sid, roundNum>>
    BY <1>3 DEF ReadQuery, S!Ask, S!table
  <2> QED
    BY <1>2, <2>1
<1>4. CASE Planning \/ Planned \/ Executing \/ PrintReport \/ UNCHANGED vars
  <2>1. UNCHANGED <<rounds, content, sid, roundNum, pc>>
    BY <1>4 DEF Planning, Planned, Executing, PrintReport, vars, sessionVars, loop
  <2> QED
    BY <2>1
<1>5. CASE Drop
  <2>1. pc[Self] # "down" /\ UNCHANGED <<rounds, content, sid, roundNum>>
    BY <1>5 DEF Drop, S!RoundFails, S!table
  <2> QED
    BY <1>2, <2>1
<1>6. CASE Save
  <2> DEFINE s == sid[Self]
  <2>1. PICK r \in SP!Round, c \in Saved :
          /\ s \in Ids
          /\ content' = [content EXCEPT ![s] = Append(@, c)]
          /\ rounds' = [rounds EXCEPT ![s] = Append(@, r)]
    <3>1. \A report \in BOOLEAN, n \in Nat :
            [num |-> roundNum[Self] + 1, report |-> report, planLen |-> n] \in SP!Round
      BY OneProcess DEF SP!Round
    <3> QED
      BY <1>6, <3>1, RowSaved
  <2>2. UNCHANGED sid /\ pc[Self] # "down" /\ roundNum' = [roundNum EXCEPT ![Self] = @ + 1]
    BY <1>6 DEF Save, S!SaveRound
  <2>3. rounds \in [Ids -> Seq(SP!Round)]
    BY DEF SP!TypeOK
  <2>4. \A q \in Seq(SP!Round), x \in SP!Round : Len(Append(q, x)) = Len(q) + 1
    OBVIOUS
  <2>5. \A q \in Seq(Saved), x \in Saved : Append(q, x) \in Seq(Saved) /\ Len(Append(q, x)) = Len(q) + 1
    OBVIOUS
  <2>6. Len(rounds'[s]) = Len(rounds[s]) + 1 /\ Len(content'[s]) = Len(content[s]) + 1
    BY <2>1, <2>3, <2>4, <2>5
  <2>7. content' \in [Ids -> Seq(Saved)]
    BY <2>1, <2>5
  <2>8. roundNum'[Self] = roundNum[Self] + 1
    BY <2>2, OneProcess
  <2>9. \A t \in Ids \ {s} : content'[t] = content[t] /\ rounds'[t] = rounds[t]
    BY <2>1, <2>3
  <2>10. Len(rounds[s]) \in Nat /\ roundNum[Self] \in Nat
    BY <2>1, <2>3, OneProcess
  <2> QED
    BY <2>1, <2>2, <2>6, <2>7, <2>8, <2>9, <2>10
<1>7. CASE SaveFails
  <2>1. pc[Self] # "down" /\ UNCHANGED <<rounds, content, sid>>
        /\ roundNum' = [roundNum EXCEPT ![Self] = @ + 1]
    BY <1>7 DEF SaveFails, S!SaveRoundFails, S!table
  <2>2. roundNum'[Self] = roundNum[Self] + 1 /\ roundNum[Self] \in Nat
    BY <2>1, OneProcess
  <2>3. Len(rounds[sid[Self]]) \in Nat
    BY <2>1, OneProcess DEF SP!TypeOK
  <2> QED
    BY <2>1, <2>2, <2>3
<1>8. CASE Saving
  <2>1. pc[Self] # "down" /\ UNCHANGED <<rounds, content, sid, roundNum>>
    BY <1>8 DEF Saving, S!SaveStep, S!Touch, S!SaveFails, S!table
  <2> QED
    BY <1>2, <2>1
<1>9. CASE Exit
  <2>1. pc'[Self] = "down" /\ UNCHANGED <<rounds, content>>
    BY <1>9, OneProcess DEF Exit, S!Exit, S!table
  <2> QED
    BY <2>1
<1> QED
  BY <1>1, <1>3, <1>4, <1>5, <1>6, <1>7, <1>8, <1>9 DEF Next, Step

-----------------------------------------------------------------------------
\* All of it together.
Sound == SP!TypeOK /\ SP!InStep /\ PP!Announcing /\ XP!Sound /\ Loop /\ Stored

\* It holds at every moment.
LEMMA SoundInvariant == Spec => []Sound
<1>1. Init => PP!Announcing /\ XP!Sound /\ Loop /\ Stored
  <2> SUFFICES ASSUME Init PROVE PP!Announcing /\ XP!Sound /\ Loop /\ Stored
    OBVIOUS
  <2>1. PP!Announcing
    <3>1. PP!Init
      BY DEF Init, P!Init, PP!Init, P!Parts, PP!Parts
    <3> QED
      BY <3>1, PP!AnnouncingInit, BoundsAssumption, TextsAssumption
         DEF PP!MaxPlanStepsAssumption, PP!TextsAssumption, P!Tokens, PP!Tokens
  <2>2. XP!Sound
    <3>1. XP!Init
      BY DEF Init, X!Init, XP!Init, X!NoContext, XP!NoContext
    <3> QED
      BY <3>1, XP!SoundInit, BoundsAssumption
         DEF XP!MaxPlanStepsAssumption, XP!MaxRunStepsAssumption
  <2>3. Loop
    BY BoundsAssumption DEF Init, Loop, Stages, Busy, S!Init, P!Init
  <2>4. Stored
    BY DEF Init, Stored, S!Init
  <2> QED
    BY <2>1, <2>2, <2>3, <2>4
<1>2. /\ SP!TypeOK /\ SP!InStep /\ PP!Announcing /\ XP!Sound /\ Loop /\ Stored
      /\ [Next]_vars
      => (PP!Announcing /\ XP!Sound /\ Loop /\ Stored)'
  BY ComponentsStep, LoopStep, StoredStep
<1> QED
  BY <1>1, <1>2, Sessions, PTL DEF Spec, Sound

\* The variables always have their types, the components' included, and what
\* the stored rounds say is kept row by row (main.go:165-250).
THEOREM TypeCorrect == Spec => []TypeOK
<1>1. Sound => TypeOK
  <2> SUFFICES ASSUME Sound PROVE TypeOK
    OBVIOUS
  <2>1. S!TypeOK
    BY DEF Sound, S!TypeOK, SP!TypeOK, S!Live, SP!Live, S!Round, SP!Round, S!Hist, SP!Hist
  <2>2. P!TypeOK
    BY DEF Sound, PP!Announcing, P!TypeOK, PP!TypeOK, P!Parts, PP!Parts, P!Tokens, PP!Tokens,
           P!Events, PP!Events
  <2>3. X!TypeOK
    BY ExecutorTypes DEF Sound
  <2> QED
    BY <2>1, <2>2, <2>3 DEF Sound, Loop, Stored, TypeOK
<1> QED
  BY <1>1, SoundInvariant, PTL

-----------------------------------------------------------------------------
\* The ends of a sequence to which an element was put in front.
LEMMA FirstAndLast ==
    ASSUME NEW E, NEW e \in E, NEW s \in Seq(E)
    PROVE  /\ <<e>> \o s # <<>> /\ (<<e>> \o s)[1] = e
           /\ s = <<>> => <<e>> \o s = <<e>>
           /\ s # <<>> => (<<e>> \o s)[Len(<<e>> \o s)] = s[Len(s)]
<1> DEFINE w == <<e>> \o s
<1>1. <<e>> \in Seq(E) /\ Len(<<e>>) = 1 /\ <<e>>[1] = e
  OBVIOUS
<1>2. w \in Seq(E) /\ Len(w) = 1 + Len(s) /\ Len(s) \in Nat
  BY <1>1
<1>3. w[1] = e
  BY <1>1, <1>2
<1>4. \A i \in 1..Len(s) : w[1 + i] = s[i]
  BY <1>1, <1>2
<1>5. s # <<>> => w[1 + Len(s)] = s[Len(s)]
  <2>1. s # <<>> => Len(s) \in 1..Len(s)
    OBVIOUS
  <2> QED
    BY <1>4, <2>1
<1>6. s = <<>> => w = <<e>>
  OBVIOUS
<1>7. w # <<>>
  BY <1>2
<1> HIDE DEF w
<1>8. s # <<>> => w[Len(w)] = s[Len(s)]
  BY <1>2, <1>5
<1> QED
  BY <1>3, <1>6, <1>7, <1>8, Zenon DEF w

\* A subscriber can tell from the events of a query that is over how it ended,
\* unless its plan had no steps or its graph could not be set up
\* (planner.go:112-131, executor.go:57-72, 324-344, main.go:207-238).
THEOREM FeedsTellOutcomes == Spec => []FeedTellsOutcome
<1>1. Sound => FeedTellsOutcome
  <2> SUFFICES ASSUME Sound, stage \in {"prompt", "printing"}, place = "returned"
               PROVE  LET last == Feed[Len(Feed)].type IN
                      /\ Feed # <<>>
                      /\ planOutcome = "error" => Len(Feed) = 1 /\ last = "plan.error"
                      /\ planOutcome = "plan" =>
                           /\ Feed[1] = [type |-> "plan.created", steps |-> planLen]
                           /\ last = "report.generated" <=> outcome = "report"
                           /\ last = "error" <=> outcome = "error" /\ err \notin X!Refusals
                           /\ last = "plan.created" <=> outcome = "error" /\ err \in X!Refusals
                      /\ stage = "printing" => last = "report.generated"
    BY DEF FeedTellsOutcome
  <2>1. \/ stage = "prompt" /\ planOutcome = "error" /\ events = <<>>
        \/ planOutcome = "plan" /\ planned = planLen /\ outcome # "none"
             /\ (stage = "printing" => outcome = "report")
    BY DEF Sound, Loop
  <2>2. CASE stage = "prompt" /\ planOutcome = "error" /\ events = <<>>
    <3>1. planEvents = <<[type |-> "plan.error", steps |-> 0]>>
      BY <2>2 DEF Sound, PP!Announcing, PP!OneEvent
    <3>2. Feed = <<[type |-> "plan.error", steps |-> 0]>>
      BY <2>2, <3>1 DEF Feed
    <3> QED
      BY <2>2, <3>2
  <2>3. CASE /\ planOutcome = "plan" /\ planned = planLen /\ outcome # "none"
             /\ stage = "printing" => outcome = "report"
    <3> DEFINE first == [type |-> "plan.created", steps |-> planLen]
               Handed == XP!Events \cup {first}
    <3>1. planEvents = <<first>>
      BY <2>3 DEF Sound, PP!Announcing, PP!OneEvent
    <3>2. events \in Seq(XP!Events) /\ outcome \in {"report", "error"} /\ planLen \in Nat
      BY <2>3 DEF Sound, XP!Sound, XP!TypeOK
    <3>3. /\ outcome = "report" => err = "none"
          /\ IF err \in X!Refusals THEN events = <<>>
             ELSE /\ events # <<>>
                  /\ events[Len(events)] = IF outcome = "report" THEN XP!RunReport ELSE XP!RunError
      BY <2>3, XP!LastWord, BoundsAssumption
         DEF Sound, XP!Sound, XP!MaxPlanStepsAssumption, XP!MaxRunStepsAssumption,
             X!Refusals, XP!Refusals
    <3>4. events \in Seq(Handed) /\ first \in Handed
      BY <3>2
    <3> HIDE DEF first, Handed
    <3>6. /\ Feed # <<>> /\ Feed[1] = first
          /\ events = <<>> => Feed = <<first>>
          /\ events # <<>> => Feed[Len(Feed)] = events[Len(events)]
      BY <3>1, <3>4, FirstAndLast DEF Feed
    <3>7. CASE err \in X!Refusals
      <4>1. Feed[Len(Feed)] = first /\ outcome = "error"
        BY <3>2, <3>3, <3>6, <3>7 DEF X!Refusals
      <4> QED
        BY <2>3, <3>6, <3>7, <4>1 DEF first
    <3>8. CASE err \notin X!Refusals
      <4>1. Feed[Len(Feed)] = IF outcome = "report" THEN XP!RunReport ELSE XP!RunError
        BY <3>3, <3>6, <3>8
      <4>2. Feed[Len(Feed)].type = IF outcome = "report" THEN "report.generated" ELSE "error"
        BY <4>1 DEF XP!RunReport, XP!RunError, XP!Event
      <4> QED
        BY <2>3, <3>2, <3>6, <3>8, <4>2 DEF first
    <3> QED
      BY <3>7, <3>8
  <2> QED
    BY <2>1, <2>2, <2>3
<1> QED
  BY <1>1, SoundInvariant, PTL

-----------------------------------------------------------------------------
\* What the promise sees of the loop.
Shown == CASE stage = "down" -> "away"
           [] stage = "prompt" -> "ready"
           [] Busy -> "busy"
           [] OTHER -> "answered"
Memory == [s \in Ids |-> Entries(s, S!Rows(s))]
Told == IF Busy THEN Entries(sid[Self], hist[Self].seen) ELSE {}
Topics == IF Busy THEN history ELSE {}
Noted == [findings |-> findings, opLog |-> opLog]

\* The stage that the promise sees, now and after a step.
LEMMA ShownAt ==
    /\ stage = "down" => Shown = "away"
    /\ stage = "prompt" => Shown = "ready"
    /\ stage \in {"planning", "executing"} => Shown = "busy"
    /\ stage \in {"saving", "printing"} => Shown = "answered"
BY DEF Shown, Busy

LEMMA ShownNext ==
    /\ stage' = "down" => Shown' = "away"
    /\ stage' = "prompt" => Shown' = "ready"
    /\ stage' \in {"planning", "executing"} => Shown' = "busy"
    /\ stage' \in {"saving", "printing"} => Shown' = "answered"
BY DEF Shown, Busy

\* As long as no round is stored, the same is remembered.
LEMMA MemoryStays ==
    ASSUME UNCHANGED <<rounds, content>>
    PROVE  /\ Memory' = Memory
           /\ \A s, is : Entries(s, is)' = Entries(s, is)
BY DEF Memory, Entries, S!Rows

\* A step that moves neither the stage the promise sees nor what it is told,
\* remembers or notes is none of its steps.
LEMMA Unseen ==
    ASSUME UNCHANGED <<query, sid, hist, rounds, content, findings, opLog>>,
           Shown' = Shown, Busy' = Busy, Topics' = Topics
    PROVE  UNCHANGED Promise!vars
<1>1. Memory' = Memory /\ Told' = Told
  BY MemoryStays DEF Told
<1>2. Noted' = Noted
  BY DEF Noted
<1> QED
  BY <1>1, <1>2 DEF Promise!vars, Shown, Memory, Told, Topics, Noted

\* The program begins as the promise does.
LEMMA PromiseStarts == Init => Promise!Init
<1> SUFFICES ASSUME Init PROVE Promise!Init
  OBVIOUS
<1>1. stage = "down" /\ query = 0 /\ sid[Self] = NoId /\ hist[Self].ok = TRUE
      /\ findings = <<>> /\ opLog = <<>> /\ rounds = [s \in Ids |-> <<>>]
  BY DEF Init, S!Init, X!Init, S!NoHistory
<1>2. Shown = "away" /\ Told = {} /\ Topics = {} /\ ~Busy
  BY <1>1, ShownAt DEF Told, Topics, Busy
<1>3. Memory = [s \in Ids |-> {}]
  BY <1>1 DEF Memory, Entries, S!Rows
<1> QED
  BY <1>1, <1>2, <1>3 DEF Promise!Init, Promise!NoWork, Shown, Memory, Told, Topics

-----------------------------------------------------------------------------
\* The program is started: the user returns.
LEMMA StartReturns ==
    ASSUME Sound, Start PROVE Promise!Return
<1>1. PICK s \in Ids : S!NewSession(Self, s) \/ S!ResumeSession(Self, s)
  BY DEF Start
<1>2. sid'[Self] \in Ids /\ UNCHANGED <<rounds, hist>>
  <2>1. sid' = [sid EXCEPT ![Self] = s] /\ UNCHANGED <<rounds, hist>>
    BY <1>1 DEF S!NewSession, S!ResumeSession, S!Open
  <2> QED
    BY <2>1, OneProcess DEF Sound
<1>3. /\ stage = "down" /\ stage' = "prompt"
      /\ UNCHANGED <<query, content, findings, opLog>>
  BY DEF Start, executorVars
<1>4. Shown = "away" /\ Shown' = "ready" /\ Told' = Told /\ Topics' = Topics /\ Noted' = Noted
  BY <1>3, ShownAt, ShownNext DEF Told, Topics, Busy, Noted
<1>5. Memory' = Memory
  BY <1>2, <1>3, MemoryStays
<1> QED
  BY <1>2, <1>3, <1>4, <1>5 DEF Promise!Return, Shown, Memory, Told, Topics, Noted

\* What a query is told: all the rows of its session, or those read before the
\* query of the store broke off.
LEMMA HistoryRead ==
    ASSUME Sound, ReadQuery
    PROVE  /\ sid[Self] \in Ids
           /\ hist'[Self].ok \in BOOLEAN
           /\ hist'[Self].seen \subseteq S!Rows(sid[Self])
           /\ hist'[Self].ok => hist'[Self].seen = S!Rows(sid[Self])
<1> DEFINE s == sid[Self]
<1>1. s \in Ids /\ roundNum[Self] \in Nat /\ Len(rounds[s]) \in Nat
      /\ Len(rounds[s]) <= roundNum[Self]
  <2>1. SP!TypeOK /\ pc[Self] = "idle"
    BY DEF Sound, ReadQuery, S!Ask
  <2>2. s \in Ids /\ roundNum[Self] \in Nat
    BY <2>1, OneProcess
  <2>3. Len(rounds[s]) \in Nat
    BY <2>1, <2>2 DEF SP!TypeOK
  <2> QED
    BY <2>1, <2>2, <2>3 DEF Sound, Stored
<1>2. CASE roundNum[Self] = 0
  <2>1. hist'[Self] = S!NoHistory
    BY <1>2, OneProcess DEF Sound, ReadQuery, S!Ask
  <2>2. S!Rows(s) = {}
    BY <1>1, <1>2 DEF S!Rows
  <2> QED
    BY <1>1, <2>1, <2>2 DEF S!NoHistory
<1>3. CASE roundNum[Self] # 0
  <2> DEFINE Read(ok, seen) == [ok |-> ok, seen |-> seen, prev |-> S!Previous(s, seen)]
  <2>1. PICK h \in {Read(TRUE, S!Rows(s))} \cup {Read(FALSE, seen) : seen \in S!Scanned(s)} :
           hist' = [hist EXCEPT ![Self] = h]
    BY <1>3 DEF ReadQuery, S!Ask
  <2>2. hist'[Self] = h
    BY <2>1, OneProcess DEF Sound
  <2>3. \A seen \in S!Scanned(s) : seen \subseteq S!Rows(s)
    BY DEF S!Scanned
  <2>4. CASE h = Read(TRUE, S!Rows(s))
    BY <1>1, <2>2, <2>4
  <2>5. CASE \E seen \in S!Scanned(s) : h = Read(FALSE, seen)
    BY <1>1, <2>2, <2>3, <2>5
  <2> QED
    BY <2>1, <2>4, <2>5
<1> QED
  BY <1>2, <1>3

\* A query is read: it is told what is remembered, and its planner gets the
\* sections there is text for.
LEMMA ReadQueryAsks ==
    ASSUME Sound, ReadQuery PROVE Promise!Ask
<1> DEFINE s == sid[Self]
           seen == hist'[Self].seen
<1>1. /\ stage = "prompt" /\ stage' = "planning" /\ query' = query + 1
      /\ UNCHANGED <<content, rounds, sid>>
      /\ history' = Sections(s, seen) /\ findings' = <<>> /\ opLog' = <<>>
  BY DEF ReadQuery, S!Ask, S!table, CallPlanner, CallExecutor
<1>2. Shown = "ready" /\ Shown' = "busy" /\ Busy'
  BY <1>1, ShownAt, ShownNext DEF Busy
<1>3. Memory' = Memory /\ \A is : Entries(s, is)' = Entries(s, is)
  BY <1>1, MemoryStays
<1>4. Told' = Entries(s, seen) /\ Topics' = Sections(s, seen)
  BY <1>1, <1>2, <1>3 DEF Told, Topics, Entries
<1>5. Memory[s] = Entries(s, S!Rows(s))
  BY HistoryRead DEF Memory
<1>6. Told' \in SUBSET Memory[s] /\ (hist'[Self].ok => Told' = Memory[s])
  <2>1. \A a, b : a \subseteq b => Entries(s, a) \subseteq Entries(s, b)
    BY DEF Entries
  <2> QED
    BY <1>4, <1>5, <2>1, HistoryRead
<1>7. Topics' = {part \in Promise!Parts : \E entry \in Told' : Promise!Has(entry, part)}
  <2>1. Promise!Parts = {"findings", "opLog", "report"}
    BY DEF Promise!Parts
  <2> DEFINE EntryOf(i) == [query |-> content[s][i].query, findings |-> content[s][i].findings,
                                  opLog |-> content[s][i].opLog, report |-> rounds[s][i].report]
  <2>a. Told' = {EntryOf(i) : i \in seen}
    BY <1>4 DEF Entries
  <2>b. \A i \in seen : /\ Promise!Has(EntryOf(i), "findings") <=> content[s][i].findings # <<>>
                        /\ Promise!Has(EntryOf(i), "opLog") <=> content[s][i].opLog # <<>>
                        /\ Promise!Has(EntryOf(i), "report") <=> rounds[s][i].report
    BY DEF Promise!Has
  <2>c. \A part : (\E entry \in Told' : Promise!Has(entry, part))
                   <=> \E i \in seen : Promise!Has(EntryOf(i), part)
    BY <2>a
  <2> HIDE DEF EntryOf
  <2>2. \A part \in {"findings", "opLog"} :
          (\E entry \in Told' : Promise!Has(entry, part)) <=> \E i \in seen : content[s][i][part] # <<>>
    BY <2>b, <2>c
  <2>3. (\E entry \in Told' : Promise!Has(entry, "report")) <=> S!Reported(s, seen) # {}
    BY <2>b, <2>c DEF S!Reported
  <2> QED
    BY <1>4, <2>1, <2>2, <2>3 DEF Sections
<1> HIDE DEF s, seen
<1>8. Noted' = Promise!NoWork
  BY <1>1 DEF Noted, Promise!NoWork
<1> QED
  BY <1>1, <1>2, <1>3, <1>6, <1>7, <1>8, HistoryRead
     DEF s, seen, Promise!Ask, Shown, Memory, Told, Topics, Noted

\* What a step of the executor adds to the two notes.
LEMMA StepNotes ==
    ASSUME XP!Sound, X!Next
    PROVE  \/ UNCHANGED <<findings, opLog>>
           \/ /\ idx + 1 \in 1..MaxPlanSteps
              /\ findings' \in {findings, Append(findings, idx + 1)}
              /\ opLog' \in {opLog, Append(opLog, idx + 1)}
<1>1. CASE X!NormalParse
  <2>1. CASE X!Answer.text = "decodes"
    <3>1. idx + 1 < planLen /\ planLen \in 0..MaxPlanSteps /\ idx \in Nat
      BY <1>1 DEF X!NormalParse, X!Superstep, XP!Sound, XP!Control, XP!TypeOK, XP!NormalNodes
    <3>2. idx + 1 \in 1..MaxPlanSteps
      BY <3>1, BoundsAssumption
    <3> QED
      BY <1>1, <2>1, <3>2 DEF X!NormalParse, X!RejectAnswer, X!PanicAtAnswer, X!AcceptAnswer, X!Noted
  <2>2. CASE X!Answer.text # "decodes"
    BY <1>1, <2>2 DEF X!NormalParse, X!RejectAnswer, X!PanicAtAnswer, X!AcceptAnswer, X!state
  <2> QED
    BY <2>1, <2>2
<1>2. CASE X!Next /\ ~X!NormalParse
  BY <1>2 DEF X!Next, X!Call, X!ExceedMaxSteps, X!IsLast, X!NormalPrepare, X!NormalTemplate,
       X!NormalReact, X!FinalPrepare, X!FinalTemplate, X!FinalReact, X!FinalParse, X!Prepare,
       X!ReturnError, X!ReturnReport, X!Returned, X!state, X!vars
<1> QED
  BY <1>1, <1>2

\* The executor runs: its agents note something, or nothing is seen.
LEMMA ExecutingWorks ==
    ASSUME Sound, Executing PROVE Promise!Work \/ UNCHANGED Promise!vars
<1>1. /\ stage = "executing" /\ stage' = "executing" /\ X!Next
      /\ UNCHANGED <<query, sid, hist, rounds, content, history>>
  BY DEF Executing, sessionVars, plannerVars, loop
<1>2. Shown = "busy" /\ Shown' = "busy" /\ Busy' = Busy /\ Topics' = Topics
  BY <1>1, ShownAt, ShownNext DEF Busy, Topics
<1>3. CASE UNCHANGED <<findings, opLog>>
  BY <1>1, <1>2, <1>3, Unseen
<1>4. CASE /\ idx + 1 \in 1..MaxPlanSteps
           /\ findings' \in {findings, Append(findings, idx + 1)}
           /\ opLog' \in {opLog, Append(opLog, idx + 1)}
  <2>1. \E k \in 1..MaxPlanSteps :
          Noted' \in [findings : {findings, Append(findings, k)},
                     opLog : {opLog, Append(opLog, k)}]
    BY <1>4 DEF Noted
  <2>2. Memory' = Memory /\ Told' = Told
    BY <1>1, <1>2, MemoryStays DEF Told
  <2>3. Noted.findings = findings /\ Noted.opLog = opLog
    BY DEF Noted
  <2> QED
    BY <1>1, <1>2, <2>1, <2>2, <2>3 DEF Promise!Work, Shown, Memory, Told, Topics, Noted
<1> QED
  BY <1>1, <1>3, <1>4, StepNotes DEF Sound

\* The query is dropped: it fails.
LEMMA DropFails ==
    ASSUME Sound, Drop PROVE Promise!Fail
<1>1. /\ stage \in {"planning", "executing"} /\ stage' = "prompt"
      /\ UNCHANGED <<query, sid, rounds, content, findings, opLog>>
  BY DEF Drop, S!RoundFails, S!table, executorVars
<1>2. hist'[Self].ok = TRUE
  BY OneProcess DEF Sound, Drop, S!RoundFails, S!Forget, S!NoHistory
<1>3. Shown = "busy" /\ Shown' = "ready" /\ Told' = {} /\ Topics' = {} /\ Noted' = Noted
  BY <1>1, ShownAt, ShownNext DEF Told, Topics, Busy, Noted
<1>4. Memory' = Memory
  BY <1>1, MemoryStays
<1> QED
  BY <1>1, <1>2, <1>3, <1>4 DEF Promise!Fail, Promise!Forget, Shown, Memory, Told, Topics, Noted

\* A row more is an entry more, and the entries there were are the same.
LEMMA EntryAdded ==
    ASSUME NEW s \in Ids, NEW r \in SP!Round, NEW c \in Saved,
           rounds \in [Ids -> Seq(SP!Round)], content \in [Ids -> Seq(Saved)],
           Len(content[s]) = Len(rounds[s]),
           rounds' = [rounds EXCEPT ![s] = Append(@, r)],
           content' = [content EXCEPT ![s] = Append(@, c)]
    PROVE  Memory' = [Memory EXCEPT ![s] = @ \cup
             {[query |-> c.query, findings |-> c.findings, opLog |-> c.opLog, report |-> r.report]}]
<1> DEFINE n == Len(rounds[s])
           new == [query |-> c.query, findings |-> c.findings, opLog |-> c.opLog,
                   report |-> r.report]
           Was(i) == [query |-> content[s][i].query, findings |-> content[s][i].findings,
                      opLog |-> content[s][i].opLog, report |-> rounds[s][i].report]
           Is(i) == [query |-> content'[s][i].query, findings |-> content'[s][i].findings,
                     opLog |-> content'[s][i].opLog, report |-> rounds'[s][i].report]
<1>1. rounds[s] \in Seq(SP!Round) /\ content[s] \in Seq(Saved) /\ n \in Nat
  OBVIOUS
<1>2. /\ Len(rounds'[s]) = n + 1 /\ rounds'[s][n + 1] = r /\ content'[s][n + 1] = c
      /\ \A i \in 1..n : rounds'[s][i] = rounds[s][i] /\ content'[s][i] = content[s][i]
  <2>1. rounds'[s] = Append(rounds[s], r) /\ content'[s] = Append(content[s], c)
    OBVIOUS
  <2>2. ASSUME NEW E, NEW q \in Seq(E), NEW e \in E
        PROVE  /\ Len(Append(q, e)) = Len(q) + 1 /\ Append(q, e)[Len(q) + 1] = e
               /\ \A i \in 1..Len(q) : Append(q, e)[i] = q[i]
    OBVIOUS
  <2> QED
    BY <1>1, <2>1, <2>2
<1>3. Memory'[s] = Memory[s] \cup {new}
  <2>1. Memory[s] = {Was(i) : i \in 1..n}
    BY DEF Memory, Entries, S!Rows
  <2>2. Memory'[s] = {Is(i) : i \in 1..n + 1}
    BY <1>2 DEF Memory, Entries, S!Rows
  <2>3. Is(n + 1) = new /\ \A i \in 1..n : Is(i) = Was(i)
    BY <1>2
  <2>4. 1..n + 1 = (1..n) \cup {n + 1} /\ n + 1 \notin 1..n
    BY <1>1
  <2> HIDE DEF Was, Is, new
  <2>5. {Is(i) : i \in 1..n + 1} = {Was(i) : i \in 1..n} \cup {new}
    BY <2>3, <2>4
  <2> QED
    BY <2>1, <2>2, <2>5
<1>4. \A t \in Ids \ {s} : Memory'[t] = Memory[t]
  BY DEF Memory, Entries, S!Rows
<1>5. DOMAIN Memory = Ids /\ DOMAIN Memory' = Ids
  BY DEF Memory
<1> HIDE DEF new
<1>6. Memory' = [t \in Ids |-> Memory'[t]] /\ Memory = [t \in Ids |-> Memory[t]]
  BY DEF Memory
<1>7. Memory' = [Memory EXCEPT ![s] = @ \cup {new}]
  BY <1>3, <1>4, <1>5, <1>6
<1> QED
  BY <1>7 DEF new

\* The round is inserted: the query is answered, and remembered.
LEMMA SaveAnswers ==
    ASSUME Sound, Save PROVE Promise!Answer
<1> DEFINE s == sid[Self]
           c == [query |-> query, findings |-> result.findings, opLog |-> result.opLog]
<1>1. /\ stage = "executing" /\ outcome = "report" /\ stage' = "saving"
      /\ UNCHANGED <<query, sid, findings, opLog>>
  BY DEF Save, S!SaveRound, executorVars
<1>2. hist'[Self].ok = TRUE
  <2>1. hist' = [hist EXCEPT ![Self] = S!NoHistory]
    BY DEF Save, S!SaveRound, S!Forget
  <2> QED
    BY <2>1, OneProcess DEF Sound, S!NoHistory
<1>3. Shown = "busy" /\ Shown' = "answered" /\ Told' = {} /\ Topics' = {} /\ Noted' = Noted
  BY <1>1, ShownAt, ShownNext DEF Told, Topics, Busy, Noted
<1>4. result.findings = findings /\ result.opLog = opLog
  BY <1>1 DEF Sound, XP!Sound, XP!Collected, XP!Collection
<1>5. PICK report \in BOOLEAN, n \in Nat :
        /\ s \in Ids /\ c \in Saved /\ content' = [content EXCEPT ![s] = Append(@, c)]
        /\ rounds' = [rounds EXCEPT ![s] = Append(@,
             [num |-> roundNum[Self] + 1, report |-> report, planLen |-> n])]
  BY RowSaved DEF Sound
<1>6. [num |-> roundNum[Self] + 1, report |-> report, planLen |-> n] \in SP!Round
  BY OneProcess DEF Sound, SP!Round
<1>7. /\ rounds \in [Ids -> Seq(SP!Round)] /\ content \in [Ids -> Seq(Saved)]
      /\ Len(content[s]) = Len(rounds[s])
  BY <1>5 DEF Sound, SP!TypeOK, Stored
<1>8. Memory' = [Memory EXCEPT ![s] = @ \cup
        {[query |-> query, findings |-> findings, opLog |-> opLog, report |-> report]}]
  <2> DEFINE r == [num |-> roundNum[Self] + 1, report |-> report, planLen |-> n]
  <2>1. r \in SP!Round /\ r.report = report
    BY <1>6
  <2>2. c.query = query /\ c.findings = findings /\ c.opLog = opLog
    BY <1>4
  <2>3. rounds' = [rounds EXCEPT ![s] = Append(@, r)]
    BY <1>5
  <2> HIDE DEF r, c
  <2>4. Memory' = [Memory EXCEPT ![s] = @ \cup
          {[query |-> c.query, findings |-> c.findings, opLog |-> c.opLog, report |-> r.report]}]
    BY <1>5, <1>7, <2>1, <2>3, EntryAdded
  <2> QED
    BY <2>1, <2>2, <2>4
<1>9. Noted.findings = findings /\ Noted.opLog = opLog
  BY DEF Noted
<1> HIDE DEF s, c
<1> QED
  BY <1>1, <1>2, <1>3, <1>8, <1>9
     DEF s, Promise!Answer, Promise!Entry, Promise!Forget, Shown, Memory, Told, Topics, Noted

\* The insert failed: the query is answered, and not remembered.
LEMMA SaveFailsAnswers ==
    ASSUME Sound, SaveFails PROVE Promise!Answer
<1>1. /\ stage = "executing" /\ stage' = "printing"
      /\ UNCHANGED <<query, sid, rounds, content, findings, opLog>>
  BY DEF SaveFails, S!SaveRoundFails, S!table, executorVars
<1>2. hist'[Self].ok = TRUE
  <2>1. hist' = [hist EXCEPT ![Self] = S!NoHistory]
    BY DEF SaveFails, S!SaveRoundFails, S!Forget
  <2> QED
    BY <2>1, OneProcess DEF Sound, S!NoHistory
<1>3. Shown = "busy" /\ Shown' = "answered" /\ Told' = {} /\ Topics' = {} /\ Noted' = Noted
  BY <1>1, ShownAt, ShownNext DEF Told, Topics, Busy, Noted
<1>4. Memory' = Memory
  BY <1>1, MemoryStays
<1> QED
  BY <1>1, <1>2, <1>3, <1>4 DEF Promise!Answer, Promise!Forget, Shown, Memory, Told, Topics, Noted

\* The report is printed: shown.
LEMMA PrintReportShows ==
    ASSUME Sound, PrintReport PROVE Promise!Show
<1>1. /\ stage = "printing" /\ stage' = "prompt"
      /\ UNCHANGED <<query, sid, hist, rounds, content, findings, opLog>>
  BY DEF PrintReport, sessionVars, executorVars
<1>2. Shown = "answered" /\ Shown' = "ready" /\ Told' = Told /\ Topics' = Topics /\ Noted' = Noted
  BY <1>1, ShownAt, ShownNext DEF Told, Topics, Busy, Noted
<1>3. Memory' = Memory
  BY <1>1, MemoryStays
<1> QED
  BY <1>1, <1>2, <1>3 DEF Promise!Show, Shown, Memory, Told, Topics, Noted

\* The program ends: the user has left.
LEMMA ExitLeaves ==
    ASSUME Sound, Exit PROVE Promise!Leave
<1>1. /\ pc[Self] # "down" /\ stage' = "down" /\ findings' = <<>> /\ opLog' = <<>>
      /\ UNCHANGED <<query, rounds, content>>
  BY DEF Exit, S!Exit, S!Live, S!table, CallExecutor
<1>2. hist'[Self].ok = TRUE /\ sid'[Self] = NoId
  <2>1. /\ hist' = [hist EXCEPT ![Self] = S!NoHistory]
        /\ sid' = [sid EXCEPT ![Self] = NoId]
    BY DEF Exit, S!Exit
  <2> QED
    BY <2>1, OneProcess DEF Sound, S!NoHistory
<1>3. stage \in {"prompt", "planning", "executing", "saving", "printing"}
  BY <1>1 DEF Sound, Loop, Stages
<1>4. Shown # "away" /\ Shown' = "away" /\ Told' = {} /\ Topics' = {}
  BY <1>1, <1>3, ShownAt, ShownNext DEF Told, Topics, Busy
<1>5. Memory' = Memory /\ Noted' = Promise!NoWork
  BY <1>1, MemoryStays DEF Noted, Promise!NoWork
<1> QED
  BY <1>1, <1>2, <1>4, <1>5 DEF Promise!Leave, Promise!Forget, Shown, Memory, Told, Topics, Noted

\* The planner's steps, the hand-over of the plan and the rest of the save are
\* not seen.
LEMMA InnerSteps ==
    ASSUME Sound, Planning \/ Planned \/ Saving \/ UNCHANGED vars
    PROVE  UNCHANGED Promise!vars
<1>1. CASE Planning
  <2>1. stage = "planning" /\ UNCHANGED <<stage, query, sid, hist, rounds, content, findings, opLog>>
    BY <1>1 DEF Planning, sessionVars, executorVars, loop
  <2>2. UNCHANGED history
    BY <1>1 DEF Planning, P!Call, P!React, P!Parse, P!ReturnError, P!ReturnPlan
  <2>3. Shown' = Shown /\ Busy' = Busy /\ Topics' = Topics
    BY <2>1, <2>2 DEF Shown, Busy, Topics
  <2> QED
    BY <2>1, <2>3, Unseen
<1>2. CASE Planned
  <2>1. /\ stage = "planning" /\ stage' = "executing"
        /\ UNCHANGED <<query, sid, hist, rounds, content, history>>
        /\ findings' = <<>> /\ opLog' = <<>>
    BY <1>2 DEF Planned, sessionVars, plannerVars, CallExecutor
  <2>2. findings = <<>> /\ opLog = <<>>
    BY <2>1 DEF Sound, Loop, XP!Init
  <2>3. Shown' = Shown /\ Busy' = Busy /\ Topics' = Topics
    BY <2>1, ShownAt, ShownNext DEF Busy, Topics
  <2> QED
    BY <2>1, <2>2, <2>3, Unseen
<1>3. CASE Saving
  <2>1. /\ stage = "saving" /\ stage' \in {"saving", "printing"}
        /\ UNCHANGED <<query, sid, hist, rounds, content, findings, opLog>>
    BY <1>3 DEF Saving, S!SaveStep, S!Touch, S!SaveFails, S!table, executorVars
  <2>2. Shown' = Shown /\ Busy' = Busy /\ Topics' = Topics
    BY <2>1, ShownAt, ShownNext DEF Busy, Topics
  <2> QED
    BY <2>1, <2>2, Unseen
<1>4. CASE UNCHANGED vars
  <2>1. UNCHANGED <<stage, query, sid, hist, rounds, content, findings, opLog, history>>
    BY <1>4 DEF vars, sessionVars, plannerVars, executorVars, loop
  <2>2. Shown' = Shown /\ Busy' = Busy /\ Topics' = Topics
    BY <2>1 DEF Shown, Busy, Topics
  <2> QED
    BY <2>1, <2>2, Unseen
<1> QED
  BY <1>1, <1>2, <1>3, <1>4

\* The loop, its sessions, its planner and its executor together keep what
\* Conversation promises the user: whichever round failed, was saved in part or
\* cut off by the death of the process, a query is told exactly what the
\* answered ones of its session left behind, or was visibly told less, and an
\* answered query leaves behind exactly what its agents noted (main.go:200-240
\* with session.go:62-89, store.go:158-206, planner.go:104-110,
\* executor.go:345-357).
THEOREM ReplImplementsConversation == Spec => PromiseKept
<1>1. Sound /\ [Next]_vars => [Promise!Next]_(Promise!vars)
  <2> SUFFICES ASSUME Sound, [Next]_vars
               PROVE  Promise!Next \/ UNCHANGED Promise!vars
    OBVIOUS
  <2>1. CASE Start
    BY <2>1, StartReturns DEF Promise!Next
  <2>2. CASE ReadQuery
    BY <2>2, ReadQueryAsks DEF Promise!Next
  <2>3. CASE Executing
    BY <2>3, ExecutingWorks, Zenon DEF Promise!Next
  <2>4. CASE Drop
    BY <2>4, DropFails DEF Promise!Next
  <2>5. CASE Save
    BY <2>5, SaveAnswers DEF Promise!Next
  <2>6. CASE SaveFails
    BY <2>6, SaveFailsAnswers DEF Promise!Next
  <2>7. CASE PrintReport
    BY <2>7, PrintReportShows DEF Promise!Next
  <2>8. CASE Exit
    BY <2>8, ExitLeaves DEF Promise!Next
  <2>9. CASE Planning \/ Planned \/ Saving \/ UNCHANGED vars
    BY <2>9, InnerSteps
  <2> QED
    BY <2>1, <2>2, <2>3, <2>4, <2>5, <2>6, <2>7, <2>8, <2>9 DEF Next, Step
<1> QED
  BY <1>1, PromiseStarts, SoundInvariant, PTL DEF Spec, PromiseKept, Promise!Spec

-----------------------------------------------------------------------------
\* A reply is proper under both names.
LEMMA SameProper ==
    ASSUME NEW text
    PROVE  /\ P!FirstObject(text) = PP!FirstObject(text)
           /\ P!Cardinality(P!Fences(text)) = PP!Cardinality(PP!Fences(text))
           /\ P!Proper(text) <=> PP!Proper(text)
<1>1. P!FirstObject(text) = PP!FirstObject(text)
  BY SameText DEF P!FirstObject, PP!FirstObject
<1>2. \A s, b : P!Braces(s, b) = PP!Braces(s, b)
  BY DEF P!Braces, PP!Braces
<1>3. P!Fences(text) = PP!Fences(text)
  BY DEF P!Fences, PP!Fences
<1>4. \A s, u : /\ P!IsPrefix(s, u) <=> PP!IsPrefix(s, u)
                /\ P!IsSuffix(s, u) <=> PP!IsSuffix(s, u)
  BY DEF P!IsPrefix, PP!IsPrefix, P!IsSuffix, PP!IsSuffix, P!Reverse, PP!Reverse
<1>5. P!Ticks(3) = PP!Ticks(3)
  BY DEF P!Ticks, PP!Ticks
<1>6. \A A : P!Cardinality(A) = PP!Cardinality(A)
  BY DEF P!Cardinality, PP!Cardinality
<1>7. P!Proper(text) <=> PP!Proper(text)
  BY <1>1, <1>2, <1>3, <1>4, <1>5, <1>6 DEF P!Proper, PP!Proper
<1> QED
  BY <1>1, <1>3, <1>6, <1>7

\* What each component promises by itself it keeps in the loop, over sessions
\* that are left and resumed and calls that follow one another: the store's
\* rounds and histories, the plan of every answer, and the prompts, the result,
\* the budget and the events of every run (main.go:165-250).
THEOREM ComponentsHoldInLoop == Spec =>
    [](/\ S!AckedComplete /\ S!CleanNumbering /\ S!CleanHistory /\ S!OwnRoundsRemembered
       /\ P!OneEvent /\ P!ProperRepliesAreDecoded
       /\ X!ContextComplete /\ X!ResultComplete /\ X!LastStepIsFinal /\ X!StepBudget
       /\ X!EventProtocol)
<1>1. Sound => P!OneEvent /\ P!ProperRepliesAreDecoded
  BY SameText, SameProper DEF Sound, PP!Announcing, P!OneEvent, PP!OneEvent,
     P!ProperRepliesAreDecoded, PP!ProperRepliesAreDecoded
<1>2. Sound => /\ X!ContextComplete /\ X!ResultComplete /\ X!LastStepIsFinal /\ X!StepBudget
               /\ X!EventProtocol
  <2> SUFFICES ASSUME Sound
               PROVE  /\ X!ContextComplete /\ X!ResultComplete /\ X!LastStepIsFinal
                      /\ X!StepBudget /\ X!EventProtocol
    OBVIOUS
  <2>1. /\ XP!ContextComplete /\ XP!ResultComplete /\ XP!LastStepIsFinal /\ XP!StepBudget
        /\ XP!EventProtocol
    BY XP!SoundSays, BoundsAssumption
       DEF Sound, XP!MaxPlanStepsAssumption, XP!MaxRunStepsAssumption
  <2>2. \A context, n : X!CompleteUpTo(context, n) <=> XP!CompleteUpTo(context, n)
    BY DEF X!CompleteUpTo, XP!CompleteUpTo, X!Lists, XP!Lists, X!Wrote, XP!Wrote
  <2>3. X!ContextComplete /\ X!ResultComplete
    BY <2>1, <2>2 DEF X!ContextComplete, XP!ContextComplete, X!ResultComplete,
       XP!ResultComplete, X!NoContext, XP!NoContext
  <2>4. X!LastStepIsFinal /\ X!StepBudget
    BY <2>1 DEF X!LastStepIsFinal, XP!LastStepIsFinal, X!StepBudget, XP!StepBudget,
       X!NormalNodes, XP!NormalNodes, X!FinalNodes, XP!FinalNodes
  <2>5. X!Tails = XP!Tails /\ \A n : X!Trail(n) = XP!Trail(n)
    BY DEF X!Tails, XP!Tails, X!Refusals, XP!Refusals, X!Trail, XP!Trail, X!Event, XP!Event
  <2>6. X!EventProtocol
    BY <2>1, <2>5 DEF X!EventProtocol, XP!EventProtocol
  <2> QED
    BY <2>3, <2>4, <2>6
<1>3. SP!Spec => [](SP!AckedComplete /\ SP!CleanNumbering /\ SP!CleanHistory
                     /\ SP!OwnRoundsRemembered)
  <2>1. SP!Spec => []SP!AckedComplete
    BY SP!SavedRoundsHaveTheirSteps, BoundsAssumption, NoIdAssumption
       DEF SP!BoundsAssumption, SP!NoIdAssumption
  <2>2. SP!Spec => []SP!CleanNumbering
    BY SP!CleanSessionsAreNumbered, BoundsAssumption, NoIdAssumption
       DEF SP!BoundsAssumption, SP!NoIdAssumption
  <2>3. SP!Spec => []SP!CleanHistory
    BY SP!CleanHistoriesAreComplete, BoundsAssumption, NoIdAssumption
       DEF SP!BoundsAssumption, SP!NoIdAssumption
  <2>4. SP!Spec => []SP!OwnRoundsRemembered
    BY SP!OwnRoundsAreRemembered, BoundsAssumption, NoIdAssumption
       DEF SP!BoundsAssumption, SP!NoIdAssumption
  <2> QED
    BY <2>1, <2>2, <2>3, <2>4, PTL
<1>4. /\ SP!AckedComplete /\ SP!CleanNumbering /\ SP!CleanHistory /\ SP!OwnRoundsRemembered
      => S!AckedComplete /\ S!CleanNumbering /\ S!CleanHistory /\ S!OwnRoundsRemembered
  <2> USE DEF S!Rows, SP!Rows, S!Newest, SP!Newest, S!Reported, SP!Reported
  <2>1. SP!AckedComplete => S!AckedComplete
    BY DEF S!AckedComplete, SP!AckedComplete
  <2>2. SP!CleanNumbering => S!CleanNumbering
    BY DEF S!CleanNumbering, SP!CleanNumbering
  <2>3. SP!CleanHistory => S!CleanHistory
    BY DEF S!CleanHistory, SP!CleanHistory
  <2>4. SP!OwnRoundsRemembered => S!OwnRoundsRemembered
    BY DEF S!OwnRoundsRemembered, SP!OwnRoundsRemembered
  <2> QED
    BY <2>1, <2>2, <2>3, <2>4
<1> QED
  BY <1>1, <1>2, <1>3, <1>4, SessionSpec, SoundInvariant, PTL
=============================================================================
