------------------------------ MODULE PlanRun ------------------------------
(***************************************************************************)
(* What running a plan promises its caller, without the graph that does    *)
(* it: the steps of a plan are done one at a time and in order, every step *)
(* but the last may leave a note of what it found and one of what it did,  *)
(* the last step writes the report from all the notes left before it, and  *)
(* the caller gets the report with the same notes or an error and nothing. *)
(* Executor implements this.                                               *)
(***************************************************************************)
EXTENDS Naturals, Sequences

CONSTANT MaxPlanSteps   \* bound on the length of a plan

VARIABLES
    planLen,    \* number of steps of the plan being run
    done,       \* number of steps done
    notes,      \* [findings, opLog]: the steps that left a note, in order
    basis,      \* the notes the report was written from
    kept,       \* the notes handed to the caller with the report
    outcome     \* "none" while running, then "report" or "error"

vars == <<planLen, done, notes, basis, kept, outcome>>

NoNotes == [findings |-> <<>>, opLog |-> <<>>]

\* The notes after step i, which may add to each list or leave it alone.
NotesAfter(i) ==
    [findings : {notes.findings, Append(notes.findings, i)},
     opLog    : {notes.opLog, Append(notes.opLog, i)}]

Init ==
    /\ planLen \in 0..MaxPlanSteps
    /\ done = 0
    /\ notes = NoNotes
    /\ basis = NoNotes
    /\ kept = NoNotes
    /\ outcome = "none"

\* A step that is not the last one is done.
CompleteStep ==
    /\ outcome = "none"
    /\ done + 1 < planLen
    /\ done' = done + 1
    /\ notes' \in NotesAfter(done + 1)
    /\ UNCHANGED <<planLen, basis, kept, outcome>>

\* The last step is done: the report is written from all the notes.
Report ==
    /\ outcome = "none"
    /\ done + 1 = planLen
    /\ done' = planLen
    /\ basis' = notes
    /\ kept' = notes
    /\ outcome' = "report"
    /\ UNCHANGED <<planLen, notes>>

\* The run gives up, whatever was done; the caller gets none of the notes.
Fail ==
    /\ outcome = "none"
    /\ outcome' = "error"
    /\ UNCHANGED <<planLen, done, notes, basis, kept>>

Next == CompleteStep \/ Report \/ Fail

Spec == Init /\ [][Next]_vars
=============================================================================
