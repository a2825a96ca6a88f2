------------------------------ MODULE Planner ------------------------------
(***************************************************************************)
(* One call of Planner.Run (internal/planner/planner.go): the session's    *)
(* history and the query become the user's message, the ReAct agent        *)
(* answers it, and the plan is decoded from the answer.                    *)
(***************************************************************************)
EXTENDS ExtractJSON

CONSTANTS
    Texts,          \* what an agent may answer
    MaxPlanSteps    \* bound on the length of a plan

ASSUME TextsAssumption == Texts \subseteq Seq(Tokens)
ASSUME MaxPlanStepsAssumption == MaxPlanSteps \in Nat

VARIABLES
    history,    \* the parts of the session's history that are not empty
    place,      \* where Run stands
    input,      \* the user's message: its sections, in order
    reply,      \* the agent's answer
    object,     \* what of it is handed to the JSON decoder
    planLen,    \* number of steps of the plan
    events,     \* what was handed to the emitter
    outcome     \* what Run returned: "none" yet, "plan" or "error"

vars == <<history, place, input, reply, object, planLen, events, outcome>>

-----------------------------------------------------------------------------
Parts == {"findings", "opLog", "report"}
Events == [type : {"plan.created", "plan.error"}, steps : 0..MaxPlanSteps]

Init ==
    /\ history \in SUBSET Parts
    /\ place = "called"
    /\ input = <<>> /\ reply = <<>> /\ object = <<>> /\ planLen = 0
    /\ events = <<>> /\ outcome = "none"

\* A part of the history has a section if it is not empty.
Section(part) == IF part \in history THEN <<part>> ELSE <<>>

\* The history's sections, in a fixed order, come before the query.
Call ==
    /\ place = "called"
    /\ place' = "planner-react"
    /\ input' = Section("findings") \o Section("opLog") \o Section("report") \o <<"query">>
    /\ UNCHANGED <<history, reply, object, planLen, events, outcome>>

\* The agent answers, or its run fails.
React ==
    /\ place = "planner-react"
    /\ \/ place' = "planner-parse" /\ reply' \in Texts
       \/ place' = "failed" /\ UNCHANGED reply
    /\ UNCHANGED <<history, input, object, planLen, events, outcome>>

\* An answer without an object fails. Anything but one whole object does not
\* decode; an object may, into a plan of any length, also none. What becomes
\* of a panic is up to the graph, a library.
Parse ==
    /\ place = "planner-parse"
    /\ IF SlicePanics(reply)
       THEN place' \in {"failed", "crashed"} /\ UNCHANGED <<object, planLen>>
       ELSE /\ object' = Extract(reply)
            /\ \/ place' = "failed" /\ UNCHANGED planLen
               \/ IsObject(object') /\ place' = "planned" /\ planLen' \in 0..MaxPlanSteps
    /\ UNCHANGED <<history, input, reply, events, outcome>>

\* Variant: a failure is announced as a plan without steps.
ReturnErrorAsPlan ==
    /\ place = "failed"
    /\ place' = "returned"
    /\ events' = Append(events, [type |-> "plan.created", steps |-> 0])
    /\ outcome' = "error"
    /\ UNCHANGED <<history, input, reply, object, planLen>>

\* Invoke returned an error: announced and returned.
ReturnError ==
    /\ place = "failed"
    /\ place' = "returned"
    /\ events' = Append(events, [type |-> "plan.error", steps |-> 0])
    /\ outcome' = "error"
    /\ UNCHANGED <<history, input, reply, object, planLen>>

\* Variant: a step too many is announced.
ReturnPlanMiscounted ==
    /\ place = "planned"
    /\ place' = "returned"
    /\ events' = Append(events, [type |-> "plan.created", steps |-> planLen + 1])
    /\ outcome' = "plan"
    /\ UNCHANGED <<history, input, reply, object, planLen>>

\* The plan is announced and returned.
ReturnPlan ==
    /\ place = "planned"
    /\ place' = "returned"
    /\ events' = Append(events, [type |-> "plan.created", steps |-> planLen])
    /\ outcome' = "plan"
    /\ UNCHANGED <<history, input, reply, object, planLen>>

\* Run has returned, or the process is gone.
Done == place \in {"returned", "crashed"} /\ UNCHANGED vars

Next == Call \/ React \/ Parse \/ ReturnError \/ ReturnPlan \/ Done

Spec == Init /\ [][Next]_vars

-----------------------------------------------------------------------------
\* The types of the variables.
TypeOK ==
    /\ history \in SUBSET Parts
    /\ place \in {"called", "planner-react", "planner-parse", "failed", "planned",
                  "returned", "crashed"}
    /\ input \in Seq(Parts \cup {"query"})
    /\ reply \in Seq(Tokens) /\ object \in Seq(Tokens)
    /\ planLen \in 0..MaxPlanSteps
    /\ events \in Seq(Events)
    /\ outcome \in {"none", "plan", "error"}

\* What the text handling makes of the answers it is meant for. A proper answer
\* never goes wrong: the decoder is handed its object, all of it and nothing
\* else. An answer as the prompts ask for it, one object and nothing around it
\* (planner.md:170-174, normal_execulator.md:172-176), is handed on as it is
\* exactly if it has not two fences in it: fences in its own strings are taken
\* for fences around it, and it is cut to what lies between them, or the
\* slicing panics (utils.go:9-32, planner.go:67-72).
ProperRepliesAreDecoded ==
    place \in {"planned", "failed", "crashed"} =>
        /\ Proper(reply) =>
             \E span \in FirstObject(reply) : object = SubSeq(reply, span[1], span[2])
        /\ IsObject(reply) => (object = reply <=> Cardinality(Fences(reply)) < 2)

\* A run that returns has handed exactly one event to the emitter, and the
\* event says what the run returned: a plan of as many steps, or an error; a
\* plan was then decoded from one whole object (planner.go:112-132).
OneEvent ==
    /\ outcome = "plan" =>
         events = <<[type |-> "plan.created", steps |-> planLen]>> /\ IsObject(object)
    /\ outcome = "error" => events = <<[type |-> "plan.error", steps |-> 0]>> /\ planLen = 0
    /\ outcome = "none" => events = <<>>
=============================================================================
