------------------------------- MODULE Agent -------------------------------
(***************************************************************************)
(* One call of the ReAct agent that the planner and the executors share:   *)
(* eino's graph of a model node and a tools node, run with one callback    *)
(* object (pkg/logger/logger_callback.go), and the tools of internal/tools.*)
(* The tools a message asks for run in goroutines of their own, which the  *)
(* tools node waits for; each of them, like each node and the graph, first *)
(* calls OnStart, whose cb.Step++ is a load and a store without a lock.    *)
(*                                                                         *)
(* The graph and its nodes are the library's. A message is left out but    *)
(* for the tools it calls.                                                 *)
(***************************************************************************)
EXTENDS Naturals, Sequences

CONSTANTS
    MaxCalls,       \* bound on the tools one message calls
    MaxAgentSteps   \* AgentConfig.MaxStep: nodes a run may take

ASSUME MaxCallsAssumption == MaxCalls \in Nat \ {0}
ASSUME MaxAgentStepsAssumption == MaxAgentSteps \in Nat

VARIABLES
    agent,      \* where the agent stands
    taken,      \* nodes run
    calls,      \* the tool calls of the message at hand
    step,       \* cb.Step
    starts      \* history variable: the calls of OnStart, those that could
                \* overlap another one apart

agentVars == <<agent, taken, calls, step, starts>>

-----------------------------------------------------------------------------
Tools == {"bash", "str_replace_editor"}

\* How the arguments of a call look to the bash tool.
Arguments == {"malformed", "empty", "command"}

\* A call of a tool: "waiting" for its goroutine, "called", "loaded" once
\* OnStart has read cb.Step, "running", and what it returned.
Call == [tool : Tools, args : Arguments, read : Nat,
         at : {"waiting", "called", "loaded", "running", "text", "error"}]

\* What a message may ask for. The editor's arguments make no difference.
Requests == {c \in [tool : Tools, args : Arguments, read : {0}, at : {"waiting"}] :
                c.tool = "str_replace_editor" => c.args = "command"}

\* The bash tool: arguments that are no JSON are an error, an empty command is
\* told to the model; a command that could not be run is told if the sandbox
\* calls it an internal error, and an error if not.
RunBash(args) ==
    CASE args = "malformed" -> {"error"}
      [] args = "empty" -> {"text"}
      [] OTHER -> {"text", "error"}

\* The wrapped editor: whatever goes wrong in it is told to the model.
RunSafely == {"text"}

Run(call) == IF call.tool = "bash" THEN RunBash(call.args) ELSE RunSafely

AgentInit ==
    /\ agent = "idle" /\ taken = 0 /\ calls = <<>>
    /\ step = 0 /\ starts = [alone |-> 0, shared |-> 0]

\* Variant: the callback object is shared by the runs.
CallAgentSharedCallback ==
    /\ agent = "idle"
    /\ agent' = "model"
    /\ taken' = 0 /\ calls' = <<>>
    /\ step' = step + 1
    /\ starts' = [alone |-> 1, shared |-> 0]

\* Generate is called with a new callback object; the graph starts.
CallAgent ==
    /\ agent = "idle"
    /\ agent' = "model"
    /\ taken' = 0 /\ calls' = <<>>
    /\ step' = 1
    /\ starts' = [alone |-> 1, shared |-> 0]

\* The graph runs its next node, whose OnStart nothing else overlaps.
Node(n) ==
    /\ agent = n
    /\ taken < MaxAgentSteps
    /\ taken' = taken + 1
    /\ step' = step + 1
    /\ starts' = [starts EXCEPT !.alone = @ + 1]

\* The model fails, answers, or calls tools, if only ones there are.
Model ==
    /\ Node("model")
    /\ \/ agent' \in {"failed", "answered"} /\ UNCHANGED calls
       \/ /\ agent' = "tools"
          /\ \E n \in 1..MaxCalls :
               calls' \in [1..n -> Requests]

\* The tools node starts the goroutines.
Dispatch ==
    /\ Node("tools")
    /\ agent' = "waiting"
    /\ calls' = [i \in DOMAIN calls |-> [calls[i] EXCEPT !.at = "called"]]

\* OnStart in the goroutine of call i reads the counter, then writes it.
Load(i) ==
    /\ calls[i].at = "called"
    /\ calls' = [calls EXCEPT ![i] = [@ EXCEPT !.at = "loaded", !.read = step]]
    /\ starts' = IF Len(calls) = 1 THEN [starts EXCEPT !.alone = @ + 1]
                 ELSE [starts EXCEPT !.shared = @ + 1]
    /\ UNCHANGED <<agent, taken, step>>

Store(i) ==
    /\ calls[i].at = "loaded"
    /\ calls' = [calls EXCEPT ![i].at = "running"]
    /\ step' = calls[i].read + 1
    /\ UNCHANGED <<agent, taken, starts>>

Return(i) ==
    /\ calls[i].at = "running"
    /\ \E at \in Run(calls[i]) : calls' = [calls EXCEPT ![i].at = at]
    /\ UNCHANGED <<agent, taken, step, starts>>

\* All goroutines have returned: an error of any of them ends the run, else
\* the model gets the texts.
Join ==
    /\ agent = "waiting"
    /\ \A i \in DOMAIN calls : calls[i].at \in {"text", "error"}
    /\ agent' = IF \E i \in DOMAIN calls : calls[i].at = "error" THEN "failed" ELSE "model"
    /\ UNCHANGED <<taken, calls, step, starts>>

\* No node is left.
ExceedAgentSteps ==
    /\ agent \in {"model", "tools"}
    /\ taken = MaxAgentSteps
    /\ agent' = "failed"
    /\ UNCHANGED <<taken, calls, step, starts>>

AgentNext ==
    \/ Model \/ Dispatch \/ Join \/ ExceedAgentSteps
    \/ \E i \in DOMAIN calls : Load(i) \/ Store(i) \/ Return(i)

AgentTypeOK ==
    /\ agent \in {"idle", "model", "tools", "waiting", "answered", "failed"}
    /\ taken \in 0..MaxAgentSteps
    /\ calls \in Seq(Call)
    /\ step \in Nat
    /\ starts \in [alone : Nat, shared : Nat]
=============================================================================
