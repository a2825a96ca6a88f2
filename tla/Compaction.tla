----------------------------- MODULE Compaction -----------------------------
(***************************************************************************)
(* The conversation of one agent run and its compaction by the summary     *)
(* middleware (internal/summary/summary.go): MessageModifier, which the    *)
(* ReAct agent of cmd/main.go calls before each model call and whose       *)
(* result replaces the conversation, and BeforeModel, the same for an adk  *)
(* agent, which differ in what a failure does.                             *)
(*                                                                         *)
(* A message is its role, its number in the order of the conversation, its *)
(* size in tokens and the ids of its tool calls; a summary has, in place   *)
(* of a text, the numbers of the messages it was made from. What the model *)
(* writes is left out. Messages are never nil here: neither agent makes    *)
(* one.                                                                    *)
(***************************************************************************)
EXTENDS Naturals, Sequences, FiniteSets, FiniteSetsExt

CONSTANTS
    MaxBefore,  \* SummaryMiddleware.maxBefore
    MaxRecent,  \* SummaryMiddleware.maxRecent
    Sizes,      \* sizes of messages, in tokens
    MaxCalls,   \* bound on the tool calls of one message
    MaxMade     \* bound on the messages of a run

ASSUME BudgetAssumption == MaxBefore \in Nat \ {0} /\ MaxRecent \in Nat \ {0}
ASSUME SizesAssumption == Sizes \subseteq Nat
ASSUME BoundsAssumption == MaxCalls \in Nat /\ MaxMade \in Nat

VARIABLES
    hook,       \* the function the agent calls
    messages,   \* the conversation
    made,       \* number of messages the run has added to it
    phase       \* "rewrite", "model", or how the run ended

vars == <<hook, messages, made, phase>>

-----------------------------------------------------------------------------
Roles == {"system", "user", "summary", "assistant", "tool"}
Message == [role : Roles, n : Nat, tokens : Nat, ids : SUBSET Nat, from : SUBSET Nat]

Msg(role, n, tokens, ids) ==
    [role |-> role, n |-> n, tokens |-> tokens, ids |-> ids, from |-> {}]

\* The size of some of the messages, given by their positions.
Tokens(positions) == MapThenSumSet(LAMBDA i : messages[i].tokens, positions)

\* Where position i comes among some positions.
Rank(positions, i) == Cardinality({j \in positions : j <= i})

\* Some of the messages, in their order.
At(positions) ==
    [k \in 1..Cardinality(positions) |->
        messages[CHOOSE i \in positions : Rank(positions, i) = k]]

\* Variant: the user messages are part of the rest.
PreambleSystemOnly == {i \in DOMAIN messages : i = 1 /\ messages[1].role = "system"}

\* The system message, if there is one, and the user messages after it.
Preamble == {i \in DOMAIN messages : \A j \in 1..i :
                \/ messages[j].role = "user"
                \/ j = 1 /\ messages[j].role = "system"}

\* Variant: an earlier summary is not recognised.
PreviousUnflagged == {}

\* The summary of an earlier compaction, if one follows.
Previous == {i \in DOMAIN messages \ Preamble :
                i - 1 \in Preamble \cup {0} /\ messages[i].role = "summary"}

Rest == DOMAIN messages \ (Preamble \cup Previous)

\* Variant: only the first result goes with its call.
AnswersFirst(i, j) ==
    /\ j = i + 1 /\ messages[i].role = "assistant"
    /\ messages[j].role = "tool" /\ messages[j].ids \subseteq messages[i].ids

\* Message j belongs with the tool calls of message i: between them are only
\* results of these calls, or results without an id.
Answers(i, j) ==
    /\ i < j /\ messages[i].role = "assistant" /\ messages[i].ids # {}
    /\ \A k \in i + 1 .. j :
         messages[k].role = "tool" /\ messages[k].ids \subseteq messages[i].ids

\* The blocks of the rest: calls with their results, or single messages. A
\* block is named by its first message.
Blocks == {i \in Rest : \A k \in Rest : ~Answers(k, i)}
Block(i) == {i} \cup {j \in Rest : Answers(i, j)}

\* The messages kept, when these blocks are.
Recent(kept) == UNION {Block(i) : i \in kept}

\* Variant: the budget is looked at before a block is added.
FitsOverrun(kept, i) == Tokens(Recent({b \in kept : b > i})) < MaxRecent

\* Block i fits the budget that the newer blocks kept leave.
Fits(kept, i) == Tokens(Recent({b \in kept : b > i})) + Tokens(Block(i)) <= MaxRecent

Older(kept) == Rest \ Recent(kept)

\* Variant: the summarizer is not given the previous summary.
SummaryWithoutPrevious(tokens, kept) ==
    [role |-> "summary", n |-> 0, tokens |-> tokens, ids |-> {},
     from |-> {messages[i].n : i \in Older(kept)}]

\* The summarizer makes one summary of the previous one and the older messages.
Summary(tokens, kept) ==
    [role |-> "summary", n |-> 0, tokens |-> tokens, ids |-> {},
     from |-> (UNION {messages[i].from : i \in Previous}) \cup {messages[i].n : i \in Older(kept)}]

-----------------------------------------------------------------------------
\* A run starts with the messages its prompt template makes: a system
\* message, and a user message in the planner's.
Init ==
    /\ hook \in {"MessageModifier", "BeforeModel"}
    /\ \E s, u \in Sizes :
         messages \in {<<Msg("system", 0, s, {})>>,
                       <<Msg("system", 0, s, {}), Msg("user", 0, u, {})>>}
    /\ made = 0
    /\ phase = "rewrite"

\* The conversation is within the threshold and stays as it is.
LeaveAlone ==
    /\ phase = "rewrite" /\ Tokens(DOMAIN messages) <= MaxBefore
    /\ phase' = "model"
    /\ UNCHANGED <<hook, messages, made>>

\* Variant: the new slice is made with a length in place of a capacity.
CompactIntoNils ==
    /\ phase = "rewrite" /\ Tokens(DOMAIN messages) > MaxBefore
    /\ messages' = [i \in DOMAIN messages |-> Msg("nil", 0, 0, {})]
                   \o At(Preamble) \o <<Summary(1, {})>>
    /\ phase' = "model"
    /\ UNCHANGED <<hook, made>>

\* The conversation exceeds the threshold: its preamble, a new summary, and the
\* recent messages take its place. From the newest block to the oldest, each
\* block that still fits the budget is kept.
Compact ==
    /\ phase = "rewrite" /\ Tokens(DOMAIN messages) > MaxBefore
    /\ \E tokens \in Sizes, kept \in SUBSET Blocks :
         /\ \A i \in Blocks : i \in kept <=> Fits(kept, i)
         /\ messages' = At(Preamble) \o <<Summary(tokens, kept)>> \o At(Recent(kept))
    /\ phase' = "model"
    /\ UNCHANGED <<hook, made>>

\* Counting the tokens or the call of the summarizer fails: MessageModifier
\* ends the program.
Fatal ==
    /\ phase = "rewrite" /\ hook = "MessageModifier"
    /\ phase' = "exited"
    /\ UNCHANGED <<hook, messages, made>>

\* BeforeModel returns the error, and the agent's run fails.
ReturnError ==
    /\ phase = "rewrite" /\ hook = "BeforeModel"
    /\ phase' = "failed"
    /\ UNCHANGED <<hook, messages, made>>

\* The agent (a library): the model answers with tool calls, and one result
\* per call is added in their order. Call k has the id of the number of its
\* result; a provider may leave the ids out.
Act ==
    /\ phase = "model"
    /\ \E calls \in 1..MaxCalls, named \in BOOLEAN, size \in Sizes :
       \E sizes \in [1..calls -> Sizes] :
         LET Id(k) == IF named THEN made + 1 + k ELSE 0
             Result(k) == Msg("tool", made + 1 + k, sizes[k], IF named THEN {Id(k)} ELSE {})
         IN  /\ made + 1 + calls <= MaxMade
             /\ messages' = Append(messages,
                    Msg("assistant", made + 1, size, {Id(k) : k \in 1..calls}))
                  \o [k \in 1..calls |-> Result(k)]
             /\ made' = made + 1 + calls
    /\ phase' = "rewrite"
    /\ UNCHANGED hook

\* The model gives its final answer, or the agent's step limit is reached.
Finish ==
    /\ phase = "model"
    /\ phase' = "done"
    /\ UNCHANGED <<hook, messages, made>>

Next == LeaveAlone \/ Compact \/ Fatal \/ ReturnError \/ Act \/ Finish

Spec == Init /\ [][Next]_vars

-----------------------------------------------------------------------------
Full == {messages[i].n : i \in DOMAIN messages} \ {0}
Condensed == UNION {messages[i].from : i \in DOMAIN messages}
Summaries == {i \in DOMAIN messages : messages[i].role = "summary"}
Said == {i \in DOMAIN messages : messages[i].role \in {"assistant", "tool"}}
Prompt == {<<i, messages[i]>> : i \in {j \in DOMAIN messages : messages[j].role \in {"system", "user"}}}

\* The types of the variables.
TypeOK ==
    /\ hook \in {"MessageModifier", "BeforeModel"}
    /\ messages \in Seq(Message)
    /\ made \in Nat
    /\ phase \in {"rewrite", "model", "done", "exited", "failed"}

\* Over any number of compactions every message of the run is in the
\* conversation, in full or condensed, and never both: the middleware keeps
\* the promise of Memory (summary.go:177-189, 205-232).
Promise == INSTANCE Memory WITH full <- Full, condensed <- Condensed
PromiseKept == Promise!Spec

\* The conversation is "[System Prompt] + [User Instructions] + [Summary] +
\* [Recent Messages]" (doc.go:74): one summary at most, behind the preamble, and
\* what follows it in the order it was said.
Shape ==
    /\ \A i \in Summaries : \A j \in 1 .. i - 1 : messages[j].role \in {"system", "user"}
    /\ \A i, j \in Said : i < j => messages[i].n < messages[j].n

\* No step of the run changes the system message and the user's
\* (summary.go:102-124, 225-226).
PreambleKept == [][UNCHANGED Prompt]_vars

\* "Keeps tool calls and responses paired together" (doc.go:30): whatever is
\* condensed, a call in the conversation is followed by all its results,
\* and a result follows its call.
PairsTogether == \A i \in Said :
    /\ messages[i].role = "assistant" =>
         \A id \in messages[i].ids \ {0} : \E j \in Said :
            messages[j].n = id /\ j - i = id - messages[i].n
    /\ messages[i].role = "tool" =>
         i - 1 \in Said /\ messages[i - 1].n = messages[i].n - 1

\* The model is called with a conversation within the threshold, or with one
\* whose recent messages keep to their budget (config.go:53-62).
WithinBudget == phase = "model" =>
    Tokens(DOMAIN messages) <= MaxBefore \/ Tokens(Said) <= MaxRecent

\* "Older messages are condensed into a single summary message" and "at most
\* this many tokens of recent messages (counted from newest to oldest) will
\* be retained" (config.go:57-58): what is condensed is older than what is
\* retained.
CondensedAreOlder == \A n \in Condensed : \A m \in Full : n < m
=============================================================================
