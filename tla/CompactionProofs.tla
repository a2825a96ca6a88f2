-------------------------- MODULE CompactionProofs --------------------------
(***************************************************************************)
(* The safety properties of Compaction, for every threshold, budget and    *)
(* number of tool calls: whatever blocks a compaction keeps, nothing is    *)
(* lost or there twice, calls stay with their results, and the prompt and  *)
(* the shape of the conversation stay.                                     *)
(*                                                                         *)
(* That a conversation keeps its layout and every result stays in the      *)
(* block of its call is inductive. A compaction moves the positions it     *)
(* keeps, in order and without gaps inside a block (Compacted): that is    *)
(* all the rest needs to know of it, whichever blocks fit the budget.      *)
(*                                                                         *)
(* That the budget is kept needs to know what the fold in Tokens adds up.  *)
(* It is read off a function that adds in another order and exists by      *)
(* induction on the number of positions (AddsExists). Induction itself is  *)
(* the least-number principle applied to the numbers that are left out.    *)
(***************************************************************************)
EXTENDS Compaction, FiniteSetTheorems, WellFoundedInduction, TLAPS

USE BudgetAssumption, SizesAssumption, BoundsAssumption

-----------------------------------------------------------------------------
\* Positions are counted without gaps and in their order.
LEMMA RankFacts ==
    ASSUME NEW n \in Nat, NEW S \in SUBSET (1..n)
    PROVE  /\ Cardinality(S) \in Nat
           /\ \A x \in S : Rank(S, x) \in 1..Cardinality(S)
           /\ \A x, y \in S : x < y => Rank(S, x) < Rank(S, y)
           /\ \A k \in 1..Cardinality(S) : \E x \in S : Rank(S, x) = k
           /\ \A x, y \in S : x <= y /\ x..y \subseteq S
                                => Rank(S, y) = Rank(S, x) + (y - x)
<1> DEFINE Below(x) == {j \in S : j <= x}
<1>0. \A x \in S : x \in Nat
  OBVIOUS
<1>1. IsFiniteSet(S) /\ Cardinality(S) \in Nat
  <2>1. 1 \in Int /\ n \in Int
    OBVIOUS
  <2>2. IsFiniteSet(1..n)
    BY <2>1, FS_Interval
  <2> QED
    BY <2>2, FS_Subset, FS_CardinalityType
<1>2. ASSUME NEW x \in S
      PROVE  /\ IsFiniteSet(Below(x))
             /\ Rank(S, x) = Cardinality(Below(x))
             /\ Rank(S, x) \in 1..Cardinality(S)
  <2>1. IsFiniteSet(Below(x)) /\ Cardinality(Below(x)) <= Cardinality(S)
    <3>1. Below(x) \in SUBSET S
      OBVIOUS
    <3> HIDE DEF Below
    <3> QED
      BY <1>1, <3>1, FS_Subset
  <2>2. Cardinality(Below(x)) \in Nat /\ Cardinality(Below(x)) # 0
    <3>1. x \in Below(x)
      BY <1>0
    <3> QED
      BY <2>1, <3>1, FS_CardinalityType, FS_EmptySet
  <2> QED
    BY <1>1, <2>1, <2>2 DEF Rank
<1>3. ASSUME NEW x \in S, NEW y \in S, x < y PROVE Rank(S, x) < Rank(S, y)
  <2>1. Below(x) \in SUBSET Below(y) /\ y \in Below(y) /\ y \notin Below(x)
    <3>1. x \in Nat /\ y \in Nat /\ x < y
      BY <1>0, <1>3
    <3>2. \A j \in S : j <= x => j <= y
      BY <1>0, <3>1
    <3>3. y <= y /\ ~(y <= x)
      BY <3>1
    <3> QED
      BY <3>2, <3>3
  <2>2. Cardinality(Below(x)) <= Cardinality(Below(y))
        /\ Cardinality(Below(x)) # Cardinality(Below(y))
    <3>1. Below(x) # Below(y)
      BY <2>1
    <3>2. IsFiniteSet(Below(y))
      BY <1>2
    <3> HIDE DEF Below
    <3> QED
      BY <2>1, <3>1, <3>2, FS_Subset
  <2> QED
    BY <1>1, <1>2, <2>2
<1>4. ASSUME NEW k \in 1..Cardinality(S) PROVE \E x \in S : Rank(S, x) = k
  <2> DEFINE T == 1..Cardinality(S)
             f == [x \in S |-> Rank(S, x)]
  <2>1. f \in [S -> T]
    BY <1>2
  <2>2. ASSUME NEW x \in S, NEW y \in S, f[x] = f[y] PROVE x = y
    <3>1. Rank(S, x) = Rank(S, y)
      BY <2>2
    <3>2. Rank(S, x) \in Nat
      <4>1. Rank(S, x) \in 1..Cardinality(S)
        BY <1>2
      <4> QED
        BY <1>1, <4>1
    <3>3. ~(x < y) /\ ~(y < x)
      BY <1>3, <3>1, <3>2
    <3> QED
      BY <1>0, <3>3
  <2>3. f \in Injection(S, T)
    BY <2>1, <2>2 DEF Injection, IsInjective
  <2>4. IsFiniteSet(T) /\ Cardinality(T) = Cardinality(S)
    BY <1>1, FS_Interval
  <2>5. f \in Surjection(S, T)
    BY <2>3, <2>4, FS_Injection
  <2> QED
    BY <2>5 DEF Surjection
<1>5. ASSUME NEW x \in S, NEW y \in S, x <= y, x..y \subseteq S
      PROVE  Rank(S, y) = Rank(S, x) + (y - x)
  <2>1. Below(y) = Below(x) \cup (x + 1 .. y)
    <3>1. x \in Nat /\ y \in Nat /\ x <= y
      BY <1>0, <1>5
    <3>2. \A j \in x + 1 .. y : j \in S /\ j <= y
      BY <1>5, <3>1
    <3>3. \A j \in S : j <= y <=> (j <= x \/ j \in x + 1 .. y)
      BY <1>0, <3>1
    <3> QED
      BY <3>2, <3>3
  <2>2. Below(x) \cap (x + 1 .. y) = {}
    BY <1>0
  <2>3. IsFiniteSet(x + 1 .. y) /\ Cardinality(x + 1 .. y) = y - x
    <3>1. x + 1 \in Int /\ y \in Int
      BY <1>0
    <3>2. /\ IsFiniteSet(x + 1 .. y)
          /\ Cardinality(x + 1 .. y) = IF x + 1 > y THEN 0 ELSE y - (x + 1) + 1
      BY <3>1, FS_Interval
    <3>3. x \in Nat /\ y \in Nat /\ x <= y
      BY <1>0, <1>5
    <3> QED
      BY <3>2, <3>3
  <2>4. Cardinality(Below(x) \cup (x + 1 .. y)) = Cardinality(Below(x)) + (y - x) - 0
    <3>1. IsFiniteSet(Below(x))
      BY <1>2
    <3> DEFINE Between == x + 1 .. y
    <3>2. Cardinality(Below(x) \cap Between) = 0
      BY <2>2, FS_EmptySet
    <3>3. IsFiniteSet(Between)
      BY <2>3
    <3> HIDE DEF Below, Between
    <3>4. Cardinality(Below(x) \cup Between)
            = Cardinality(Below(x)) + Cardinality(Between) - 0
      BY <3>1, <3>2, <3>3, FS_Union
    <3> QED
      BY <2>3, <3>4 DEF Between
  <2>5. Cardinality(Below(x)) \in Nat /\ Rank(S, x) = Cardinality(Below(x))
        /\ Rank(S, y) = Cardinality(Below(y))
    BY <1>1, <1>2
  <2> HIDE DEF Below
  <2> QED
    BY <1>0, <2>1, <2>4, <2>5
<1> QED
  BY <1>1, <1>2, <1>3, <1>4, <1>5

\* The messages at some positions, in their order.
LEMMA AtFacts ==
    ASSUME messages \in Seq(Message), NEW S \in SUBSET DOMAIN messages
    PROVE  /\ At(S) \in Seq(Message)
           /\ Len(At(S)) = Cardinality(S)
           /\ \A x \in S : At(S)[Rank(S, x)] = messages[x]
<1>1. DOMAIN messages = 1..Len(messages) /\ Len(messages) \in Nat
  OBVIOUS
<1>2. Cardinality(S) \in Nat
  BY <1>1, RankFacts
<1>3. ASSUME NEW k \in 1..Cardinality(S)
      PROVE  (CHOOSE i \in S : Rank(S, i) = k) \in S
  BY <1>1, RankFacts
<1>4. ASSUME NEW x \in S
      PROVE  (CHOOSE i \in S : Rank(S, i) = Rank(S, x)) = x
  <2>1. \A y \in S : Rank(S, y) = Rank(S, x) => y = x
    <3> SUFFICES ASSUME NEW y \in S, Rank(S, y) = Rank(S, x), y # x PROVE FALSE
      OBVIOUS
    <3>1. /\ Rank(S, x) \in 1..Cardinality(S)
          /\ x < y => Rank(S, x) < Rank(S, y)
          /\ y < x => Rank(S, y) < Rank(S, x)
      BY <1>1, RankFacts
    <3> QED
      BY <1>1, <3>1
  <2> QED
    BY <2>1
<1>5. \A x \in S : Rank(S, x) \in 1..Cardinality(S)
  BY <1>1, RankFacts
<1>6. At(S) \in [1..Cardinality(S) -> Message]
  BY <1>1, <1>3 DEF At
<1>7. At(S) \in Seq(Message) /\ Len(At(S)) = Cardinality(S)
  BY <1>2, <1>6
<1>8. ASSUME NEW x \in S PROVE At(S)[Rank(S, x)] = messages[x]
  BY <1>4, <1>5 DEF At
<1> QED
  BY <1>7, <1>8

-----------------------------------------------------------------------------
\* The messages of the prompt, by their positions.
Heads == {i \in DOMAIN messages : messages[i].role \in {"system", "user"}}

\* The prompt comes first, and a system message before all others.
Layout ==
    /\ \A i \in Heads : \A j \in 1 .. i - 1 : j \in Heads
    /\ \A i \in DOMAIN messages : messages[i].role = "system" => i = 1

\* The run's messages are numbered, only a summary is made of some, and it is
\* made of none that is there.
Contents ==
    /\ \A i \in Said : messages[i].n \in 1..made
    /\ \A i \in DOMAIN messages \ Said : messages[i].n = 0
    /\ \A i \in DOMAIN messages \ Summaries : messages[i].from = {}
    /\ Condensed \subseteq 1..made
    /\ Full \cap Condensed = {}

\* A call is followed by its results in its own block, and every result is in
\* the block of a call, right behind the message made before it.
Calls == \A i \in Said :
    /\ messages[i].role = "assistant" =>
         /\ messages[i].ids # {}
         /\ \A id \in messages[i].ids \ {0} :
              \E j \in Said : /\ Answers(i, j)
                              /\ messages[j].n = id
                              /\ j - i = id - messages[i].n
    /\ messages[i].role = "tool" =>
         /\ i - 1 \in Said /\ messages[i - 1].n = messages[i].n - 1
         /\ \E a \in Said : Answers(a, i)

IInv == TypeOK /\ Shape /\ Layout /\ Contents /\ Calls
\* The conversation is the prompt, the summary if there is one, and what the
\* run has said: this is how the middleware divides it.
LEMMA Parts ==
    ASSUME IInv
    PROVE  /\ Preamble = Heads
           /\ Previous = Summaries
           /\ Rest = Said
           /\ Heads \cap Said = {} /\ Summaries \cap Said = {}
           /\ DOMAIN messages = Heads \cup Summaries \cup Said
           /\ Heads = 1..Cardinality(Heads)
           /\ Cardinality(Heads) \in Nat
           /\ \A i \in Heads : Rank(Heads, i) = i
<1> USE DEF IInv
<1>1. DOMAIN messages = 1..Len(messages) /\ Len(messages) \in Nat
  BY DEF TypeOK
<1>2. ASSUME NEW i \in DOMAIN messages PROVE messages[i].role \in Roles
  <2>1. messages[i] \in Message
    BY <1>1 DEF TypeOK
  <2> QED
    BY <2>1 DEF Message
<1>3. Preamble = Heads
  <2>1. ASSUME NEW i \in Preamble PROVE i \in Heads
    BY <1>1 DEF Preamble, Heads
  <2>2. ASSUME NEW i \in Heads PROVE i \in Preamble
    <3>1. \A j \in 1..i : j \in Heads
      BY <1>1 DEF Layout, Heads
    <3>2. \A j \in 1..i : \/ messages[j].role = "user"
                          \/ j = 1 /\ messages[j].role = "system"
      BY <3>1 DEF Layout, Heads
    <3> QED
      BY <3>2 DEF Preamble, Heads
  <2> QED
    BY <2>1, <2>2
<1>4. /\ Heads \cap Said = {} /\ Summaries \cap Said = {} /\ Heads \cap Summaries = {}
      /\ DOMAIN messages = Heads \cup Summaries \cup Said
  BY <1>2 DEF Heads, Said, Summaries, Roles
<1>5. Previous = Summaries
  <2>1. ASSUME NEW i \in Summaries PROVE i - 1 \in Preamble \cup {0}
    BY <1>1, <1>3 DEF Shape, Summaries, Heads
  <2> QED
    BY <1>3, <1>4, <2>1 DEF Previous, Summaries
<1>6. Rest = Said
  BY <1>3, <1>4, <1>5 DEF Rest
<1>7. Cardinality(Heads) \in Nat /\ \A i \in Heads : Rank(Heads, i) = i
  <2>1. Heads \in SUBSET (1..Len(messages))
    BY <1>1 DEF Heads
  <2>2. ASSUME NEW i \in Heads PROVE Rank(Heads, i) = i
    <3>1. {j \in Heads : j <= i} = 1..i
      BY <1>1, <2>1 DEF Layout
    <3>2. i \in Nat /\ i >= 1
      BY <1>1, <2>1
    <3>3. Cardinality(1..i) = i
      BY <3>2, FS_Interval
    <3> QED
      BY <3>1, <3>3 DEF Rank
  <2> QED
    BY <1>1, <2>1, <2>2, RankFacts
<1>8. Heads = 1..Cardinality(Heads)
  <2>1. Heads \in SUBSET (1..Len(messages))
    BY <1>1 DEF Heads
  <2>2. /\ \A i \in Heads : Rank(Heads, i) \in 1..Cardinality(Heads)
        /\ \A k \in 1..Cardinality(Heads) : \E i \in Heads : Rank(Heads, i) = k
    BY <1>1, <2>1, RankFacts
  <2> QED
    BY <1>7, <2>2
<1> QED
  BY <1>3, <1>4, <1>5, <1>6, <1>7, <1>8

\* What is between a call and one of its results is a result of it as well,
\* and no result is one of two calls.
LEMMA AnswersFacts ==
    ASSUME TypeOK, NEW a \in DOMAIN messages, NEW j \in DOMAIN messages, Answers(a, j)
    PROVE  /\ a < j
           /\ messages[a].role = "assistant" /\ messages[j].role = "tool"
           /\ \A k \in a + 1 .. j : k \in DOMAIN messages /\ Answers(a, k)
           /\ \A b \in DOMAIN messages : Answers(b, j) => b = a
<1>1. DOMAIN messages = 1..Len(messages) /\ Len(messages) \in Nat
  BY DEF TypeOK
<1>2. a \in Nat /\ j \in Nat /\ a < j /\ messages[a].role = "assistant"
  BY <1>1 DEF Answers
<1>3. messages[j].role = "tool"
  BY <1>2 DEF Answers
<1>4. ASSUME NEW k \in a + 1 .. j PROVE k \in DOMAIN messages /\ Answers(a, k)
  <2>1. k \in DOMAIN messages /\ a < k /\ (a + 1 .. k) \subseteq (a + 1 .. j)
    BY <1>1, <1>2
  <2> QED
    BY <2>1 DEF Answers
<1>5. ASSUME NEW b \in DOMAIN messages, Answers(b, j) PROVE b = a
  <2>1. b \in Nat /\ b < j /\ messages[b].role = "assistant"
    BY <1>1, <1>5 DEF Answers
  <2>2. CASE a < b
    <3>1. b \in a + 1 .. j
      BY <1>2, <2>1, <2>2
    <3> QED
      BY <2>1, <3>1 DEF Answers
  <2>3. CASE b < a
    <3>1. a \in b + 1 .. j
      BY <1>2, <2>1, <2>3
    <3> QED
      BY <1>2, <1>5, <3>1 DEF Answers
  <2> QED
    BY <1>2, <2>1, <2>2, <2>3
<1> QED
  BY <1>2, <1>3, <1>4, <1>5

\* A block is kept as a whole or not at all.
LEMMA KeptBlocks ==
    ASSUME IInv, NEW kept \in SUBSET Blocks
    PROVE  /\ Recent(kept) \subseteq Said
           /\ \A a, j \in Said : Answers(a, j) => (a \in Recent(kept) <=> j \in Recent(kept))
<1> USE DEF IInv
<1>1. Rest = Said /\ Said \subseteq DOMAIN messages
  BY Parts DEF Said
<1>2. Recent(kept) \subseteq Said
  BY <1>1 DEF Recent, Block, Blocks
<1>3. ASSUME NEW b \in kept PROVE b \in Said /\ messages[b].role = "assistant"
  <2>1. b \in Said /\ \A k \in Said : ~Answers(k, b)
    BY <1>1 DEF Blocks
  <2> QED
    BY <2>1 DEF Calls, Said
<1>4. ASSUME NEW a \in Said, NEW j \in Said, Answers(a, j)
      PROVE  a \in Recent(kept) <=> j \in Recent(kept)
  <2>1. messages[a].role = "assistant" /\ messages[j].role = "tool"
    BY <1>1, <1>4, AnswersFacts
  <2>2. ASSUME a \in Recent(kept) PROVE j \in Recent(kept)
    <3>1. PICK b \in kept : a \in Block(b)
      BY <2>2 DEF Recent
    <3>2. a = b \/ Answers(b, a)
      BY <3>1 DEF Block
    <3>3. ~Answers(b, a)
      BY <1>1, <1>3, <2>1, AnswersFacts
    <3> QED
      BY <1>1, <1>4, <3>2, <3>3 DEF Recent, Block
  <2>3. ASSUME j \in Recent(kept) PROVE a \in Recent(kept)
    <3>1. PICK b \in kept : j \in Block(b)
      BY <2>3 DEF Recent
    <3>2. Answers(b, j)
      BY <1>3, <2>1, <3>1 DEF Block
    <3>3. b = a
      BY <1>1, <1>3, <1>4, <3>2, AnswersFacts
    <3> QED
      BY <3>3 DEF Recent, Block
  <2> QED
    BY <2>2, <2>3
<1> QED
  BY <1>2, <1>4
-----------------------------------------------------------------------------
\* The types of what a message holds.
LEMMA MessageTypes ==
    ASSUME TypeOK, NEW i \in DOMAIN messages
    PROVE  /\ i \in Nat \ {0} /\ messages[i] \in Message
           /\ messages[i].role \in Roles /\ messages[i].n \in Nat
           /\ messages[i].tokens \in Nat
           /\ messages[i].ids \subseteq Nat /\ messages[i].from \subseteq Nat
<1>1. i \in Nat \ {0} /\ messages[i] \in Message
  BY DEF TypeOK
<1>2. \A m \in Message : /\ m.role \in Roles /\ m.n \in Nat /\ m.tokens \in Nat
                         /\ m.ids \subseteq Nat /\ m.from \subseteq Nat
  BY DEF Message
<1> QED
  BY <1>1, <1>2

\* What a compaction makes of the conversation: the first p messages stay, the
\* summary s comes next, and the messages at K follow, where f moves them.
Moved(p, s, K, f) ==
    /\ Heads = 1..p
    /\ messages' \in Seq(Message)
    /\ \A i \in 1..p : i \in DOMAIN messages' /\ messages'[i] = messages[i]
    /\ p + 1 \in DOMAIN messages' /\ messages'[p + 1] = s
    /\ \A x \in K : f[x] \in DOMAIN messages' /\ p + 1 < f[x] /\ messages'[f[x]] = messages[x]
    /\ \A i \in DOMAIN messages' : i \in 1..p \/ i = p + 1 \/ \E x \in K : i = f[x]
    /\ \A x, y \in K : x < y => f[x] < f[y]
    /\ \A x, y \in K : x <= y /\ x..y \subseteq K => f[y] = f[x] + (y - x)

\* The new summary is a message.
LEMMA SummaryType ==
    ASSUME IInv, NEW tokens \in Sizes, NEW kept \in SUBSET Blocks
    PROVE  Summary(tokens, kept) \in Message
<1>1. \A i \in DOMAIN messages : messages[i].n \in Nat /\ messages[i].from \subseteq Nat
  BY MessageTypes DEF IInv
<1>2. Previous \subseteq DOMAIN messages /\ Older(kept) \subseteq DOMAIN messages
  BY DEF Previous, Older, Rest
<1>3. Summary(tokens, kept).from \subseteq Nat
  <2> DEFINE known == UNION {messages[i].from : i \in Previous}
             new == {messages[i].n : i \in Older(kept)}
  <2>1. known \subseteq Nat
    BY <1>1, <1>2
  <2>2. new \subseteq Nat
    BY <1>1, <1>2
  <2>3. Summary(tokens, kept).from = known \cup new
    BY Zenon DEF Summary
  <2> HIDE DEF known, new
  <2> QED
    BY <2>1, <2>2, <2>3
<1>4. Summary(tokens, kept) = [role |-> "summary", n |-> 0, tokens |-> tokens, ids |-> {},
                               from |-> Summary(tokens, kept).from]
  BY DEF Summary
<1>5. \A from \in SUBSET Nat : [role |-> "summary", n |-> 0, tokens |-> tokens, ids |-> {},
                               from |-> from] \in Message
  BY DEF Message, Roles
<1> QED
  BY <1>3, <1>4, <1>5

\* An element between two sequences.
LEMMA Between ==
    ASSUME NEW S, NEW a \in Seq(S), NEW e \in S, NEW b \in Seq(S)
    PROVE  /\ a \o <<e>> \o b \in Seq(S)
           /\ Len(a \o <<e>> \o b) = Len(a) + 1 + Len(b)
           /\ \A i \in 1..Len(a) : (a \o <<e>> \o b)[i] = a[i]
           /\ (a \o <<e>> \o b)[Len(a) + 1] = e
           /\ \A k \in 1..Len(b) : (a \o <<e>> \o b)[Len(a) + 1 + k] = b[k]
<1> DEFINE c == a \o <<e>>
<1>1. /\ c \in Seq(S) /\ Len(c) = Len(a) + 1 /\ c[Len(a) + 1] = e
      /\ \A i \in 1..Len(a) : c[i] = a[i]
  OBVIOUS
<1>2. Len(a) \in Nat /\ Len(b) \in Nat
  OBVIOUS
<1> HIDE DEF c
<1>3. /\ c \o b \in Seq(S) /\ Len(c \o b) = Len(c) + Len(b)
      /\ \A i \in 1..Len(c) : (c \o b)[i] = c[i]
      /\ \A k \in 1..Len(b) : (c \o b)[Len(c) + k] = b[k]
  BY <1>1
<1>4. /\ \A i \in 1..Len(a) : i \in 1..Len(c)
      /\ Len(a) + 1 \in 1..Len(c)
  BY <1>1, <1>2
<1> QED
  BY <1>1, <1>3, <1>4 DEF c

\* This is what a compaction does, whatever blocks it keeps.
LEMMA Compacted ==
    ASSUME IInv, NEW tokens \in Sizes, NEW kept \in SUBSET Blocks,
           messages' = At(Preamble) \o <<Summary(tokens, kept)>> \o At(Recent(kept))
    PROVE  \E p \in Nat, f \in [Recent(kept) -> Nat] :
              Moved(p, Summary(tokens, kept), Recent(kept), f)
<1> DEFINE K == Recent(kept)
           p == Cardinality(Heads)
           f == [x \in K |-> p + 1 + Rank(K, x)]
           s == Summary(tokens, kept)
<1>1. /\ messages \in Seq(Message) /\ Len(messages) \in Nat
      /\ DOMAIN messages = 1..Len(messages)
  BY DEF IInv, TypeOK
<1>2. K \in SUBSET DOMAIN messages /\ Heads \in SUBSET DOMAIN messages
  BY KeptBlocks DEF Said, Heads
<1>3. /\ Preamble = Heads /\ p \in Nat /\ Heads = 1..p
      /\ \A i \in Heads : Rank(Heads, i) = i
  BY Parts
<1>4. s \in Message
  BY SummaryType
<1>5. /\ At(Heads) \in Seq(Message) /\ Len(At(Heads)) = p
      /\ \A i \in 1..p : At(Heads)[i] = messages[i]
  BY <1>1, <1>2, <1>3, AtFacts
<1>6. /\ At(K) \in Seq(Message) /\ Len(At(K)) = Cardinality(K)
      /\ \A x \in K : At(K)[Rank(K, x)] = messages[x]
  BY <1>1, <1>2, AtFacts
<1> HIDE DEF K, p, s
<1>7. /\ Cardinality(K) \in Nat
      /\ \A x \in K : Rank(K, x) \in 1..Cardinality(K)
      /\ \A x, y \in K : x < y => Rank(K, x) < Rank(K, y)
      /\ \A k \in 1..Cardinality(K) : \E x \in K : Rank(K, x) = k
      /\ \A x, y \in K : x <= y /\ x..y \subseteq K => Rank(K, y) = Rank(K, x) + (y - x)
  <2>1. K \in SUBSET (1..Len(messages))
    BY <1>1, <1>2
  <2> QED
    BY <1>1, <2>1, RankFacts
<1>8. messages' = At(Heads) \o <<s>> \o At(K)
  BY <1>3 DEF K, s
<1>9. /\ messages' \in Seq(Message) /\ DOMAIN messages' = 1 .. p + 1 + Cardinality(K)
      /\ \A i \in 1..p : messages'[i] = messages[i]
      /\ messages'[p + 1] = s
      /\ \A k \in 1..Cardinality(K) : messages'[p + 1 + k] = At(K)[k]
  <2>1. /\ messages' \in Seq(Message) /\ Len(messages') = p + 1 + Cardinality(K)
        /\ \A i \in 1..p : messages'[i] = At(Heads)[i]
        /\ messages'[p + 1] = s
        /\ \A k \in 1..Cardinality(K) : messages'[p + 1 + k] = At(K)[k]
    <3> DEFINE a == At(Heads)
               b == At(K)
               c == a \o <<s>> \o b
    <3>1. a \in Seq(Message) /\ b \in Seq(Message) /\ Len(a) = p /\ Len(b) = Cardinality(K)
      BY <1>5, <1>6
    <3>2. messages' = c
      BY <1>8
    <3> HIDE DEF a, b
    <3>3. /\ c \in Seq(Message)
          /\ Len(c) = Len(a) + 1 + Len(b)
          /\ \A i \in 1..Len(a) : c[i] = a[i]
          /\ c[Len(a) + 1] = s
          /\ \A k \in 1..Len(b) : c[Len(a) + 1 + k] = b[k]
      <4>1. a \in Seq(Message) /\ b \in Seq(Message) /\ s \in Message
        BY <1>4, <3>1
      <4> QED
        BY <4>1, Between
    <3> HIDE DEF c
    <3>4. /\ messages' \in Seq(Message) /\ Len(messages') = p + 1 + Cardinality(K)
          /\ \A i \in 1..p : messages'[i] = a[i]
          /\ messages'[p + 1] = s
          /\ \A k \in 1..Cardinality(K) : messages'[p + 1 + k] = b[k]
      BY <3>1, <3>2, <3>3
    <3> QED
      BY <3>4 DEF a, b
  <2>2. DOMAIN messages' = 1..Len(messages')
    BY <2>1
  <2>3. \A i \in 1..p : messages'[i] = messages[i]
    BY <1>5, <2>1
  <2> QED
    BY <2>1, <2>2, <2>3
<1>10. f \in [K -> Nat] /\ \A x \in K : f[x] = p + 1 + Rank(K, x)
  <2>1. \A x \in K : p + 1 + Rank(K, x) \in Nat
    BY <1>3, <1>7
  <2> QED
    BY <2>1
<1> HIDE DEF f
<1>11. \A x \in K : f[x] \in DOMAIN messages' /\ p + 1 < f[x] /\ messages'[f[x]] = messages[x]
  <2> SUFFICES ASSUME NEW x \in K
               PROVE  f[x] \in DOMAIN messages' /\ p + 1 < f[x] /\ messages'[f[x]] = messages[x]
    OBVIOUS
  <2>1. Rank(K, x) \in 1..Cardinality(K) /\ f[x] = p + 1 + Rank(K, x)
    BY <1>7, <1>10
  <2>2. messages'[f[x]] = At(K)[Rank(K, x)]
    BY <1>9, <2>1
  <2>3. f[x] \in 1 .. p + 1 + Cardinality(K) /\ p + 1 < f[x]
    BY <1>3, <1>7, <2>1
  <2> QED
    BY <1>6, <1>9, <2>2, <2>3
<1>12. ASSUME NEW i \in DOMAIN messages', i \notin 1..p, i # p + 1
       PROVE  \E x \in K : i = f[x]
  <2>1. i - (p + 1) \in 1..Cardinality(K)
    BY <1>3, <1>7, <1>9, <1>12
  <2>2. PICK x \in K : Rank(K, x) = i - (p + 1)
    BY <1>7, <2>1
  <2> QED
    BY <1>3, <1>9, <1>10, <2>2
<1>13. \A x, y \in K : x < y => f[x] < f[y]
  BY <1>3, <1>7, <1>10
<1>14. \A x, y \in K : x <= y /\ x..y \subseteq K => f[y] = f[x] + (y - x)
  <2> SUFFICES ASSUME NEW x \in K, NEW y \in K, x <= y, x..y \subseteq K
               PROVE  f[y] = f[x] + (y - x)
    OBVIOUS
  <2>1. Rank(K, y) = Rank(K, x) + (y - x) /\ Rank(K, x) \in Nat
    BY <1>7
  <2>2. x \in Nat /\ y \in Nat
    BY <1>1, <1>2
  <2> QED
    BY <1>3, <1>10, <2>1, <2>2
<1>15. p + 1 \in DOMAIN messages' /\ \A i \in 1..p : i \in DOMAIN messages'
  BY <1>3, <1>7, <1>9
<1>16. Moved(p, s, K, f)
  BY <1>3, <1>9, <1>11, <1>12, <1>13, <1>14, <1>15 DEF Moved
<1> QED
  BY <1>3, <1>10, <1>16 DEF K, s
-----------------------------------------------------------------------------
\* What the parts of the conversation become.
LEMMA MovedParts ==
    ASSUME IInv, NEW p \in Nat, NEW s, NEW K \in SUBSET Said, NEW f \in [K -> Nat],
           Moved(p, s, K, f), s.role = "summary"
    PROVE  /\ Heads' = Heads
           /\ Summaries' = {p + 1}
           /\ Said' = {f[x] : x \in K}
           /\ Prompt' = Prompt
<1>1. ASSUME NEW i \in DOMAIN messages'
      PROVE  \/ i \in 1..p /\ i \in DOMAIN messages /\ messages[i].role \in {"system", "user"}
             \/ i = p + 1 /\ messages'[i].role = "summary"
             \/ \E x \in K : i = f[x] /\ messages'[i].role \in {"assistant", "tool"}
  <2>1. CASE i \in 1..p
    BY <2>1 DEF Moved, Heads
  <2>2. CASE i = p + 1
    BY <2>2 DEF Moved
  <2>3. CASE \E x \in K : i = f[x]
    BY <2>3 DEF Moved, Said
  <2> QED
    BY <2>1, <2>2, <2>3 DEF Moved
<1>2. \A i \in 1..p : i \in DOMAIN messages' /\ messages'[i] = messages[i]
  BY DEF Moved
<1>3. p + 1 \in DOMAIN messages' /\ \A x \in K : f[x] \in DOMAIN messages'
  BY DEF Moved
<1>4. \A i \in DOMAIN messages' : i \in 1..p <=> messages'[i].role \in {"system", "user"}
  BY <1>1, <1>2 DEF Moved
<1>5. Heads' = 1..p /\ Heads = 1..p
  BY <1>2, <1>4 DEF Moved, Heads
<1>6. Summaries' = {p + 1}
  BY <1>1, <1>2, <1>3 DEF Summaries, Moved
<1>7. Said' = {f[x] : x \in K}
  <2>1. ASSUME NEW i \in Said' PROVE \E x \in K : i = f[x]
    BY <1>1, <1>2, <2>1 DEF Said
  <2>2. ASSUME NEW x \in K PROVE f[x] \in Said'
    BY <1>3 DEF Said, Moved
  <2> QED
    BY <2>1, <2>2
<1>8. Prompt' = Prompt
  <2>1. Prompt = {<<i, messages[i]>> : i \in Heads} /\ Prompt' = {<<i, messages'[i]>> : i \in Heads'}
    BY DEF Prompt, Heads
  <2> QED
    BY <1>2, <1>5, <2>1
<1> QED
  BY <1>5, <1>6, <1>7, <1>8

\* The layout and the shape stay.
LEMMA MovedShape ==
    ASSUME IInv, NEW p \in Nat, NEW s, NEW K \in SUBSET Said, NEW f \in [K -> Nat],
           Moved(p, s, K, f), s.role = "summary"
    PROVE  Shape' /\ Layout'
<1>1. /\ Heads' = Heads /\ Heads = 1..p
      /\ Summaries' = {p + 1}
      /\ Said' = {f[x] : x \in K}
  <2>1. Heads = 1..p
    BY Zenon DEF Moved
  <2>2. Heads' = Heads /\ Summaries' = {p + 1} /\ Said' = {f[x] : x \in K}
    BY MovedParts, SMTT(30)
  <2> QED
    BY <2>1, <2>2
<1>2. \A i \in 1..p : messages'[i] = messages[i]
  BY DEF Moved
<1>3. Layout'
  <2>1. \A i \in Heads' : \A j \in 1 .. i - 1 : j \in Heads'
    BY <1>1 DEF IInv, Layout
  <2>2. ASSUME NEW i \in DOMAIN messages', messages'[i].role = "system" PROVE i = 1
    <3>1. i \in Heads'
      BY <2>2 DEF Heads
    <3>2. i \in DOMAIN messages /\ messages[i].role = "system"
      BY <1>1, <1>2, <2>2, <3>1 DEF Heads
    <3> QED
      BY <3>2 DEF IInv, Layout
  <2> QED
    BY <2>1, <2>2 DEF Layout
<1>4. Shape'
  <2>1. ASSUME NEW j \in 1 .. (p + 1) - 1 PROVE messages'[j].role \in {"system", "user"}
    BY <1>1, <1>2, <2>1 DEF Heads
  <2>2. ASSUME NEW x \in K, NEW y \in K, f[x] < f[y]
        PROVE  messages'[f[x]].n < messages'[f[y]].n
    <3>1. x \in DOMAIN messages /\ y \in DOMAIN messages
      BY DEF Said
    <3>2. x \in Nat /\ y \in Nat
      BY <3>1, MessageTypes DEF IInv
    <3>3. x < y
      BY <2>2, <3>2 DEF Moved
    <3>4. messages[x].n < messages[y].n
      BY <3>3 DEF IInv, Shape
    <3> QED
      BY <3>4 DEF Moved
  <2> QED
    BY <1>1, <2>1, <2>2 DEF Shape
<1> QED
  BY <1>3, <1>4

\* Calls stay with their results: inside a block f leaves no gap.
LEMMA MovedCalls ==
    ASSUME IInv, NEW p \in Nat, NEW s, NEW K \in SUBSET Said, NEW f \in [K -> Nat],
           Moved(p, s, K, f), s.role = "summary",
           \A a, j \in Said : Answers(a, j) => (a \in K <=> j \in K)
    PROVE  Calls'
<1>1. Said' = {f[x] : x \in K}
  BY MovedParts
<1>2. \A x \in K : x \in DOMAIN messages /\ x \in Nat /\ f[x] \in Nat
  BY MessageTypes DEF IInv, Said
<1>3. \A x \in K : messages'[f[x]] = messages[x]
  BY DEF Moved
<1>4. ASSUME NEW a \in K, NEW j \in K, Answers(a, j)
      PROVE  a..j \subseteq K /\ f[j] = f[a] + (j - a) /\ Answers(f[a], f[j])'
  <2>1. a < j /\ messages[a].role = "assistant" /\ messages[a].ids # {}
    BY <1>4 DEF Answers
  <2>2. ASSUME NEW k \in a + 1 .. j PROVE k \in K
    <3>1. k \in DOMAIN messages /\ Answers(a, k)
      BY <1>2, <1>4, AnswersFacts DEF IInv
    <3>2. k \in Said
      BY <1>2, <3>1, AnswersFacts DEF IInv, Said
    <3> QED
      BY <3>1, <3>2
  <2>3. a..j \subseteq K
    BY <1>2, <2>2
  <2>4. f[j] = f[a] + (j - a)
    BY <1>2, <2>1, <2>3 DEF Moved
  <2>5. ASSUME NEW k \in f[a] + 1 .. f[j]
        PROVE  messages'[k].role = "tool" /\ messages'[k].ids \subseteq messages'[f[a]].ids
    <3> DEFINE x == a + (k - f[a])
    <3>1. x \in a + 1 .. j
      BY <1>2, <2>4
    <3>2. x \in K /\ a <= x /\ a..x \subseteq K
      BY <1>2, <2>3, <3>1
    <3>3. f[x] = f[a] + (x - a)
      BY <3>2 DEF Moved
    <3>4. f[x] = k
      BY <1>2, <3>2, <3>3
    <3>5. messages[x].role = "tool" /\ messages[x].ids \subseteq messages[a].ids
      BY <1>4, <3>1 DEF Answers
    <3> QED
      BY <1>3, <3>2, <3>4, <3>5
  <2>6. f[a] < f[j] /\ messages'[f[a]].role = "assistant" /\ messages'[f[a]].ids # {}
    BY <1>2, <1>3, <2>1, <2>4
  <2> QED
    BY <2>3, <2>4, <2>5, <2>6 DEF Answers
<1>5. ASSUME NEW x \in K, messages[x].role = "assistant", NEW id \in messages[x].ids \ {0}
      PROVE  \E j \in K : /\ Answers(f[x], f[j])'
                          /\ messages'[f[j]].n = id
                          /\ f[j] - f[x] = id - messages'[f[x]].n
  <2>1. PICK j \in Said : /\ Answers(x, j)
                          /\ messages[j].n = id
                          /\ j - x = id - messages[x].n
    BY <1>5 DEF IInv, Calls
  <2>2. j \in K
    BY <2>1
  <2>3. f[j] = f[x] + (j - x) /\ Answers(f[x], f[j])'
    BY <1>4, <2>1, <2>2
  <2>4. f[j] - f[x] = j - x
    BY <1>2, <2>2, <2>3
  <2> QED
    BY <1>3, <2>1, <2>2, <2>3, <2>4
<1>6. ASSUME NEW x \in K, messages[x].role = "tool"
      PROVE  /\ \E y \in K : f[x] - 1 = f[y] /\ messages'[f[y]].n = messages'[f[x]].n - 1
             /\ \E a \in K : Answers(f[a], f[x])'
  <2>1. PICK a \in Said : Answers(a, x)
    BY <1>6 DEF IInv, Calls
  <2>2. a \in K /\ a < x
    BY <2>1 DEF Answers
  <2>3. a..x \subseteq K /\ f[x] = f[a] + (x - a) /\ Answers(f[a], f[x])'
    BY <1>4, <2>1, <2>2
  <2>4. x - 1 \in K /\ a <= x - 1 /\ a .. x - 1 \subseteq K
    BY <1>2, <2>2, <2>3
  <2>5. f[x - 1] = f[a] + ((x - 1) - a)
    BY <2>2, <2>4 DEF Moved
  <2>6. f[x] - 1 = f[x - 1]
    BY <1>2, <2>2, <2>3, <2>4, <2>5
  <2>7. messages[x - 1].n = messages[x].n - 1
    BY <1>6 DEF IInv, Calls
  <2> QED
    BY <1>3, <2>2, <2>3, <2>4, <2>6, <2>7
<1>7. ASSUME NEW x \in K, messages[x].role = "assistant" PROVE messages'[f[x]].ids # {}
  BY <1>3, <1>7 DEF IInv, Calls
<1>8. \A x \in K : f[x] \in Said'
  BY <1>1
<1>9. ASSUME NEW x \in K
      PROVE  /\ messages'[f[x]].role = "assistant" =>
                  /\ messages'[f[x]].ids # {}
                  /\ \A id \in messages'[f[x]].ids \ {0} :
                       \E j \in Said' : /\ Answers(f[x], j)'
                                        /\ messages'[j].n = id
                                        /\ j - f[x] = id - messages'[f[x]].n
             /\ messages'[f[x]].role = "tool" =>
                  /\ f[x] - 1 \in Said' /\ messages'[f[x] - 1].n = messages'[f[x]].n - 1
                  /\ \E a \in Said' : Answers(a, f[x])'
  <2>1. ASSUME messages[x].role = "assistant", NEW id \in messages[x].ids \ {0}
        PROVE  \E j \in Said' : /\ Answers(f[x], j)'
                                /\ messages'[j].n = id
                                /\ j - f[x] = id - messages'[f[x]].n
    BY <1>5, <1>8, <2>1
  <2>2. ASSUME messages[x].role = "tool"
        PROVE  /\ f[x] - 1 \in Said' /\ messages'[f[x] - 1].n = messages'[f[x]].n - 1
               /\ \E a \in Said' : Answers(a, f[x])'
    BY <1>6, <1>8, <2>2
  <2> QED
    BY <1>3, <1>7, <2>1, <2>2
<1> QED
  BY <1>1, <1>9 DEF Calls
\* What is no longer there in full is in the new summary.
LEMMA MovedContents ==
    ASSUME IInv, NEW p \in Nat, NEW s, NEW K \in SUBSET Said, NEW f \in [K -> Nat],
           Moved(p, s, K, f), s.role = "summary", s.n = 0,
           s.from = Condensed \cup {messages[i].n : i \in Said \ K},
           made' = made
    PROVE  Contents' /\ Promise!Condense
<1>1. Said' = {f[x] : x \in K} /\ Summaries' = {p + 1} /\ Heads' = Heads
  BY MovedParts
<1>2. \A x \in K : messages'[f[x]] = messages[x] /\ f[x] \in DOMAIN messages'
  BY DEF Moved
<1>3. \A i \in 1..p : messages'[i] = messages[i] /\ i \in DOMAIN messages'
  BY DEF Moved
<1>4. /\ Heads = 1..p
      /\ messages'[p + 1] = s /\ p + 1 \in DOMAIN messages'
      /\ \A i \in DOMAIN messages' : i \in 1..p \/ i = p + 1 \/ \E x \in K : i = f[x]
  BY DEF Moved
<1>5. /\ Heads \subseteq DOMAIN messages \ Said
      /\ Heads \subseteq DOMAIN messages \ Summaries
      /\ Said \subseteq DOMAIN messages \ Summaries
  BY DEF Heads, Said, Summaries
<1>6. \A x \in Said : messages[x].n \in 1..made /\ messages[x].from = {}
  BY <1>5 DEF IInv, Contents
<1>7. made \in Nat
  BY DEF IInv, TypeOK
<1>8. Full = {messages[x].n : x \in Said}
  <2>1. \A i \in DOMAIN messages : messages[i].n # 0 <=> i \in Said
    BY <1>6, <1>7 DEF IInv, Contents
  <2>2. Said \subseteq DOMAIN messages
    BY <1>5
  <2> QED
    BY <2>1, <2>2 DEF Full
<1>9. ASSUME NEW i \in DOMAIN messages' PROVE i \in Said' \/ messages'[i].n = 0
  <2>1. CASE i \in 1..p
    BY <1>3, <1>4, <1>5, <2>1 DEF IInv, Contents
  <2> QED
    BY <1>1, <1>4, <2>1
<1>10. ASSUME NEW i \in DOMAIN messages', i # p + 1 PROVE messages'[i].from = {}
  <2>1. CASE i \in 1..p
    BY <1>3, <1>4, <1>5, <2>1 DEF IInv, Contents
  <2>2. CASE \E x \in K : i = f[x]
    BY <1>2, <1>6, <2>2
  <2> QED
    BY <1>4, <1>10, <2>1, <2>2
<1>11. Full' = {messages[x].n : x \in K}
  <2>1. ASSUME NEW x \in K
        PROVE  messages[x].n \in {messages'[i].n : i \in DOMAIN messages'} \ {0}
    BY <1>2, <1>6, <1>7
  <2>2. ASSUME NEW i \in DOMAIN messages', messages'[i].n # 0
        PROVE  messages'[i].n \in {messages[x].n : x \in K}
    BY <1>1, <1>2, <1>9, <2>2
  <2> QED
    BY <2>1, <2>2 DEF Full
<1>12. Condensed' = s.from
  <2>1. Condensed' = UNION {messages'[i].from : i \in DOMAIN messages'}
    BY DEF Condensed
  <2>2. \A n : n \in UNION {messages'[i].from : i \in DOMAIN messages'} <=> n \in s.from
    BY <1>4, <1>10
  <2> QED
    BY <2>1, <2>2
<1>13. ASSUME NEW x \in Said, NEW y \in Said, messages[x].n = messages[y].n PROVE x = y
  <2>1. x \in Nat /\ y \in Nat
    BY MessageTypes DEF IInv, Said
  <2>2. messages[x].n \in Nat
    BY <1>6, <1>7
  <2>3. ~(x < y) /\ ~(y < x)
    BY <1>13, <2>2 DEF IInv, Shape
  <2> QED
    BY <2>1, <2>3
<1>14. Full \ Full' = {messages[x].n : x \in Said \ K}
  <2>1. ASSUME NEW x \in Said \ K PROVE messages[x].n \notin Full'
    BY <1>11, <1>13, <2>1
  <2> QED
    BY <1>8, <1>11, <2>1
<1>15. Promise!Condense
  BY <1>8, <1>11, <1>12, <1>14 DEF Promise!Condense
<1>16. Contents'
  <2>1. ASSUME NEW i \in Said' PROVE messages'[i].n \in 1..made'
    BY <1>1, <1>2, <1>6, <2>1
  <2>2. ASSUME NEW i \in DOMAIN messages' \ Said' PROVE messages'[i].n = 0
    BY <1>9
  <2>3. ASSUME NEW i \in DOMAIN messages' \ Summaries' PROVE messages'[i].from = {}
    BY <1>1, <1>10
  <2>4. Condensed' \subseteq 1..made'
    BY <1>6, <1>12 DEF IInv, Contents
  <2>5. Full' \cap Condensed' = {}
    BY <1>8, <1>11, <1>12, <1>14 DEF IInv, Contents
  <2> QED
    BY <2>1, <2>2, <2>3, <2>4, <2>5 DEF Contents
<1> QED
  BY <1>15, <1>16

\* A compaction keeps the invariant and the prompt, and condenses.
LEMMA CompactStep ==
    ASSUME IInv, Compact
    PROVE  IInv' /\ Prompt' = Prompt /\ Promise!Condense
<1>1. PICK tokens \in Sizes, kept \in SUBSET Blocks :
        messages' = At(Preamble) \o <<Summary(tokens, kept)>> \o At(Recent(kept))
  BY DEF Compact
<1> DEFINE s == Summary(tokens, kept)
           K == Recent(kept)
<1>2. PICK p \in Nat, f \in [K -> Nat] : Moved(p, s, K, f)
  BY <1>1, Compacted
<1>3. /\ K \in SUBSET Said
      /\ \A a, j \in Said : Answers(a, j) => (a \in K <=> j \in K)
  BY KeptBlocks
<1>4. s.role = "summary" /\ s.n = 0
  BY DEF Summary
<1>5. s.from = Condensed \cup {messages[i].n : i \in Said \ K}
  <2> DEFINE known == UNION {messages[i].from : i \in Previous}
             new == {messages[i].n : i \in Older(kept)}
  <2>1. s.from = known \cup new
    BY Zenon DEF Summary
  <2>2. Previous = Summaries /\ Older(kept) = Said \ K
    BY Parts DEF Older
  <2>3. known = Condensed
    <3>1. \A i \in DOMAIN messages \ Summaries : messages[i].from = {}
      BY DEF IInv, Contents
    <3>2. Summaries \subseteq DOMAIN messages
      BY DEF Summaries
    <3> QED
      BY <2>2, <3>1, <3>2 DEF Condensed
  <2> QED
    BY <2>1, <2>2, <2>3
<1>6. made' = made /\ hook' = hook /\ phase' = "model"
  BY DEF Compact
<1> HIDE DEF s, K
<1>7. TypeOK'
  BY <1>2, <1>6 DEF IInv, TypeOK, Moved
<1>8. Shape' /\ Layout' /\ Prompt' = Prompt
  BY <1>2, <1>3, <1>4, MovedShape, MovedParts
<1>9. Calls'
  BY <1>2, <1>3, <1>4, MovedCalls
<1>10. Contents' /\ Promise!Condense
  BY <1>2, <1>3, <1>4, <1>5, <1>6, MovedContents
<1> QED
  BY <1>7, <1>8, <1>9, <1>10 DEF IInv
-----------------------------------------------------------------------------
\* What a turn of the agent makes of the conversation: l messages stay, and a
\* message with tool calls and their results follow. The messages of the run
\* are numbered on; the calls have the numbers of their results, or none.
Added(l, calls, named) ==
    /\ l = Len(messages) /\ messages' \in Seq(Message)
    /\ DOMAIN messages' = 1 .. l + 1 + calls
    /\ made' = made + 1 + calls
    /\ \A i \in 1..l : messages'[i] = messages[i]
    /\ \A i \in l + 1 .. l + 1 + calls : messages'[i].n = made + (i - l) /\ messages'[i].from = {}
    /\ messages'[l + 1].role = "assistant"
    /\ messages'[l + 1].ids = IF named THEN made + 2 .. made + 1 + calls ELSE {0}
    /\ \A i \in l + 2 .. l + 1 + calls :
         /\ messages'[i].role = "tool"
         /\ messages'[i].ids = IF named THEN {made + (i - l)} ELSE {}

\* A message of the right parts is one.
LEMMA MsgType ==
    ASSUME NEW role \in Roles, NEW n \in Nat, NEW tokens \in Nat, NEW ids \in SUBSET Nat
    PROVE  Msg(role, n, tokens, ids) \in Message
BY DEF Msg, Message

\* This is what a turn does.
LEMMA Acted ==
    ASSUME TypeOK, Act
    PROVE  \E l \in Nat, calls \in Nat \ {0}, named \in BOOLEAN : Added(l, calls, named)
<1>0. PICK calls \in 1..MaxCalls, named \in BOOLEAN, size \in Sizes :
        \E sizes \in [1..calls -> Sizes] :
          /\ messages' = Append(messages,
               Msg("assistant", made + 1, size,
                   {IF named THEN made + 1 + k ELSE 0 : k \in 1..calls}))
             \o [k \in 1..calls |-> Msg("tool", made + 1 + k, sizes[k],
                                        IF named THEN {IF named THEN made + 1 + k ELSE 0} ELSE {})]
          /\ made' = made + 1 + calls
  BY DEF Act
<1>1. PICK sizes \in [1..calls -> Sizes] :
        /\ messages' = Append(messages,
             Msg("assistant", made + 1, size,
                 {IF named THEN made + 1 + k ELSE 0 : k \in 1..calls}))
           \o [k \in 1..calls |-> Msg("tool", made + 1 + k, sizes[k],
                                      IF named THEN {IF named THEN made + 1 + k ELSE 0} ELSE {})]
        /\ made' = made + 1 + calls
  BY <1>0
<1> DEFINE l == Len(messages)
           ids == {IF named THEN made + 1 + k ELSE 0 : k \in 1..calls}
           call == Msg("assistant", made + 1, size, ids)
           results == [k \in 1..calls |-> Msg("tool", made + 1 + k, sizes[k],
                                      IF named THEN {IF named THEN made + 1 + k ELSE 0} ELSE {})]
<1>2. made \in Nat /\ calls \in Nat \ {0} /\ l \in Nat /\ messages \in Seq(Message)
  BY DEF TypeOK
<1>3. ids = IF named THEN made + 2 .. made + 1 + calls ELSE {0}
  <2>1. ASSUME named PROVE ids = made + 2 .. made + 1 + calls
    <3>1. ids = {made + 1 + k : k \in 1..calls}
      BY <2>1
    <3>2. \A n \in made + 2 .. made + 1 + calls : n = made + 1 + (n - (made + 1))
                                                 /\ n - (made + 1) \in 1..calls
      BY <1>2
    <3>3. \A k \in 1..calls : made + 1 + k \in made + 2 .. made + 1 + calls
      BY <1>2
    <3> QED
      BY <3>1, <3>2, <3>3
  <2>2. ASSUME ~named PROVE ids = {0}
    <3>1. 1 \in 1..calls
      BY <1>2
    <3> QED
      BY <2>2, <3>1
  <2> QED
    BY <2>1, <2>2
<1>4. call \in Message
  <2>1. ids \subseteq Nat
    BY <1>2, <1>3
  <2>2. made + 1 \in Nat /\ "assistant" \in Roles /\ size \in Nat
    BY <1>2 DEF Roles
  <2> HIDE DEF ids
  <2> QED
    BY <2>1, <2>2, MsgType
<1>5. ASSUME NEW k \in 1..calls
      PROVE  /\ results[k] = Msg("tool", made + 1 + k, sizes[k],
                                 IF named THEN {made + 1 + k} ELSE {})
             /\ results[k] \in Message
  <2>1. results[k] = Msg("tool", made + 1 + k, sizes[k],
                         IF named THEN {made + 1 + k} ELSE {})
    OBVIOUS
  <2>2. made + 1 + k \in Nat /\ sizes[k] \in Nat /\ "tool" \in Roles
    <3>1. made + 1 + k \in Nat
      BY <1>2
    <3>2. sizes[k] \in Sizes
      OBVIOUS
    <3> QED
      BY <3>1, <3>2 DEF Roles
  <2>3. ASSUME NEW set \in {{}, {made + 1 + k}}
        PROVE  Msg("tool", made + 1 + k, sizes[k], set) \in Message
    BY <2>2, MsgType
  <2> HIDE DEF results
  <2> QED
    BY <2>1, <2>3
<1>6. results \in Seq(Message) /\ Len(results) = calls
  <2>1. results = [k \in 1..calls |-> results[k]]
    OBVIOUS
  <2> HIDE DEF results
  <2>2. results \in [1..calls -> Message]
    BY <1>5, <2>1
  <2> QED
    BY <1>2, <2>2
<1> HIDE DEF call, results, ids
<1>7. messages' = messages \o <<call>> \o results
  <2>1. messages' = Append(messages, call) \o results
    BY <1>1 DEF call, results, ids
  <2>2. Append(messages, call) = messages \o <<call>>
    BY <1>2, <1>4
  <2> QED
    BY <2>1, <2>2
<1>8. /\ messages' \in Seq(Message) /\ Len(messages') = l + 1 + calls
      /\ \A i \in 1..l : messages'[i] = messages[i]
      /\ messages'[l + 1] = call
      /\ \A k \in 1..calls : messages'[l + 1 + k] = results[k]
  <2> DEFINE c == messages \o <<call>> \o results
  <2>1. /\ c \in Seq(Message) /\ Len(c) = Len(messages) + 1 + Len(results)
        /\ \A i \in 1..Len(messages) : c[i] = messages[i]
        /\ c[Len(messages) + 1] = call
        /\ \A k \in 1..Len(results) : c[Len(messages) + 1 + k] = results[k]
    <3>1. messages \in Seq(Message) /\ call \in Message /\ results \in Seq(Message)
      BY <1>2, <1>4, <1>6
    <3> QED
      BY <3>1, Between
  <2>2. messages' = c
    BY <1>7
  <2> HIDE DEF c
  <2> QED
    BY <1>6, <2>1, <2>2
<1>9. DOMAIN messages' = 1 .. l + 1 + calls
  BY <1>8
<1>10. /\ messages'[l + 1].role = "assistant" /\ messages'[l + 1].n = made + 1
       /\ messages'[l + 1].ids = ids /\ messages'[l + 1].from = {}
  BY <1>8 DEF call, Msg
<1>11. ASSUME NEW i \in l + 2 .. l + 1 + calls
       PROVE  /\ messages'[i].role = "tool" /\ messages'[i].n = made + (i - l)
              /\ messages'[i].ids = IF named THEN {made + (i - l)} ELSE {}
              /\ messages'[i].from = {}
  <2> DEFINE k == i - (l + 1)
  <2>1. k \in 1..calls /\ l + 1 + k = i /\ made + 1 + k = made + (i - l)
    BY <1>2
  <2>2. messages'[i] = results[k]
    BY <1>8, <2>1
  <2>3. results[k] = Msg("tool", made + (i - l), sizes[k],
                         IF named THEN {made + (i - l)} ELSE {})
    BY <1>5, <2>1
  <2> QED
    BY <2>2, <2>3 DEF Msg
<1>12. ASSUME NEW i \in l + 1 .. l + 1 + calls
       PROVE  messages'[i].n = made + (i - l) /\ messages'[i].from = {}
  <2>1. CASE i = l + 1
    BY <1>2, <1>10, <2>1
  <2>2. CASE i \in l + 2 .. l + 1 + calls
    BY <1>11, <2>2
  <2> QED
    BY <1>2, <2>1, <2>2
<1>13. Added(l, calls, named)
  BY <1>1, <1>3, <1>8, <1>9, <1>10, <1>11, <1>12 DEF Added
<1> QED
  BY <1>2, <1>13
\* A turn keeps the invariant and the prompt, and only adds to what is there.
LEMMA ActStep ==
    ASSUME IInv, Act
    PROVE  IInv' /\ Prompt' = Prompt /\ Promise!Learn
<1>1. PICK l \in Nat, calls \in Nat \ {0}, named \in BOOLEAN : Added(l, calls, named)
  BY Acted DEF IInv
<1> DEFINE New == l + 1 .. l + 1 + calls
<1>2. /\ DOMAIN messages = 1..l /\ made \in Nat
      /\ DOMAIN messages' = DOMAIN messages \cup New /\ DOMAIN messages \cap New = {}
  BY <1>1 DEF Added, IInv, TypeOK
<1>3. \A i \in DOMAIN messages : messages'[i] = messages[i]
  BY <1>1, <1>2 DEF Added
<1>4. ASSUME NEW i \in New
      PROVE  /\ messages'[i].role = IF i = l + 1 THEN "assistant" ELSE "tool"
             /\ messages'[i].n = made + (i - l) /\ messages'[i].from = {}
             /\ messages'[i].n \in made + 1 .. made + 1 + calls
  <2>1. messages'[i].n = made + (i - l) /\ messages'[i].from = {}
    BY <1>1 DEF Added
  <2>2. made + (i - l) \in made + 1 .. made + 1 + calls
    BY <1>2
  <2>3. i = l + 1 \/ (i # l + 1 /\ i \in l + 2 .. l + 1 + calls)
    BY <1>2
  <2>4. messages'[i].role = IF i = l + 1 THEN "assistant" ELSE "tool"
    BY <1>1, <2>3 DEF Added
  <2> QED
    BY <2>1, <2>2, <2>4
<1>5. made' = made + 1 + calls
  BY <1>1 DEF Added
<1>6. /\ Heads' = Heads /\ Summaries' = Summaries /\ Said' = Said \cup New
      /\ Said \subseteq DOMAIN messages
  <2>1. ASSUME NEW i \in New PROVE i \in Said' /\ i \notin Heads' /\ i \notin Summaries'
    BY <1>2, <1>4 DEF Said, Heads, Summaries
  <2> QED
    BY <1>2, <1>3, <2>1 DEF Said, Heads, Summaries
<1>7. Prompt' = Prompt
  <2>1. Prompt = {<<i, messages[i]>> : i \in Heads} /\ Prompt' = {<<i, messages'[i]>> : i \in Heads'}
    BY DEF Prompt, Heads
  <2>2. \A i \in Heads : messages'[i] = messages[i]
    BY <1>3 DEF Heads
  <2> QED
    BY <1>6, <2>1, <2>2
<1>8. TypeOK'
  BY <1>1, <1>2, <1>5 DEF Act, Added, IInv, TypeOK
<1>9. Layout'
  <2>1. \A i \in Heads' : \A j \in 1 .. i - 1 : j \in Heads'
    BY <1>6 DEF IInv, Layout
  <2>2. \A i \in DOMAIN messages' : messages'[i].role = "system" => i = 1
    BY <1>2, <1>3, <1>4 DEF IInv, Layout
  <2> QED
    BY <2>1, <2>2 DEF Layout
<1>10. Shape'
  <2>1. ASSUME NEW i \in Summaries', NEW j \in 1 .. i - 1
        PROVE  messages'[j].role \in {"system", "user"}
    <3>1. i \in 1..l /\ j \in DOMAIN messages
      BY <1>2, <1>6 DEF Summaries
    <3> QED
      BY <1>3, <1>6, <3>1 DEF IInv, Shape
  <2>2. ASSUME NEW i \in Said', NEW j \in Said', i < j PROVE messages'[i].n < messages'[j].n
    <3>1. CASE i \in Said /\ j \in Said
      BY <1>3, <1>6, <2>2, <3>1 DEF IInv, Shape
    <3>2. CASE i \in Said /\ j \in New
      BY <1>2, <1>3, <1>4, <1>6, <3>2 DEF IInv, Contents
    <3>3. CASE i \in New /\ j \in New
      BY <1>2, <1>4, <2>2, <3>3
    <3>4. ~(i \in New /\ j \in Said)
      BY <1>2, <1>6, <2>2
    <3> QED
      BY <1>6, <3>1, <3>2, <3>3, <3>4
  <2> QED
    BY <2>1, <2>2 DEF Shape
<1>11. Full' = Full \cup (made + 1 .. made + 1 + calls)
  <2>1. \A i \in New : messages'[i].n \in (made + 1 .. made + 1 + calls) \ {0}
    BY <1>2, <1>4
  <2>2. \A n \in made + 1 .. made + 1 + calls : n - made + l \in New /\ messages'[n - made + l].n = n
    BY <1>2, <1>4
  <2>3. Full' \subseteq Full \cup (made + 1 .. made + 1 + calls)
    BY <1>2, <1>3, <2>1 DEF Full
  <2>4. Full \subseteq Full'
    BY <1>2, <1>3 DEF Full
  <2>5. ASSUME NEW n \in made + 1 .. made + 1 + calls PROVE n \in Full'
    <3>1. n - made + l \in DOMAIN messages' /\ messages'[n - made + l].n = n /\ n # 0
      BY <1>2, <2>2
    <3> QED
      BY <3>1 DEF Full
  <2> QED
    BY <2>3, <2>4, <2>5
<1>12. Condensed' = Condensed
  <2>1. \A i \in New : messages'[i].from = {}
    BY <1>4
  <2> QED
    BY <1>2, <1>3, <2>1 DEF Condensed
<1>13. Contents' /\ Promise!Learn
  <2>1. /\ \A i \in Said' : messages'[i].n \in 1..made'
        /\ \A i \in DOMAIN messages' \ Said' : messages'[i].n = 0
        /\ \A i \in DOMAIN messages' \ Summaries' : messages'[i].from = {}
    BY <1>2, <1>3, <1>4, <1>5, <1>6 DEF IInv, Contents
  <2>2. Condensed' \subseteq 1..made' /\ Full' \cap Condensed = {}
    BY <1>2, <1>5, <1>11, <1>12 DEF IInv, Contents
  <2> QED
    BY <1>11, <1>12, <2>1, <2>2 DEF Contents, Promise!Learn
<1>14. ASSUME NEW i \in Said, NEW j \in Said, Answers(i, j) PROVE Answers(i, j)'
  <2>1. \A k \in i + 1 .. j : k \in DOMAIN messages
    BY <1>2, <1>6
  <2> QED
    BY <1>3, <1>6, <1>14, <2>1 DEF Answers
<1>15. /\ messages'[l + 1].role = "assistant" /\ messages'[l + 1].ids # {}
       /\ \A i \in l + 2 .. l + 1 + calls :
            messages'[i].role = "tool" /\ messages'[i].ids \subseteq messages'[l + 1].ids
  <2>1. ASSUME NEW i \in l + 2 .. l + 1 + calls
        PROVE  made + (i - l) \in made + 2 .. made + 1 + calls
    BY <1>2
  <2>2. made + 2 \in made + 2 .. made + 1 + calls
    BY <1>2
  <2>3. CASE named
    BY <1>1, <2>1, <2>2, <2>3 DEF Added
  <2>4. CASE ~named
    BY <1>1, <2>4 DEF Added
  <2> QED
    BY <2>3, <2>4
<1>16. ASSUME NEW j \in l + 2 .. l + 1 + calls PROVE Answers(l + 1, j)'
  <2>1. \A k \in l + 2 .. j : messages'[k].role = "tool" /\ messages'[k].ids \subseteq messages'[l + 1].ids
    BY <1>2, <1>15
  <2>2. messages'[l + 1].role = "assistant" /\ messages'[l + 1].ids # {}
    BY <1>15
  <2>3. (l + 1) + 1 .. j = l + 2 .. j /\ l + 1 < j
    OBVIOUS
  <2> QED
    BY <2>1, <2>2, <2>3 DEF Answers
<1>17. Calls'
  <2>1. ASSUME NEW i \in Said, messages[i].role = "assistant"
        PROVE  /\ messages'[i].ids # {}
               /\ \A id \in messages'[i].ids \ {0} :
                    \E j \in Said' : /\ Answers(i, j)'
                                     /\ messages'[j].n = id
                                     /\ j - i = id - messages'[i].n
    BY <1>3, <1>6, <1>14, <2>1 DEF IInv, Calls
  <2>2. ASSUME NEW i \in Said, messages[i].role = "tool"
        PROVE  /\ i - 1 \in Said' /\ messages'[i - 1].n = messages'[i].n - 1
               /\ \E a \in Said' : Answers(a, i)'
    BY <1>3, <1>6, <1>14, <2>2 DEF IInv, Calls
  <2>3. /\ messages'[l + 1].ids # {}
        /\ \A id \in messages'[l + 1].ids \ {0} :
             \E j \in Said' : /\ Answers(l + 1, j)'
                              /\ messages'[j].n = id
                              /\ j - (l + 1) = id - messages'[l + 1].n
    <3>1. messages'[l + 1].ids # {}
      BY <1>15
    <3>2. ASSUME NEW id \in messages'[l + 1].ids \ {0}
          PROVE  \E j \in Said' : /\ Answers(l + 1, j)'
                                  /\ messages'[j].n = id
                                  /\ j - (l + 1) = id - messages'[l + 1].n
      <4> DEFINE j == l + (id - made)
      <4>1. id \in made + 2 .. made + 1 + calls
        BY <1>1, <3>2 DEF Added
      <4>2. j \in l + 2 .. l + 1 + calls /\ j \in New /\ l + 1 \in New
        BY <1>2, <4>1
      <4>3. messages'[j].n = id /\ j - (l + 1) = id - messages'[l + 1].n
        BY <1>2, <1>4, <4>1, <4>2
      <4> QED
        BY <1>6, <1>16, <4>2, <4>3
    <3> QED
      BY <3>1, <3>2
  <2>4. ASSUME NEW i \in l + 2 .. l + 1 + calls
        PROVE  /\ i - 1 \in Said' /\ messages'[i - 1].n = messages'[i].n - 1
               /\ \E a \in Said' : Answers(a, i)'
    <3>1. i \in New /\ i - 1 \in New /\ l + 1 \in New
      BY <1>2
    <3>2. messages'[i - 1].n = messages'[i].n - 1
      BY <1>2, <1>4, <3>1
    <3> QED
      BY <1>6, <1>16, <3>1, <3>2
  <2>5. ASSUME NEW i \in Said'
        PROVE  \/ i \in Said /\ messages'[i].role = messages[i].role
               \/ i = l + 1 /\ messages'[i].role = "assistant"
               \/ i \in l + 2 .. l + 1 + calls /\ messages'[i].role = "tool"
    BY <1>2, <1>3, <1>4, <1>6
  <2> QED
    BY <2>1, <2>2, <2>3, <2>4, <2>5 DEF Calls
<1> QED
  BY <1>7, <1>8, <1>9, <1>10, <1>13, <1>17 DEF IInv
-----------------------------------------------------------------------------
\* The other steps leave the conversation alone.
LEMMA OtherSteps ==
    ASSUME TypeOK, LeaveAlone \/ Fatal \/ ReturnError \/ Finish \/ UNCHANGED vars
    PROVE  UNCHANGED <<hook, messages, made>> /\ TypeOK'
BY DEF LeaveAlone, Fatal, ReturnError, Finish, vars, TypeOK

\* The invariant holds initially and every step keeps it.
LEMMA IInvInductive == Spec => []IInv
<1>1. Init => IInv
  <2> SUFFICES ASSUME Init PROVE IInv
    OBVIOUS
  <2>1. PICK s \in Sizes, u \in Sizes :
          messages \in {<<Msg("system", 0, s, {})>>,
                        <<Msg("system", 0, s, {}), Msg("user", 0, u, {})>>}
    BY DEF Init
  <2>2. Msg("system", 0, s, {}) \in Message /\ Msg("user", 0, u, {}) \in Message
    BY MsgType DEF Roles
  <2>3. messages \in Seq(Message) /\ Len(messages) \in {1, 2}
    <3>1. \A a, b \in Message : /\ <<a>> \in Seq(Message) /\ Len(<<a>>) = 1
                               /\ <<a, b>> \in Seq(Message) /\ Len(<<a, b>>) = 2
      OBVIOUS
    <3> QED
      BY <2>1, <2>2, <3>1
  <2>4. TypeOK
    BY <2>3 DEF Init, TypeOK
  <2>5. ASSUME NEW i \in DOMAIN messages
        PROVE  /\ messages[i].role = IF i = 1 THEN "system" ELSE "user"
               /\ messages[i].n = 0 /\ messages[i].from = {}
    <3>1. i \in 1..2 /\ messages[i] = IF i = 1 THEN Msg("system", 0, s, {})
                                               ELSE Msg("user", 0, u, {})
      BY <2>1, <2>3
    <3> QED
      BY <3>1 DEF Msg
  <2>6. Said = {} /\ Summaries = {} /\ Heads = DOMAIN messages
    BY <2>5 DEF Said, Summaries, Heads
  <2>7. Full = {} /\ Condensed = {}
    BY <2>5 DEF Full, Condensed
  <2> QED
    BY <2>3, <2>4, <2>5, <2>6, <2>7 DEF IInv, Shape, Layout, Contents, Calls
<1>2. IInv /\ [Next]_vars => IInv'
  <2> SUFFICES ASSUME IInv, [Next]_vars PROVE IInv'
    OBVIOUS
  <2>1. CASE Compact
    BY <2>1, CompactStep
  <2>2. CASE Act
    BY <2>2, ActStep
  <2>3. CASE LeaveAlone \/ Fatal \/ ReturnError \/ Finish \/ UNCHANGED vars
    <3>1. UNCHANGED <<hook, messages, made>> /\ TypeOK'
      BY <2>3, OtherSteps DEF IInv
    <3>2. (Shape' <=> Shape) /\ (Layout' <=> Layout) /\ (Contents' <=> Contents) /\ (Calls' <=> Calls)
      BY <3>1 DEF Shape, Layout, Contents, Calls, Heads, Said, Summaries, Full, Condensed, Answers
    <3> QED
      BY <3>1, <3>2 DEF IInv
  <2> QED
    BY <2>1, <2>2, <2>3 DEF Next
<1> QED
  BY <1>1, <1>2, PTL DEF Spec

\* The variables always have their types.
THEOREM TypeCorrect == Spec => []TypeOK
<1>1. IInv => TypeOK
  BY DEF IInv
<1> QED
  BY <1>1, IInvInductive, PTL

\* There is one summary at most, right behind the prompt, and what follows it
\* is in the order it was said, after any number of compactions.
THEOREM ShapeHolds == Spec => []Shape
<1>1. IInv => Shape
  BY DEF IInv
<1> QED
  BY <1>1, IInvInductive, PTL

\* Whatever is condensed, a call in the conversation is followed by all its
\* results, and a result follows its call.
THEOREM PairsStayTogether == Spec => []PairsTogether
<1>1. IInv => PairsTogether
  BY DEF IInv, Calls, PairsTogether
<1> QED
  BY <1>1, IInvInductive, PTL

\* No step changes the system message or a message of the user.
THEOREM PromptStays == Spec => PreambleKept
<1>1. IInv /\ [Next]_vars => UNCHANGED Prompt
  <2> SUFFICES ASSUME IInv, [Next]_vars PROVE Prompt' = Prompt
    OBVIOUS
  <2>1. CASE LeaveAlone \/ Fatal \/ ReturnError \/ Finish \/ UNCHANGED vars
    <3>1. messages' = messages
      BY <2>1, OtherSteps DEF IInv
    <3> QED
      BY <3>1 DEF Prompt
  <2> QED
    BY <2>1, CompactStep, ActStep DEF Next
<1>2. IInv /\ [Next]_vars => [UNCHANGED Prompt]_vars
  BY <1>1
<1> QED
  BY <1>2, IInvInductive, PTL DEF Spec, PreambleKept

\* Everything said stays in the conversation, in full or condensed and never
\* both: the middleware implements Memory.
THEOREM RefinesMemory == Spec => PromiseKept
<1>1. Init => Promise!Init
  <2> SUFFICES ASSUME Init PROVE Full = {} /\ Condensed = {}
    BY DEF Promise!Init
  <2>1. ASSUME NEW i \in DOMAIN messages PROVE messages[i].n = 0 /\ messages[i].from = {}
    BY <2>1 DEF Init, Msg
  <2> QED
    BY <2>1 DEF Full, Condensed
<1>2. IInv /\ [Next]_vars => [Promise!Next]_(Promise!vars)
  <2> SUFFICES ASSUME IInv, [Next]_vars PROVE Promise!Next \/ UNCHANGED Promise!vars
    OBVIOUS
  <2>1. CASE LeaveAlone \/ Fatal \/ ReturnError \/ Finish \/ UNCHANGED vars
    <3>1. messages' = messages
      BY <2>1, OtherSteps DEF IInv
    <3> QED
      BY <3>1 DEF Promise!vars, Full, Condensed
  <2> QED
    BY <2>1, CompactStep, ActStep DEF Next, Promise!Next
<1> QED
  BY <1>1, <1>2, IInvInductive, PTL DEF Spec, PromiseKept, Promise!Spec

-----------------------------------------------------------------------------
\* The order of the numbers.
Less == {pair \in Nat \X Nat : pair[1] < pair[2]}

\* A set of numbers has a least one.
LEMMA Least ==
    ASSUME NEW A \in SUBSET Nat, A # {}
    PROVE  \E x \in A : \A y \in A : x <= y
<1>1. IsWellFoundedOn(Less, Nat)
  BY NatLessThanWellFounded DEF OpToRel, Less
<1>2. \E x \in A : \A y \in A : <<y, x>> \notin Less
  BY <1>1, WFMin
<1>3. \A x, y \in Nat : y < x => <<y, x>> \in Less
  BY DEF Less
<1>4. \A x, y \in Nat : x <= y \/ y < x
  OBVIOUS
<1> QED
  BY <1>2, <1>3, <1>4

\* A set of numbers that holds 0 and with each number the next one holds them all.
LEMMA Induction ==
    ASSUME NEW A, 0 \in A, \A n \in Nat : n \in A => n + 1 \in A
    PROVE  Nat \subseteq A
<1> DEFINE B == Nat \ A
<1> SUFFICES ASSUME B # {} PROVE FALSE
  OBVIOUS
<1>1. PICK x \in B : \A y \in B : x <= y
  BY Least
<1>2. x # 0 /\ x - 1 \in Nat /\ x - 1 \notin B
  BY <1>1
<1>3. (x - 1) + 1 = x
  BY <1>1
<1> QED
  BY <1>1, <1>2, <1>3

\* Tokens, for any conversation.
Weight(m, S) == MapThenSumSet(LAMBDA i : m[i].tokens, S)

\* The equation of the fold behind it, which takes the position CHOOSE finds.
One(s) == CHOOSE x \in s : TRUE
SumsUp(m, S, g) == g = [s \in SUBSET S |-> IF s = {} THEN 0 ELSE m[One(s)].tokens + g[s \ {One(s)}]]

\* The weight is what some solution of the equation says.
LEMMA WeightIsSum ==
    ASSUME NEW m, NEW S
    PROVE  Weight(m, S) = (CHOOSE g : SumsUp(m, S, g))[S]
BY DEF Weight, MapThenSumSet, MapThenFoldSet, SumsUp, One

\* F adds up the sizes of the messages at any of the positions P, whichever
\* position is taken first.
Adds(m, P, F) ==
    /\ F \in [SUBSET P -> Nat]
    /\ F[{}] = 0
    /\ \A S \in SUBSET P : \A x \in S : F[S] = m[x].tokens + F[S \ {x}]

\* There is such a function: the one for k + 1 positions adds the last size to
\* what the one for k positions says of the others.
LEMMA AddsExists ==
    ASSUME NEW n \in Nat, NEW m, \A i \in 1..n : m[i].tokens \in Nat
    PROVE  \E F : Adds(m, 1..n, F)
<1> DEFINE A == {k \in Nat : k <= n => \E F : Adds(m, 1..k, F)}
<1>1. 0 \in A
  <2> DEFINE F == [S \in {{}} |-> 0]
  <2>1. 1..0 = {} /\ SUBSET {} = {{}}
    OBVIOUS
  <2>2. F \in [SUBSET {} -> Nat] /\ F[{}] = 0
    BY <2>1
  <2>3. \A S \in SUBSET {} : \A x \in S : FALSE
    OBVIOUS
  <2> HIDE DEF F
  <2>4. Adds(m, 1..0, F)
    BY <2>1, <2>2, <2>3, Zenon DEF Adds
  <2> QED
    BY <2>4
<1>2. ASSUME NEW k \in Nat, k \in A PROVE k + 1 \in A
  <2> SUFFICES ASSUME k + 1 <= n PROVE \E F : Adds(m, 1 .. k + 1, F)
    BY <1>2
  <2>1. PICK F : Adds(m, 1..k, F)
    BY <1>2
  <2> DEFINE t == m[k + 1].tokens
             e(S) == IF k + 1 \in S THEN t ELSE 0
             G == [S \in SUBSET (1 .. k + 1) |-> F[S \ {k + 1}] + e(S)]
  <2>2. t \in Nat
    OBVIOUS
  <2>3. \A S \in SUBSET (1 .. k + 1) : S \ {k + 1} \in SUBSET (1..k)
    OBVIOUS
  <2>4. F \in [SUBSET (1..k) -> Nat] /\ F[{}] = 0
        /\ \A S \in SUBSET (1..k) : \A x \in S : F[S] = m[x].tokens + F[S \ {x}]
    BY <2>1, Zenon DEF Adds
  <2>5. \A S \in SUBSET (1 .. k + 1) : F[S \ {k + 1}] \in Nat
    BY <2>3, <2>4
  <2>6. G \in [SUBSET (1 .. k + 1) -> Nat]
    <3>1. ASSUME NEW S \in SUBSET (1 .. k + 1) PROVE F[S \ {k + 1}] + e(S) \in Nat
      <4>1. e(S) \in Nat /\ F[S \ {k + 1}] \in Nat
        BY <2>2, <2>5
      <4> HIDE DEF e
      <4> QED
        BY <4>1
    <3> QED
      BY <3>1
  <2>7. G[{}] = 0
    <3>1. {} \ {k + 1} = {} /\ {} \in SUBSET (1 .. k + 1)
      OBVIOUS
    <3> QED
      BY <2>4, <3>1
  <2>8. ASSUME NEW S \in SUBSET (1 .. k + 1), NEW x \in S
        PROVE  G[S] = m[x].tokens + G[S \ {x}]
    <3> DEFINE R == S \ {k + 1}
    <3>0. G[S] = F[R] + e(S) /\ G[S \ {x}] = F[(S \ {x}) \ {k + 1}] + e(S \ {x})
      OBVIOUS
    <3>1. CASE x = k + 1
      <4>1. (S \ {x}) \ {k + 1} = R
        BY <3>1
      <4>2. e(S) = t /\ e(S \ {x}) = 0
        BY <3>1
      <4>3. F[R] \in Nat /\ m[x].tokens = t
        BY <2>5, <3>1
      <4> HIDE DEF e, R, G, t
      <4> QED
        BY <2>2, <3>0, <4>1, <4>2, <4>3
    <3>2. CASE x # k + 1
      <4>1. (S \ {x}) \ {k + 1} = R \ {x} /\ x \in R /\ x \in 1..n
        BY <3>2
      <4>2. e(S) = e(S \ {x}) /\ e(S) \in Nat
        BY <2>2, <3>2
      <4>3. F[R] = m[x].tokens + F[R \ {x}]
        BY <2>3, <2>4, <4>1
      <4>4. F[R \ {x}] \in Nat /\ m[x].tokens \in Nat
        <5>1. R \ {x} \in SUBSET (1..k)
          BY <2>3
        <5> QED
          BY <2>4, <4>1, <5>1
      <4>5. G[S] = F[R] + e(S) /\ G[S \ {x}] = F[R \ {x}] + e(S)
        BY <3>0, <4>1, <4>2, Zenon
      <4> HIDE DEF e, R, G
      <4> QED
        BY <4>2, <4>3, <4>4, <4>5
    <3> QED
      BY <3>1, <3>2
  <2> HIDE DEF G
  <2>9. Adds(m, 1 .. k + 1, G)
    BY <2>6, <2>7, <2>8, Zenon DEF Adds
  <2> QED
    BY <2>9
<1> HIDE DEF A
<1>3. n \in A
  BY <1>1, <1>2, Induction
<1> QED
  BY <1>3 DEF A

\* Every solution of the equation agrees with it.
LEMMA SumIsUnique ==
    ASSUME NEW n \in Nat, NEW m, NEW F, Adds(m, 1..n, F), NEW S \in SUBSET (1..n),
           NEW g, SumsUp(m, S, g)
    PROVE  \A T \in SUBSET S : g[T] = F[T]
<1> DEFINE A == {k \in Nat : \A T \in SUBSET S : Cardinality(T) = k => g[T] = F[T]}
<1>0. ASSUME NEW T \in SUBSET S
      PROVE  IsFiniteSet(T) /\ Cardinality(T) \in Nat
  <2>1. IsFiniteSet(1..n) /\ T \in SUBSET (1..n)
    BY FS_Interval
  <2> QED
    BY <2>1, FS_Subset, FS_CardinalityType
<1>1. 0 \in A
  <2> SUFFICES ASSUME NEW T \in SUBSET S, Cardinality(T) = 0 PROVE g[T] = F[T]
    OBVIOUS
  <2>1. T = {}
    BY <1>0, FS_EmptySet
  <2> QED
    BY <2>1 DEF SumsUp, Adds
<1>2. ASSUME NEW k \in Nat, k \in A PROVE k + 1 \in A
  <2>0. k + 1 \in Nat
    OBVIOUS
  <2> SUFFICES ASSUME NEW T \in SUBSET S, Cardinality(T) = k + 1 PROVE g[T] = F[T]
    BY <2>0, Zenon
  <2> DEFINE x == One(T)
  <2>1. T # {}
    BY <1>0, FS_EmptySet
  <2>2. x \in T
    BY <2>1 DEF One
  <2> HIDE DEF x
  <2>3. Cardinality(T \ {x}) = k
    BY <1>0, <2>2, FS_RemoveElement
  <2>4. T \ {x} \in SUBSET S
    OBVIOUS
  <2>5. g[T \ {x}] = F[T \ {x}]
    BY <1>2, <2>3, <2>4
  <2>6. g[T] = m[x].tokens + g[T \ {x}]
    BY <2>1 DEF SumsUp, x
  <2>7. F[T] = m[x].tokens + F[T \ {x}]
    <3>1. T \in SUBSET (1..n)
      OBVIOUS
    <3> QED
      BY <2>2, <3>1 DEF Adds
  <2> QED
    BY <2>5, <2>6, <2>7
<1> HIDE DEF A
<1>3. Nat \subseteq A
  BY <1>1, <1>2, Induction
<1> QED
  BY <1>0, <1>3 DEF A

\* The sizes of the first n messages are known.
Sized(m, n) == n \in Nat /\ \A i \in 1..n : m[i].tokens \in Nat

\* So the weight of some positions is the size at any one of them and the
\* weight of the others.
LEMMA WeightAdds ==
    ASSUME NEW n, NEW m, Sized(m, n)
    PROVE  /\ Weight(m, {}) = 0
           /\ \A S \in SUBSET (1..n) : Weight(m, S) \in Nat
           /\ \A S \in SUBSET (1..n) : \A x \in S : Weight(m, S) = m[x].tokens + Weight(m, S \ {x})
<1>0. n \in Nat /\ \A i \in 1..n : m[i].tokens \in Nat
  BY DEF Sized
<1>1. PICK F : Adds(m, 1..n, F)
  BY <1>0, AddsExists
<1>2. ASSUME NEW S \in SUBSET (1..n) PROVE Weight(m, S) = F[S]
  <2> DEFINE g == [s \in SUBSET S |-> F[s]]
  <2>1. SumsUp(m, S, g)
    <3>1. ASSUME NEW s \in SUBSET S
          PROVE  F[s] = IF s = {} THEN 0 ELSE m[One(s)].tokens + g[s \ {One(s)}]
      <4>1. CASE s = {}
        BY <1>1, <4>1 DEF Adds
      <4>2. CASE s # {}
        <5>1. One(s) \in s
          BY <4>2 DEF One
        <5>2. s \in SUBSET (1..n) /\ s \ {One(s)} \in SUBSET S
          OBVIOUS
        <5>3. F[s] = m[One(s)].tokens + F[s \ {One(s)}]
          BY <1>1, <5>1, <5>2 DEF Adds
        <5> QED
          BY <4>2, <5>2, <5>3
      <4> QED
        BY <4>1, <4>2
    <3>2. g = [s \in SUBSET S |-> IF s = {} THEN 0 ELSE m[One(s)].tokens + g[s \ {One(s)}]]
      BY <3>1
    <3> HIDE DEF g
    <3> QED
      BY <3>2 DEF SumsUp
  <2> HIDE DEF g
  <2> DEFINE h == CHOOSE h : SumsUp(m, S, h)
  <2>2. SumsUp(m, S, h)
    BY <2>1
  <2> HIDE DEF h
  <2>3. h[S] = F[S]
    BY <1>0, <1>1, <2>2, SumIsUnique
  <2> QED
    BY <2>3, WeightIsSum DEF h
<1>3. F[{}] = 0 /\ F \in [SUBSET (1..n) -> Nat]
      /\ \A S \in SUBSET (1..n) : \A x \in S : F[S] = m[x].tokens + F[S \ {x}]
  BY <1>1, Zenon DEF Adds
<1>4. Weight(m, {}) = 0
  BY <1>2, <1>3
<1>5. \A S \in SUBSET (1..n) : Weight(m, S) \in Nat
  BY <1>2, <1>3
<1>6. \A S \in SUBSET (1..n) : S \ {} = S /\ \A x \in S : S \ {x} \in SUBSET (1..n)
  OBVIOUS
<1> QED
  BY <1>2, <1>3, <1>4, <1>5, <1>6

\* Two sets together are no heavier than both of them.
LEMMA WeightOfUnion ==
    ASSUME NEW n, NEW m, Sized(m, n),
           NEW S \in SUBSET (1..n), NEW T \in SUBSET (1..n)
    PROVE  Weight(m, S \cup T) <= Weight(m, S) + Weight(m, T)
<1>z. n \in Nat /\ \A i \in 1..n : m[i].tokens \in Nat
  BY DEF Sized
<1>a. /\ Weight(m, {}) = 0
      /\ \A U \in SUBSET (1..n) : Weight(m, U) \in Nat
      /\ \A U \in SUBSET (1..n) : \A x \in U : Weight(m, U) = m[x].tokens + Weight(m, U \ {x})
  BY WeightAdds
<1> DEFINE W(U) == Weight(m, U)
           A == {k \in Nat : \A U \in SUBSET T : Cardinality(U) = k => W(S \cup U) <= W(S) + W(U)}
<1>0. /\ W({}) = 0
      /\ \A U \in SUBSET (1..n) : W(U) \in Nat
      /\ \A U \in SUBSET (1..n) : \A x \in U : W(U) = m[x].tokens + W(U \ {x})
  BY <1>a
<1> HIDE DEF W
<1>1. ASSUME NEW U \in SUBSET T
      PROVE  IsFiniteSet(U) /\ Cardinality(U) \in Nat
  <2>1. IsFiniteSet(1..n) /\ U \in SUBSET (1..n)
    <3>1. 1 \in Int /\ n \in Int
      BY <1>z
    <3> QED
      BY <3>1, FS_Interval
  <2> QED
    BY <2>1, FS_Subset, FS_CardinalityType
<1>2. 0 \in A
  <2> SUFFICES ASSUME NEW U \in SUBSET T, Cardinality(U) = 0 PROVE W(S \cup U) <= W(S) + W(U)
    OBVIOUS
  <2>1. U = {}
    BY <1>1, FS_EmptySet
  <2>2. S \cup U = S
    BY <2>1
  <2> QED
    BY <1>0, <2>1, <2>2
<1>3. ASSUME NEW k \in Nat, k \in A PROVE k + 1 \in A
  <2>0. k + 1 \in Nat
    OBVIOUS
  <2> SUFFICES ASSUME NEW U \in SUBSET T, Cardinality(U) = k + 1
               PROVE  W(S \cup U) <= W(S) + W(U)
    BY <2>0, Zenon
  <2>a. \A V \in SUBSET T : Cardinality(V) = k => W(S \cup V) <= W(S) + W(V)
    BY <1>3
  <2> HIDE DEF A
  <2>b. IsFiniteSet(U) /\ k + 1 # 0 /\ k + 1 - 1 = k
    BY <1>1
  <2>1. PICK x \in U : TRUE
    BY <2>b, FS_EmptySet
  <2> DEFINE V == U \ {x}
  <2>2. Cardinality(V) = k /\ V \in SUBSET T
    <3>1. Cardinality(V) = Cardinality(U) - 1
      BY <2>b, FS_RemoveElement
    <3>2. V \in SUBSET T
      OBVIOUS
    <3> HIDE DEF V
    <3> QED
      BY <2>b, <3>1, <3>2
  <2>3. W(S \cup V) <= W(S) + W(V)
    BY <2>a, <2>2
  <2>4. W(U) = m[x].tokens + W(V)
    <3>1. U \in SUBSET (1..n)
      OBVIOUS
    <3> QED
      BY <1>0, <3>1
  <2>5. /\ m[x].tokens \in Nat /\ W(S) \in Nat /\ W(V) \in Nat /\ W(S \cup V) \in Nat
    <3>1. x \in 1..n /\ V \in SUBSET (1..n) /\ S \cup V \in SUBSET (1..n)
      OBVIOUS
    <3> QED
      BY <1>z, <1>0, <3>1
  <2>6. CASE x \in S
    <3>1. S \cup U = S \cup V
      BY <2>6
    <3>2. W(S \cup U) = W(S \cup V)
      BY <3>1
    <3> HIDE DEF V
    <3> QED
      BY <2>3, <2>4, <2>5, <3>2
  <2>7. CASE x \notin S
    <3>1. (S \cup U) \ {x} = S \cup V /\ S \cup U \in SUBSET (1..n) /\ x \in S \cup U
      BY <2>7
    <3>2. W(S \cup U) = m[x].tokens + W(S \cup V)
      BY <1>0, <3>1
    <3> QED
      BY <2>3, <2>4, <2>5, <3>2
  <2> QED
    BY <2>6, <2>7
<1> HIDE DEF A
<1>4. Cardinality(T) \in A
  BY <1>1, <1>2, <1>3, Induction
<1> QED
  BY <1>4 DEF A, W

\* Messages moved elsewhere weigh what they weighed.
LEMMA WeightOfMoved ==
    ASSUME NEW n, NEW m, Sized(m, n),
           NEW n2, NEW m2, Sized(m2, n2),
           NEW K \in SUBSET (1..n), NEW f,
           \A x \in K : f[x] \in 1..n2 /\ m2[f[x]].tokens = m[x].tokens,
           \A x, y \in K : f[x] = f[y] => x = y
    PROVE  Weight(m2, {f[x] : x \in K}) = Weight(m, K)
<1>z. n \in Nat /\ \A i \in 1..n : m[i].tokens \in Nat
  BY DEF Sized
<1>a. /\ Weight(m, {}) = 0
      /\ \A U \in SUBSET (1..n) : \A x \in U : Weight(m, U) = m[x].tokens + Weight(m, U \ {x})
  BY WeightAdds
<1>b. /\ Weight(m2, {}) = 0
      /\ \A U \in SUBSET (1..n2) : \A x \in U : Weight(m2, U) = m2[x].tokens + Weight(m2, U \ {x})
  BY WeightAdds
<1> DEFINE W(U) == Weight(m, U)
           W2(U) == Weight(m2, U)
           I(U) == {f[x] : x \in U}
           A == {k \in Nat : \A U \in SUBSET K : Cardinality(U) = k => W2(I(U)) = W(U)}
<1>0. /\ W({}) = 0
      /\ \A U \in SUBSET (1..n) : \A x \in U : W(U) = m[x].tokens + W(U \ {x})
  BY <1>a
<1>00. /\ W2({}) = 0
       /\ \A U \in SUBSET (1..n2) : \A x \in U : W2(U) = m2[x].tokens + W2(U \ {x})
  BY <1>b
<1> HIDE DEF W, W2
<1>1. ASSUME NEW U \in SUBSET K
      PROVE  IsFiniteSet(U) /\ Cardinality(U) \in Nat /\ I(U) \in SUBSET (1..n2)
  <2>1. IsFiniteSet(1..n) /\ U \in SUBSET (1..n)
    <3>1. 1 \in Int /\ n \in Int
      BY <1>z
    <3> QED
      BY <3>1, FS_Interval
  <2> QED
    BY <2>1, FS_Subset, FS_CardinalityType
<1>2. 0 \in A
  <2> SUFFICES ASSUME NEW U \in SUBSET K, Cardinality(U) = 0 PROVE W2(I(U)) = W(U)
    OBVIOUS
  <2>1. U = {}
    BY <1>1, FS_EmptySet
  <2>2. I(U) = {}
    BY <2>1
  <2> QED
    BY <1>0, <1>00, <2>1, <2>2
<1>3. ASSUME NEW k \in Nat, k \in A PROVE k + 1 \in A
  <2>0. k + 1 \in Nat
    OBVIOUS
  <2> SUFFICES ASSUME NEW U \in SUBSET K, Cardinality(U) = k + 1
               PROVE  W2(I(U)) = W(U)
    BY <2>0, Zenon
  <2>a. \A V \in SUBSET K : Cardinality(V) = k => W2(I(V)) = W(V)
    BY <1>3
  <2> HIDE DEF A
  <2>b. IsFiniteSet(U) /\ k + 1 # 0 /\ k + 1 - 1 = k
    BY <1>1
  <2>1. PICK x \in U : TRUE
    BY <2>b, FS_EmptySet
  <2> DEFINE V == U \ {x}
  <2>2. Cardinality(V) = k /\ V \in SUBSET K
    <3>1. Cardinality(V) = Cardinality(U) - 1
      BY <2>b, FS_RemoveElement
    <3>2. V \in SUBSET K
      OBVIOUS
    <3> HIDE DEF V
    <3> QED
      BY <2>b, <3>1, <3>2
  <2>3. W2(I(V)) = W(V)
    BY <2>a, <2>2
  <2>4. I(V) = I(U) \ {f[x]} /\ f[x] \in I(U)
    <3>1. \A y \in V : f[y] # f[x]
      OBVIOUS
    <3> QED
      BY <3>1
  <2>5. W2(I(U)) = m2[f[x]].tokens + W2(I(U) \ {f[x]})
    BY <1>00, <1>1, <2>4
  <2>6. W(U) = m[x].tokens + W(V)
    <3>1. U \in SUBSET (1..n)
      OBVIOUS
    <3> QED
      BY <1>0, <3>1
  <2>7. m2[f[x]].tokens = m[x].tokens
    OBVIOUS
  <2> HIDE DEF I, V
  <2> QED
    BY <2>3, <2>4, <2>5, <2>6, <2>7
<1> HIDE DEF A
<1>4. Cardinality(K) \in A
  BY <1>1, <1>2, <1>3, Induction
<1> QED
  BY <1>4 DEF A, W, W2

-----------------------------------------------------------------------------
\* The sizes of the messages of a conversation.
LEMMA ConversationSized ==
    ASSUME NEW m \in Seq(Message)
    PROVE  Sized(m, Len(m)) /\ DOMAIN m = 1..Len(m)
<1>1. \A i \in 1..Len(m) : m[i] \in Message
  OBVIOUS
<1>2. \A x \in Message : x.tokens \in Nat
  BY DEF Message
<1> QED
  BY <1>1, <1>2 DEF Sized

\* The blocks that a compaction keeps fit the budget together: the oldest of
\* them was kept for fitting what the newer ones left.
LEMMA KeptFit ==
    ASSUME IInv, NEW kept \in SUBSET Blocks, \A i \in kept : Fits(kept, i)
    PROVE  Tokens(Recent(kept)) <= MaxRecent
<1>1. /\ Sized(messages, Len(messages)) /\ DOMAIN messages = 1..Len(messages)
      /\ Rest \subseteq DOMAIN messages /\ Blocks \subseteq Rest
  BY ConversationSized DEF IInv, TypeOK, Rest, Blocks
<1>2. CASE kept = {}
  <2>1. Recent(kept) = {}
    BY <1>2 DEF Recent
  <2>2. Weight(messages, {}) = 0
    BY <1>1, WeightAdds
  <2>3. Tokens({}) = Weight(messages, {})
    BY DEF Tokens, Weight
  <2> QED
    BY <2>1, <2>2, <2>3
<1>3. CASE kept # {}
  <2>1. kept \in SUBSET Nat
    BY <1>1
  <2>2. PICK i \in kept : \A b \in kept : i <= b
    BY <1>3, <2>1, Least
  <2> DEFINE newer == {b \in kept : b > i}
  <2>3. kept = newer \cup {i}
    <3>1. \A b \in kept : b \in newer \/ b = i
      BY <2>1, <2>2
    <3> QED
      BY <3>1
  <2>4. Recent(kept) = Recent(newer) \cup Block(i)
    BY <2>3 DEF Recent
  <2>5. Recent(newer) \in SUBSET (1..Len(messages)) /\ Block(i) \in SUBSET (1..Len(messages))
    BY <1>1 DEF Recent, Block
  <2>6. Tokens(Recent(newer)) + Tokens(Block(i)) <= MaxRecent
    BY DEF Fits
  <2> HIDE DEF newer
  <2>7. /\ Weight(messages, Recent(newer) \cup Block(i))
             <= Weight(messages, Recent(newer)) + Weight(messages, Block(i))
    BY <1>1, <2>5, WeightOfUnion
  <2>8. /\ Weight(messages, Recent(newer) \cup Block(i)) \in Nat
        /\ Weight(messages, Recent(newer)) \in Nat /\ Weight(messages, Block(i)) \in Nat
    <3>1. Recent(newer) \cup Block(i) \in SUBSET (1..Len(messages))
      BY <2>5
    <3> QED
      BY <1>1, <2>5, <3>1, WeightAdds
  <2>9. \A S : Tokens(S) = Weight(messages, S)
    BY DEF Tokens, Weight
  <2> QED
    BY <2>4, <2>6, <2>7, <2>8, <2>9
<1> QED
  BY <1>2, <1>3

\* What a compaction keeps weighs the same where it is moved.
LEMMA CompactFits ==
    ASSUME IInv, Compact
    PROVE  Tokens(Said)' <= MaxRecent
<1>1. PICK tokens \in Sizes, kept \in SUBSET Blocks :
         /\ \A i \in Blocks : i \in kept <=> Fits(kept, i)
         /\ messages' = At(Preamble) \o <<Summary(tokens, kept)>> \o At(Recent(kept))
  BY DEF Compact
<1> DEFINE K == Recent(kept)
           s == Summary(tokens, kept)
<1>2. PICK p \in Nat, f \in [K -> Nat] : Moved(p, s, K, f)
  BY <1>1, Compacted
<1>3. s.role = "summary"
  BY DEF Summary
<1>4. K \subseteq Said
  BY KeptBlocks
<1> HIDE DEF K, s
<1>5. /\ Sized(messages, Len(messages)) /\ DOMAIN messages = 1..Len(messages)
      /\ Sized(messages', Len(messages')) /\ DOMAIN messages' = 1..Len(messages')
  BY <1>2, ConversationSized DEF IInv, TypeOK, Moved
<1>6. \A x \in K : f[x] \in DOMAIN messages' /\ messages'[f[x]] = messages[x]
  BY <1>2 DEF Moved
<1>7. \A x, y \in K : f[x] = f[y] => x = y
  <2> SUFFICES ASSUME NEW x \in K, NEW y \in K, f[x] = f[y] PROVE x = y
    OBVIOUS
  <2>1. x \in Nat /\ y \in Nat /\ f[x] \in Nat /\ f[y] \in Nat
    BY <1>4, <1>5 DEF Said
  <2>2. (x < y => f[x] < f[y]) /\ (y < x => f[y] < f[x])
    BY <1>2 DEF Moved
  <2> QED
    BY <2>1, <2>2
<1>8. Said' = {f[x] : x \in K}
  <2>1. \A x \in K : f[x] \in Said'
    BY <1>4, <1>6 DEF Said
  <2>2. ASSUME NEW i \in Said' PROVE \E x \in K : i = f[x]
    <3>1. i \in DOMAIN messages' /\ messages'[i].role \in {"assistant", "tool"}
      BY <2>2 DEF Said
    <3>2. i # p + 1
      BY <1>2, <1>3, <3>1 DEF Moved
    <3>3. i \notin 1..p
      <4> SUFFICES ASSUME i \in 1..p PROVE FALSE
        OBVIOUS
      <4>1. i \in Heads /\ messages'[i] = messages[i]
        BY <1>2 DEF Moved
      <4> QED
        BY <3>1, <4>1 DEF Heads
    <3> QED
      BY <1>2, <3>1, <3>2, <3>3 DEF Moved
  <2> QED
    BY <2>1, <2>2
<1>9. Weight(messages', Said') = Weight(messages, K)
  <2>1. K \in SUBSET (1..Len(messages))
    BY <1>4, <1>5 DEF Said
  <2>2. \A x \in K : f[x] \in 1..Len(messages') /\ messages'[f[x]].tokens = messages[x].tokens
    BY <1>5, <1>6
  <2>3. Weight(messages', {f[x] : x \in K}) = Weight(messages, K)
    <3> DEFINE n == Len(messages)
               later == messages'
               n2 == Len(later)
    <3>1. Sized(messages, n) /\ Sized(later, n2) /\ K \in SUBSET (1..n)
      BY <1>5, <2>1
    <3>2. \A x \in K : f[x] \in 1..n2 /\ later[f[x]].tokens = messages[x].tokens
      BY <2>2
    <3> HIDE DEF n, later, n2
    <3>3. Weight(later, {f[x] : x \in K}) = Weight(messages, K)
      BY <1>7, <3>1, <3>2, WeightOfMoved
    <3> QED
      BY <3>3 DEF later
  <2> QED
    BY <1>8, <2>3
<1>10. Tokens(Said)' = Weight(messages', Said') /\ Tokens(K) = Weight(messages, K)
  BY DEF Tokens, Weight, MapThenSumSet, MapThenFoldSet
<1>11. Tokens(K) <= MaxRecent
  BY <1>1, KeptFit DEF K
<1> QED
  BY <1>9, <1>10, <1>11

\* The model is called with a conversation within the threshold or with recent
\* messages within their budget, whatever the sizes of the messages are and
\* whichever blocks are skipped (config.go:53-62).
THEOREM BudgetIsKept == Spec => []WithinBudget
<1>1. Init => WithinBudget
  BY DEF Init, WithinBudget
<1>2. IInv /\ WithinBudget /\ [Next]_vars => WithinBudget'
  <2> SUFFICES ASSUME IInv, WithinBudget, [Next]_vars PROVE WithinBudget'
    OBVIOUS
  <2>1. CASE LeaveAlone
    <3>1. messages' = messages /\ Tokens(DOMAIN messages) <= MaxBefore
      BY <2>1 DEF LeaveAlone
    <3>2. Tokens(DOMAIN messages)' = Tokens(DOMAIN messages)
      BY <3>1 DEF Tokens, MapThenSumSet, MapThenFoldSet
    <3> QED
      BY <3>1, <3>2 DEF WithinBudget
  <2>2. CASE Compact
    BY <2>2, CompactFits DEF WithinBudget
  <2>3. CASE Fatal \/ ReturnError \/ Act \/ Finish
    BY <2>3 DEF WithinBudget, Fatal, ReturnError, Act, Finish
  <2>4. CASE UNCHANGED vars
    <3>1. messages' = messages /\ phase' = phase
      BY <2>4 DEF vars
    <3>2. Tokens(DOMAIN messages)' = Tokens(DOMAIN messages) /\ Tokens(Said)' = Tokens(Said)
      <4>1. DOMAIN messages' = DOMAIN messages /\ Said' = Said
        BY <3>1 DEF Said
      <4> QED
        BY <3>1, <4>1 DEF Tokens, MapThenSumSet, MapThenFoldSet
    <3> QED
      BY <2>4, <3>1, <3>2 DEF WithinBudget
  <2> QED
    BY <2>1, <2>2, <2>3, <2>4 DEF Next
<1> QED
  BY <1>1, <1>2, IInvInductive, PTL DEF Spec
=============================================================================
