--------------------------- MODULE PlannerProofs ---------------------------
(***************************************************************************)
(* The properties of Planner and of the text handling under it, for every  *)
(* text an agent may answer.                                               *)
(*                                                                         *)
(* That a proper answer is decoded rests on three facts: the braces of its *)
(* object are the first and the last of the text (ObjectFound), a fence    *)
(* around the object is found where it starts or before, and ends where it *)
(* does or after, and the header's end is the last line end before the     *)
(* object at which the header may be taken to end (FencedReply). An answer *)
(* that is one object is decoded whole if it has fewer than two fences;    *)
(* with two, what is decoded is shorter (BareReply).                       *)
(***************************************************************************)
EXTENDS Planner, FiniteSetTheorems, WellFoundedInduction, TLAPS

USE TextsAssumption, MaxPlanStepsAssumption

-----------------------------------------------------------------------------
\* The least and the greatest position of a set of them.
Less == {pair \in Nat \X Nat : pair[1] < pair[2]}

LEMMA Least ==
    ASSUME NEW A \in SUBSET Nat, A # {}
    PROVE  \E x \in A : \A y \in A : x <= y
<1>1. IsWellFoundedOn(Less, Nat)
  BY NatLessThanWellFounded DEF OpToRel, Less
<1>2. \E x \in A : \A y \in A : <<y, x>> \notin Less
  BY <1>1, WFMin
<1>3. \A x, y \in Nat : y < x => <<y, x>> \in Less
  BY DEF Less
<1>4. \A x, y \in Nat : x <= y \/ y < x
  OBVIOUS
<1> QED
  BY <1>2, <1>3, <1>4

LEMMA Extremes ==
    ASSUME NEW n \in Nat, NEW A \in SUBSET (1..n), A # {}
    PROVE  /\ Min(A) \in A /\ \A y \in A : Min(A) <= y
           /\ Max(A) \in A /\ \A y \in A : Max(A) >= y
<1>1. \E x \in A : \A y \in A : x <= y
  BY Least
<1>2. \E x \in A : \A y \in A : x >= y
  <2> DEFINE B == {n - x : x \in A}
  <2>0. \A x \in A : x \in 1..n /\ n - x \in Nat
    OBVIOUS
  <2>1. B \in SUBSET Nat /\ B # {}
    BY <2>0
  <2>2. PICK b \in B : \A c \in B : b <= c
    BY <2>1, Least
  <2>3. PICK x \in A : b = n - x
    OBVIOUS
  <2>4. \A y \in A : n - y \in B
    OBVIOUS
  <2> QED
    <3>1. \A y \in A : n - x <= n - y
      BY <2>2, <2>3, <2>4
    <3>2. \A y \in A : x >= y
      BY <2>0, <3>1
    <3> QED
      BY <2>3, <3>2
<1> QED
  BY <1>1, <1>2 DEF Min, Max

-----------------------------------------------------------------------------
\* Pieces of a text.
LEMMA Piece ==
    ASSUME NEW S, NEW s \in Seq(S), NEW a \in Nat \ {0}, NEW b \in 0..Len(s), a <= b + 1
    PROVE  /\ SubSeq(s, a, b) \in Seq(S) /\ Len(SubSeq(s, a, b)) = b - a + 1
           /\ \A k \in 1 .. b - a + 1 : SubSeq(s, a, b)[k] = s[a + k - 1]
OBVIOUS

LEMMA Joined ==
    ASSUME NEW S, NEW s \in Seq(S), NEW t \in Seq(S)
    PROVE  /\ s \o t \in Seq(S) /\ Len(s \o t) = Len(s) + Len(t)
           /\ \A k \in 1..Len(s) : (s \o t)[k] = s[k]
           /\ \A k \in 1..Len(t) : (s \o t)[Len(s) + k] = t[k]
OBVIOUS

LEMMA PieceOfPiece ==
    ASSUME NEW S, NEW s \in Seq(S), NEW a \in Nat \ {0}, NEW b \in 0..Len(s), a <= b + 1,
           NEW i \in Nat \ {0}, NEW j \in 0 .. b - a + 1, i <= j + 1
    PROVE  SubSeq(SubSeq(s, a, b), i, j) = SubSeq(s, a + i - 1, a + j - 1)
<1> DEFINE t == SubSeq(s, a, b)
           u == SubSeq(t, i, j)
           v == SubSeq(s, a + i - 1, a + j - 1)
<1>1. t \in Seq(S) /\ Len(t) = b - a + 1 /\ \A k \in 1 .. b - a + 1 : t[k] = s[a + k - 1]
  BY Piece
<1> HIDE DEF t
<1>2. u \in Seq(S) /\ Len(u) = j - i + 1 /\ \A k \in 1 .. j - i + 1 : u[k] = t[i + k - 1]
  BY <1>1, Piece
<1>3. v \in Seq(S) /\ Len(v) = j - i + 1 /\ \A k \in 1 .. j - i + 1 : v[k] = s[a + i - 1 + k - 1]
  <2>1. /\ a + i - 1 \in Nat \ {0} /\ a + j - 1 \in 0..Len(s)
        /\ a + i - 1 <= (a + j - 1) + 1 /\ (a + j - 1) - (a + i - 1) + 1 = j - i + 1
    OBVIOUS
  <2> QED
    BY <2>1, Piece, SMTT(30)
<1> HIDE DEF u, v
<1>4. \A k \in 1 .. j - i + 1 : u[k] = v[k]
  <2> TAKE k \in 1 .. j - i + 1
  <2>1. i + k - 1 \in 1 .. b - a + 1 /\ a + (i + k - 1) - 1 = a + i - 1 + k - 1
    OBVIOUS
  <2> QED
    BY <1>1, <1>2, <1>3, <2>1
<1>5. u = v
  <2>1. /\ u \in [1 .. j - i + 1 -> S] /\ v \in [1 .. j - i + 1 -> S]
    BY <1>2, <1>3
  <2> QED
    BY <1>4, <2>1
<1> QED
  BY <1>5 DEF t, u, v

-----------------------------------------------------------------------------
\* The braces of one kind among the first n tokens.
Count(t, b, n) == Cardinality(Braces(SubSeq(t, 1, n), b))

LEMMA CountGrows ==
    ASSUME NEW t \in Seq(Tokens), NEW b
    PROVE  /\ Count(t, b, 0) = 0
           /\ \A n \in 0..Len(t) : Count(t, b, n) \in Nat
           /\ \A n \in 0..Len(t) - 1 :
                Count(t, b, n + 1) = Count(t, b, n) + (IF t[n + 1] = b THEN 1 ELSE 0)
<1> DEFINE B(n) == {i \in 1..n : t[i] = b}
<1>1. ASSUME NEW n \in 0..Len(t) PROVE Count(t, b, n) = Cardinality(B(n))
  <2>1. 1 <= n + 1 /\ 1 \in Nat \ {0} /\ n - 1 + 1 = n /\ \A k \in 1..n : 1 + k - 1 = k
    OBVIOUS
  <2>2. Len(SubSeq(t, 1, n)) = n /\ \A k \in 1..n : SubSeq(t, 1, n)[k] = t[k]
    BY <2>1, Piece, SMTT(30)
  <2>3. SubSeq(t, 1, n) \in Seq(Tokens)
    BY <2>1, Piece, SMTT(30)
  <2>4. DOMAIN SubSeq(t, 1, n) = 1..n
    BY <2>2, <2>3
  <2>5. Braces(SubSeq(t, 1, n), b) = B(n)
    BY <2>2, <2>4 DEF Braces
  <2> QED
    BY <2>5 DEF Count
<1>2. ASSUME NEW n \in 0..Len(t) PROVE IsFiniteSet(B(n)) /\ Cardinality(B(n)) \in Nat
  <2>1. IsFiniteSet(1..n) /\ B(n) \in SUBSET (1..n)
    BY FS_Interval
  <2> HIDE DEF B
  <2>2. IsFiniteSet(B(n))
    BY <2>1, FS_Subset
  <2> QED
    BY <2>2, FS_CardinalityType
<1>3. ASSUME NEW n \in 0..Len(t) - 1
      PROVE  Cardinality(B(n + 1)) = Cardinality(B(n)) + (IF t[n + 1] = b THEN 1 ELSE 0)
  <2>1. n \in 0..Len(t) /\ n + 1 \notin B(n)
    OBVIOUS
  <2>2. B(n + 1) = IF t[n + 1] = b THEN B(n) \cup {n + 1} ELSE B(n)
    OBVIOUS
  <2>3. IsFiniteSet(B(n)) /\ Cardinality(B(n)) \in Nat
    BY <1>2, <2>1
  <2> HIDE DEF B
  <2>4. Cardinality(B(n) \cup {n + 1}) = Cardinality(B(n)) + 1
    BY <2>1, <2>3, FS_AddElement
  <2> QED
    BY <2>2, <2>3, <2>4
<1>4. Cardinality(B(0)) = 0
  <2>1. B(0) = {}
    OBVIOUS
  <2> QED
    BY <2>1, FS_EmptySet
<1> HIDE DEF B
<1>5. 0 \in 0..Len(t) /\ \A n \in 0..Len(t) - 1 : n \in 0..Len(t) /\ n + 1 \in 0..Len(t)
  OBVIOUS
<1> QED
  BY <1>1, <1>2, <1>3, <1>4, <1>5

\* An object ends with a closing brace: the braces open never get negative
\* before the end.
LEMMA BalancedEnds ==
    ASSUME NEW t \in Seq(Tokens), t # <<>>, t[1] = "open",
           \A n \in DOMAIN t : Count(t, "open", n) = Count(t, "close", n) <=> n = Len(t)
    PROVE  Len(t) >= 2 /\ t[1] = "open" /\ t[Len(t)] = "close"
<1> DEFINE D(n) == Count(t, "open", n) - Count(t, "close", n)
<1>1. Len(t) \in Nat \ {0} /\ t[1] = "open"
  OBVIOUS
<1>2. \A n \in 1..Len(t) : Count(t, "open", n) = Count(t, "close", n) <=> n = Len(t)
  OBVIOUS
<1>3. /\ \A n \in 0..Len(t) : D(n) \in Int
      /\ D(0) = 0
      /\ \A n \in 0..Len(t) - 1 :
           D(n + 1) = D(n) + (IF t[n + 1] = "open" THEN 1 ELSE IF t[n + 1] = "close" THEN -1 ELSE 0)
  <2>1. "open" # "close"
    OBVIOUS
  <2>2. \A n \in 0..Len(t) - 1 : n \in 0..Len(t) /\ n + 1 \in 0..Len(t)
    OBVIOUS
  <2>3. /\ Count(t, "open", 0) = 0 /\ Count(t, "close", 0) = 0
        /\ \A n \in 0..Len(t) : Count(t, "open", n) \in Nat /\ Count(t, "close", n) \in Nat
    BY CountGrows
  <2>4. ASSUME NEW n \in 0..Len(t) - 1
        PROVE  /\ Count(t, "open", n + 1) = Count(t, "open", n) + (IF t[n + 1] = "open" THEN 1 ELSE 0)
               /\ Count(t, "close", n + 1) = Count(t, "close", n) + (IF t[n + 1] = "close" THEN 1 ELSE 0)
    BY CountGrows
  <2>5. ASSUME NEW n \in 0..Len(t) - 1
        PROVE  D(n + 1) = D(n) + (IF t[n + 1] = "open" THEN 1 ELSE IF t[n + 1] = "close" THEN -1 ELSE 0)
    BY <2>1, <2>2, <2>3, <2>4, SMTT(30)
  <2> QED
    BY <2>3, <2>5
<1>4. \A n \in 1..Len(t) : D(n) = 0 <=> n = Len(t)
  <2>1. \A n \in 1..Len(t) : Count(t, "open", n) \in Nat /\ Count(t, "close", n) \in Nat
    BY CountGrows
  <2> QED
    BY <1>2, <2>1
<1> HIDE DEF D
<1>5. D(1) = 1
  <2>1. 0 \in 0..Len(t) - 1 /\ 0 + 1 = 1
    BY <1>1
  <2> QED
    BY <1>1, <1>3, <2>1
<1>6. Len(t) >= 2
  BY <1>1, <1>4, <1>5
<1>7. \A n \in 1..Len(t) : D(n) >= 0
  <2> SUFFICES ASSUME NEW m \in 1..Len(t), D(m) < 0 PROVE FALSE
    BY <1>3
  <2> DEFINE A == {n \in 1..Len(t) : D(n) < 0}
  <2>1. A \in SUBSET Nat /\ A # {}
    OBVIOUS
  <2>2. PICK x \in A : \A y \in A : x <= y
    BY <2>1, Least
  <2>3. x \in 1..Len(t) /\ D(x) < 0 /\ x # 1
    BY <1>5
  <2>4. x - 1 \in 1..Len(t) /\ x - 1 \notin A /\ x - 1 \in 0..Len(t) - 1 /\ (x - 1) + 1 = x
    BY <2>2, <2>3
  <2>5. D(x - 1) \in Int /\ D(x - 1) >= 0 /\ D(x - 1) # 0
    BY <1>3, <1>4, <2>4
  <2>6. D(x) >= D(x - 1) - 1
    BY <1>3, <2>4, SMTT(30)
  <2> QED
    <3>1. D(x - 1) >= 1 /\ D(x) \in Int
      BY <1>3, <2>3, <2>5
    <3> QED
      BY <2>3, <2>5, <2>6, <3>1
<1>8. /\ Len(t) - 1 \in 1..Len(t) /\ Len(t) - 1 \in 0..Len(t) - 1 /\ (Len(t) - 1) + 1 = Len(t)
      /\ Len(t) \in 1..Len(t)
  BY <1>1, <1>6
<1>9. D(Len(t) - 1) > 0 /\ D(Len(t)) = 0
  <2>1. D(Len(t) - 1) >= 0 /\ D(Len(t) - 1) # 0 /\ D(Len(t) - 1) \in Int
    <3> DEFINE n == Len(t) - 1
    <3>1. n # Len(t) /\ n \in 0..Len(t) /\ n \in 1..Len(t)
      BY <1>1, <1>6
    <3> HIDE DEF n
    <3>2. D(n) >= 0 /\ D(n) # 0 /\ D(n) \in Int
      BY <1>3, <1>4, <1>7, <3>1
    <3> QED
      BY <3>2 DEF n
  <2>2. D(Len(t)) = 0
    BY <1>4, <1>8
  <2> QED
    BY <2>1, <2>2
<1>10. t[Len(t)] = "close"
  BY <1>3, <1>8, <1>9
<1> QED
  BY <1>1, <1>6, <1>10

LEMMA ObjectEnds ==
    ASSUME NEW t \in Seq(Tokens), IsObject(t)
    PROVE  Len(t) >= 2 /\ t[1] = "open" /\ t[Len(t)] = "close"
<1>1. /\ t # <<>> /\ t[1] = "open"
      /\ \A n \in DOMAIN t : Count(t, "open", n) = Count(t, "close", n) <=> n = Len(t)
  BY Zenon DEF IsObject, Count
<1> QED
  BY <1>1, BalancedEnds, Zenon

-----------------------------------------------------------------------------
\* Braces only from the one at i to the one at j: that is what is found, also in
\* a piece of the text around it.
LEMMA ObjectFound ==
    ASSUME NEW text \in Seq(Tokens),
           NEW a \in Nat \ {0}, NEW b \in 0..Len(text), NEW i \in a..b, NEW j \in i..b,
           text[i] = "open", text[j] = "close",
           \A k \in a..b : text[k] \in {"open", "close"} => k \in i..j
    PROVE  Object(SubSeq(text, a, b)) = SubSeq(text, i, j)
<1> DEFINE s == SubSeq(text, a, b)
           opens == Braces(s, "open")
           closes == Braces(s, "close")
<1>1. a <= b + 1 /\ b - a + 1 \in Nat
  OBVIOUS
<1>2. s \in Seq(Tokens) /\ Len(s) = b - a + 1 /\ \A k \in 1 .. b - a + 1 : s[k] = text[a + k - 1]
  BY <1>1, Piece
<1>3. DOMAIN s = 1 .. b - a + 1
  BY <1>2
<1> HIDE DEF s
<1>4. opens \in SUBSET (1 .. b - a + 1) /\ closes \in SUBSET (1 .. b - a + 1)
  BY <1>3 DEF Braces
<1>5. i - a + 1 \in opens /\ j - a + 1 \in closes
  <2>1. /\ i - a + 1 \in 1 .. b - a + 1 /\ j - a + 1 \in 1 .. b - a + 1
        /\ a + (i - a + 1) - 1 = i /\ a + (j - a + 1) - 1 = j
    OBVIOUS
  <2> QED
    BY <1>2, <1>3, <2>1 DEF Braces
<1>6. \A k \in opens \cup closes : i - a + 1 <= k /\ k <= j - a + 1
  <2> TAKE k \in opens \cup closes
  <2>1. k \in 1 .. b - a + 1 /\ s[k] \in {"open", "close"}
    BY <1>3 DEF Braces
  <2>2. a + k - 1 \in a..b /\ text[a + k - 1] \in {"open", "close"}
    BY <1>2, <2>1
  <2>3. a + k - 1 \in i..j
    BY <2>2
  <2> QED
    BY <2>1, <2>3
<1> HIDE DEF opens, closes
<1>7. /\ Min(opens) \in opens /\ \A k \in opens : Min(opens) <= k
      /\ Max(closes) \in closes /\ \A k \in closes : Max(closes) >= k
  BY <1>1, <1>4, <1>5, Extremes
<1>8. Min(opens) = i - a + 1 /\ Max(closes) = j - a + 1
  <2>1. Min(opens) \in Int /\ Max(closes) \in Int /\ i - a + 1 \in Int /\ j - a + 1 \in Int
    <3>1. \A k \in opens \cup closes : k \in Int
      BY <1>4
    <3> QED
      BY <1>7, <3>1
  <2>2. Min(opens) <= i - a + 1 /\ Max(closes) >= j - a + 1
    BY <1>5, <1>7
  <2>3. Min(opens) >= i - a + 1 /\ Max(closes) <= j - a + 1
    BY <1>6, <1>7, <2>1
  <2> QED
    BY <2>1, <2>2, <2>3
<1>9. Object(s) = SubSeq(s, i - a + 1, j - a + 1)
  <2>1. ~(i - a + 1 > j - a + 1) /\ opens # {} /\ closes # {}
    BY <1>5
  <2> QED
    BY <1>8, <2>1 DEF Object, opens, closes
<1>10. SubSeq(s, i - a + 1, j - a + 1) = SubSeq(text, i, j)
  <2>1. /\ i - a + 1 \in Nat \ {0} /\ j - a + 1 \in 0 .. b - a + 1 /\ i - a + 1 <= (j - a + 1) + 1
        /\ a + (i - a + 1) - 1 = i /\ a + (j - a + 1) - 1 = j
    OBVIOUS
  <2> QED
    BY <1>1, <2>1, PieceOfPiece DEF s
<1> QED
  BY <1>9, <1>10 DEF s

\* A set of two different members, or more.
LEMMA TwoMembers ==
    ASSUME NEW A, IsFiniteSet(A), NEW x \in A, NEW y \in A, x # y
    PROVE  ~(Cardinality(A) < 2)
<1>1. Cardinality({x, y}) = 2
  <2>1. {x, y} = {x} \cup {y} /\ y \notin {x}
    OBVIOUS
  <2>2. IsFiniteSet({x}) /\ Cardinality({x}) = 1
    BY FS_Singleton
  <2> DEFINE both == {x} \cup {y}
  <2>3. Cardinality(both) = 1 + 1
    BY <2>1, <2>2, FS_AddElement
  <2> HIDE DEF both
  <2>4. Cardinality(both) = 2
    BY <2>3
  <2> QED
    BY <2>1, <2>4, Zenon DEF both
<1>2. {x, y} \in SUBSET A
  OBVIOUS
<1>3. Cardinality({x, y}) <= Cardinality(A) /\ Cardinality(A) \in Nat
  BY <1>2, FS_Subset, FS_CardinalityType
<1> QED
  BY <1>1, <1>3

\* The fences of a text are finitely many positions in it.
LEMMA FencesFinite ==
    ASSUME NEW text \in Seq(Tokens)
    PROVE  Fences(text) \in SUBSET (1..Len(text)) /\ IsFiniteSet(Fences(text)) /\ Len(text) \in Nat
<1>1. Fences(text) \in SUBSET (1..Len(text)) /\ Len(text) \in Nat
  BY DEF Fences
<1>2. IsFiniteSet(1..Len(text))
  BY <1>1, FS_Interval
<1> QED
  BY <1>1, <1>2, FS_Subset

\* Fewer than two fences: nothing is stripped, and nothing overlaps.
LEMMA FewFences ==
    ASSUME NEW text \in Seq(Tokens), Cardinality(Fences(text)) < 2
    PROVE  ~SlicePanics(text) /\ Stripped(text) = text
<1>1. Stripped(text) = text
  BY Zenon DEF Stripped
<1>2. ASSUME SlicePanics(text) PROVE FALSE
  <2> DEFINE fences == Fences(text)
  <2>1. fences # {} /\ Max(fences) \in Min(fences) + 1 .. Min(fences) + 2
    BY <1>2, Zenon DEF SlicePanics
  <2>2. fences \in SUBSET (1..Len(text)) /\ IsFiniteSet(fences) /\ Len(text) \in Nat
    BY FencesFinite
  <2>3. ~(Cardinality(fences) < 2) => FALSE
    BY Zenon
  <2> HIDE DEF fences
  <2>4. Min(fences) \in fences /\ Max(fences) \in fences
    BY <2>1, <2>2, Extremes
  <2>5. Min(fences) # Max(fences)
    BY <2>1, <2>2, <2>4
  <2> QED
    BY <2>2, <2>3, <2>4, <2>5, TwoMembers, Zenon
<1> QED
  BY <1>1, <1>2

\* The outermost fences enclose the object: what is within them does, too, with
\* the header or without.
LEMMA FencedReply ==
    ASSUME NEW text \in Seq(Tokens), NEW i \in 1..Len(text), NEW j \in i..Len(text),
           NEW f \in Fences(text), f + 4 <= i, text[i - 1] = "newline",
           NEW c \in Fences(text), c > j
    PROVE  /\ ~SlicePanics(text)
           /\ \E a \in 1..i : \E b \in j..Len(text) : Stripped(text) = SubSeq(text, a, b)
<1> DEFINE fences == Fences(text)
           a == Min(fences) + 3
           b == Max(fences) - 1
           content == SubSeq(text, a, b)
           Ends == {k \in 1..Len(content) : content[k] = "newline"}
<1>1. fences \in SUBSET (1..Len(text)) /\ IsFiniteSet(fences) /\ Len(text) \in Nat
  BY FencesFinite
<1>2. /\ Min(fences) \in fences /\ Min(fences) <= f /\ Max(fences) \in fences /\ Max(fences) >= c
  <2>1. f \in fences /\ c \in fences
    OBVIOUS
  <2> HIDE DEF fences
  <2> QED
    BY <1>1, <2>1, Extremes
<1>3. ~(Cardinality(fences) < 2)
  <2>1. f \in fences /\ c \in fences /\ f # c
    BY <1>1
  <2> HIDE DEF fences
  <2> QED
    BY <1>1, <2>1, TwoMembers
<1>4. /\ a \in Nat \ {0} /\ b \in 0..Len(text) /\ a + 1 <= i /\ j <= b /\ a <= b + 1
  <2>1. Min(fences) \in 1..Len(text) /\ Max(fences) \in 1..Len(text) /\ f \in Int /\ c \in Int
    BY <1>1, <1>2
  <2> QED
    BY <1>2, <2>1
<1>5. ~SlicePanics(text)
  <2>1. Min(fences) \in Int /\ Max(fences) \in Int /\ Max(fences) > Min(fences) + 2
    BY <1>1, <1>2, <1>4, SMTT(30)
  <2> QED
    BY <2>1 DEF SlicePanics
<1>6. Stripped(text) = WithoutHeader(content)
  BY <1>3, Zenon DEF Stripped
<1> HIDE DEF fences, a, b
<1>7. /\ content \in Seq(Tokens) /\ Len(content) = b - a + 1
      /\ \A k \in 1 .. b - a + 1 : content[k] = text[a + k - 1]
  BY <1>4, Piece
<1>8. i - a \in Ends
  <2>1. i - a \in 1 .. b - a + 1 /\ a + (i - a) - 1 = i - 1
    BY <1>4
  <2> QED
    BY <1>7, <2>1
<1> DEFINE first == SelectInSeq(content, LAMBDA t : t = "newline")
<1>9. first \in 1..Len(content) /\ first <= i - a
  <2>1. first = Min(Ends)
    BY <1>8 DEF SelectInSeq
  <2>2. Ends \in SUBSET (1..Len(content)) /\ Len(content) \in Nat
    BY <1>7
  <2> HIDE DEF Ends, first
  <2>3. Min(Ends) \in Ends /\ Min(Ends) <= i - a
    BY <1>8, <2>2, Extremes
  <2> QED
    BY <2>1, <2>2, <2>3
<1>10. Len(Header(content)) = first - 1
  <2>1. Header(content) = SubSeq(content, 1, first - 1)
    BY DEF Header
  <2> HIDE DEF first, content
  <2>2. first - 1 \in 0..Len(content) /\ 1 <= first - 1 + 1 /\ 1 \in Nat \ {0} /\ first - 1 - 1 + 1 = first - 1
    BY <1>9
  <2>3. Len(SubSeq(content, 1, first - 1)) = first - 1 - 1 + 1
    BY <1>7, <2>2, Piece
  <2> QED
    BY <2>1, <2>2, <2>3
<1> HIDE DEF first
<1>11. \/ WithoutHeader(content) = SubSeq(text, a, b)
       \/ WithoutHeader(content) = SubSeq(text, a + first, b)
  <2>1. \/ WithoutHeader(content) = content
        \/ WithoutHeader(content) = SubSeq(content, Len(Header(content)) + 2, Len(content))
    BY Zenon DEF WithoutHeader
  <2>2. /\ Len(Header(content)) + 2 = first + 1 /\ first + 1 \in Nat \ {0}
        /\ Len(content) \in 0 .. b - a + 1 /\ first + 1 <= Len(content) + 1
        /\ a + (first + 1) - 1 = a + first /\ a + Len(content) - 1 = b
    BY <1>4, <1>7, <1>9, <1>10
  <2>3. SubSeq(SubSeq(text, a, b), first + 1, Len(content)) = SubSeq(text, a + (first + 1) - 1, a + Len(content) - 1)
    <3> DEFINE m == first + 1
               n == Len(content)
    <3>1. /\ a \in Nat \ {0} /\ b \in 0..Len(text) /\ a <= b + 1
          /\ m \in Nat \ {0} /\ n \in 0 .. b - a + 1 /\ m <= n + 1
      BY <1>4, <2>2
    <3> HIDE DEF m, n
    <3>2. SubSeq(SubSeq(text, a, b), m, n) = SubSeq(text, a + m - 1, a + n - 1)
      BY <3>1, PieceOfPiece
    <3> QED
      BY <3>2 DEF m, n
  <2> QED
    BY <2>1, <2>2, <2>3
<1>12. a \in 1..i /\ a + first \in 1..i /\ b \in j..Len(text)
  BY <1>4, <1>9
<1> QED
  BY <1>5, <1>6, <1>11, <1>12

-----------------------------------------------------------------------------
\* The header's fence before the object, and the one after it.
LEMMA FenceBefore ==
    ASSUME NEW text \in Seq(Tokens), NEW i \in 1..Len(text),
           NEW header \in {<<"newline">>, <<"json", "newline">>, <<"other", "newline">>},
           IsSuffix(Ticks(3) \o header, SubSeq(text, 1, i - 1))
    PROVE  text[i - 1] = "newline" /\ \E f \in Fences(text) : f + 4 <= i
<1> DEFINE before == SubSeq(text, 1, i - 1)
           fence == Ticks(3) \o header
           h == Len(header)
<1>1. before \in Seq(Tokens) /\ Len(before) = i - 1 /\ \A k \in 1 .. i - 1 : before[k] = text[k]
  <2>1. i - 1 \in 0..Len(text) /\ 1 \in Nat \ {0} /\ 1 <= (i - 1) + 1 /\ (i - 1) - 1 + 1 = i - 1
        /\ \A k \in 1 .. i - 1 : 1 + k - 1 = k
    OBVIOUS
  <2>2. /\ before \in Seq(Tokens) /\ Len(before) = (i - 1) - 1 + 1
        /\ \A k \in 1 .. (i - 1) - 1 + 1 : before[k] = text[1 + k - 1]
    BY <2>1, Piece, SMTT(30)
  <2> QED
    BY <2>1, <2>2
<1>2. h \in {1, 2} /\ header \in Seq(Tokens) /\ header[h] = "newline"
  <2>1. "newline" \in Tokens /\ "json" \in Tokens /\ "other" \in Tokens
    BY DEF Tokens
  <2>2. CASE header = <<"newline">>
    BY <2>1, <2>2
  <2>3. CASE header = <<"json", "newline">>
    BY <2>1, <2>3
  <2>4. CASE header = <<"other", "newline">>
    BY <2>1, <2>4
  <2> QED
    BY <2>2, <2>3, <2>4
<1>3. /\ fence \in Seq(Tokens) /\ Len(fence) = 3 + h
      /\ \A k \in 1..3 : fence[k] = "tick"
      /\ fence[3 + h] = "newline"
  <2>1. Ticks(3) \in Seq(Tokens) /\ Len(Ticks(3)) = 3 /\ \A k \in 1..3 : Ticks(3)[k] = "tick"
    <3>1. "tick" \in Tokens
      BY DEF Tokens
    <3> QED
      BY <3>1 DEF Ticks
  <2> DEFINE ticks == Ticks(3)
  <2>2. ticks \in Seq(Tokens) /\ Len(ticks) = 3 /\ \A k \in 1..3 : ticks[k] = "tick"
    BY <2>1
  <2> HIDE DEF ticks, h
  <2>3. h \in 1..h /\ h \in Nat
    BY <1>2
  <2>4. header \in Seq(Tokens) /\ Len(header) = h
    BY <1>2 DEF h
  <2>5. /\ ticks \o header \in Seq(Tokens) /\ Len(ticks \o header) = 3 + h
        /\ \A k \in 1..3 : (ticks \o header)[k] = ticks[k]
        /\ \A k \in 1..h : (ticks \o header)[3 + k] = header[k]
    <3>1. /\ ticks \o header \in Seq(Tokens) /\ Len(ticks \o header) = Len(ticks) + Len(header)
          /\ \A k \in 1..Len(ticks) : (ticks \o header)[k] = ticks[k]
          /\ \A k \in 1..Len(header) : (ticks \o header)[Len(ticks) + k] = header[k]
      <4>1. ticks \in Seq(Tokens) /\ header \in Seq(Tokens)
        BY <2>2, <2>4
      <4> QED
        BY ONLY <4>1, Joined
    <3> QED
      BY <2>2, <2>4, <3>1
  <2> QED
    BY <1>2, <2>2, <2>3, <2>5 DEF ticks
<1> HIDE DEF before, fence, h
<1>4. /\ 3 + h <= i - 1
      /\ \A k \in 1 .. 3 + h : fence[k] = before[i - 1 - (3 + h) + k]
  <2> DEFINE rf == Reverse(fence)
             rb == Reverse(before)
             n == 3 + h
  <2>1. n \in Nat /\ n >= 4
    BY <1>2
  <2>2. /\ rf \in Seq(Tokens) /\ Len(rf) = n /\ \A k \in 1..n : rf[k] = fence[n - k + 1]
    <3>1. Len(fence) = n /\ \A k \in 1..n : n - k + 1 \in 1..n /\ fence[n - k + 1] \in Tokens
      BY <1>3, <2>1
    <3> QED
      BY <2>1, <3>1 DEF Reverse
  <2>3. /\ rb \in Seq(Tokens) /\ Len(rb) = i - 1 /\ \A k \in 1 .. i - 1 : rb[k] = before[(i - 1) - k + 1]
    BY <1>1 DEF Reverse
  <2>4. Len(rf) <= Len(rb) /\ SubSeq(rf, 1, Len(rf)) = SubSeq(rb, 1, Len(rf))
    BY Zenon DEF IsSuffix, IsPrefix, before, fence
  <2> HIDE DEF rf, rb, n
  <2>5. n <= i - 1 /\ n \in 0..Len(rb) /\ n \in 0..Len(rf) /\ 1 \in Nat \ {0} /\ 1 <= n + 1
        /\ n - 1 + 1 = n /\ \A k \in 1..n : 1 + k - 1 = k
    BY <2>1, <2>2, <2>3, <2>4
  <2>6. \A k \in 1..n : SubSeq(rf, 1, n)[k] = rf[k] /\ SubSeq(rb, 1, n)[k] = rb[k]
    BY <2>2, <2>3, <2>5, Piece
  <2>7. \A k \in 1..n : rf[k] = rb[k]
    BY <2>2, <2>4, <2>6
  <2>8. ASSUME NEW k \in 1..n PROVE fence[k] = before[i - 1 - n + k]
    <3> DEFINE m == n - k + 1
    <3>1. m \in 1..n /\ m \in 1 .. i - 1 /\ n - m + 1 = k /\ (i - 1) - m + 1 = i - 1 - n + k
      BY <2>1, <2>5
    <3> HIDE DEF m
    <3>2. rf[m] = fence[k] /\ rb[m] = before[i - 1 - n + k]
      BY <2>2, <2>3, <3>1
    <3> QED
      BY <2>7, <3>1, <3>2
  <2> QED
    BY <2>5, <2>8 DEF n
<1> DEFINE f == i - 1 - (3 + h) + 1
<1>5. f \in 1..Len(text) /\ f + 2 <= Len(text) /\ f + 4 <= i
  BY <1>2, <1>4
<1>6. \A k \in f .. f + 2 : text[k] = "tick"
  <2> TAKE k \in f .. f + 2
  <2>1. k - f + 1 \in 1..3 /\ k - f + 1 \in 1 .. 3 + h /\ i - 1 - (3 + h) + (k - f + 1) = k /\ k \in 1 .. i - 1
    BY <1>2, <1>4
  <2>2. fence[k - f + 1] = before[k]
    BY <1>4, <2>1
  <2> QED
    BY <1>1, <1>3, <2>1, <2>2
<1>7. text[i - 1] = "newline"
  <2>1. 3 + h \in 1 .. 3 + h /\ i - 1 - (3 + h) + (3 + h) = i - 1 /\ i - 1 \in 1 .. i - 1
    BY <1>2, <1>4
  <2>2. fence[3 + h] = before[i - 1]
    BY <1>4, <2>1
  <2> QED
    BY <1>1, <1>3, <2>1, <2>2
<1>8. f \in Fences(text)
  BY <1>5, <1>6 DEF Fences
<1> QED
  BY <1>5, <1>7, <1>8

LEMMA FenceAfter ==
    ASSUME NEW text \in Seq(Tokens), NEW j \in 1..Len(text), NEW margin \in {<<>>, <<"newline">>},
           IsPrefix(margin \o Ticks(3), SubSeq(text, j + 1, Len(text)))
    PROVE  \E c \in Fences(text) : c > j
<1> DEFINE after == SubSeq(text, j + 1, Len(text))
           fence == margin \o Ticks(3)
           m == Len(margin)
<1>1. /\ after \in Seq(Tokens) /\ Len(after) = Len(text) - j
      /\ \A k \in 1 .. Len(text) - j : after[k] = text[j + k]
  <2>1. /\ Len(text) \in 0..Len(text) /\ j + 1 \in Nat \ {0} /\ j + 1 <= Len(text) + 1
        /\ Len(text) - (j + 1) + 1 = Len(text) - j
        /\ \A k \in 1 .. Len(text) - j : (j + 1) + k - 1 = j + k
    OBVIOUS
  <2>2. /\ after \in Seq(Tokens) /\ Len(after) = Len(text) - (j + 1) + 1
        /\ \A k \in 1 .. Len(text) - (j + 1) + 1 : after[k] = text[(j + 1) + k - 1]
    BY <2>1, Piece, SMTT(30)
  <2> QED
    BY <2>1, <2>2
<1>2. m \in {0, 1} /\ margin \in Seq(Tokens)
  <2>1. "newline" \in Tokens
    BY DEF Tokens
  <2>2. CASE margin = <<>>
    BY <2>2
  <2>3. CASE margin = <<"newline">>
    BY <2>1, <2>3
  <2> QED
    BY <2>2, <2>3
<1>3. /\ fence \in Seq(Tokens) /\ Len(fence) = m + 3
      /\ \A k \in 1..3 : fence[m + k] = "tick"
  <2>1. Ticks(3) \in Seq(Tokens) /\ Len(Ticks(3)) = 3 /\ \A k \in 1..3 : Ticks(3)[k] = "tick"
    <3>1. "tick" \in Tokens
      BY DEF Tokens
    <3> QED
      BY <3>1 DEF Ticks
  <2> DEFINE ticks == Ticks(3)
  <2>2. ticks \in Seq(Tokens) /\ Len(ticks) = 3 /\ \A k \in 1..3 : ticks[k] = "tick"
    BY <2>1
  <2> HIDE DEF ticks, m
  <2>3. margin \in Seq(Tokens) /\ Len(margin) = m /\ m \in Nat
    BY <1>2 DEF m
  <2>4. /\ margin \o ticks \in Seq(Tokens) /\ Len(margin \o ticks) = m + 3
        /\ \A k \in 1..3 : (margin \o ticks)[m + k] = ticks[k]
    <3>1. /\ margin \o ticks \in Seq(Tokens) /\ Len(margin \o ticks) = Len(margin) + Len(ticks)
          /\ \A k \in 1..Len(ticks) : (margin \o ticks)[Len(margin) + k] = ticks[k]
      <4>1. margin \in Seq(Tokens) /\ ticks \in Seq(Tokens)
        BY <2>2, <2>3
      <4> QED
        BY ONLY <4>1, Joined
    <3> QED
      BY <2>2, <2>3, <3>1
  <2> QED
    BY <2>2, <2>4 DEF ticks
<1>4. Len(fence) <= Len(after) /\ SubSeq(fence, 1, Len(fence)) = SubSeq(after, 1, Len(fence))
  BY Zenon DEF IsPrefix
<1> HIDE DEF after, fence, m
<1>5. /\ m + 3 \in 0..Len(after) /\ m + 3 \in 0..Len(fence) /\ 1 \in Nat \ {0} /\ 1 <= (m + 3) + 1
      /\ (m + 3) - 1 + 1 = m + 3 /\ \A k \in 1 .. m + 3 : 1 + k - 1 = k
  BY <1>1, <1>2, <1>3, <1>4
<1>6. \A k \in 1 .. m + 3 : fence[k] = after[k]
  <2>1. \A k \in 1 .. m + 3 : SubSeq(fence, 1, m + 3)[k] = fence[k] /\ SubSeq(after, 1, m + 3)[k] = after[k]
    BY <1>1, <1>3, <1>5, Piece
  <2> QED
    BY <1>3, <1>4, <2>1
<1> DEFINE c == j + m + 1
<1>7. c \in 1..Len(text) /\ c + 2 <= Len(text) /\ c > j
  BY <1>1, <1>2, <1>3, <1>4
<1>8. \A k \in c .. c + 2 : text[k] = "tick"
  <2> TAKE k \in c .. c + 2
  <2> DEFINE n == k - c + 1
  <2>1. n \in 1..3 /\ m + n \in 1 .. m + 3 /\ m + n \in 1 .. Len(text) - j /\ j + (m + n) = k
    BY <1>1, <1>2, <1>5
  <2> HIDE DEF n, c
  <2> QED
    BY <1>1, <1>3, <1>6, <2>1
<1>9. c \in Fences(text)
  BY <1>7, <1>8 DEF Fences
<1> QED
  BY <1>7, <1>9

-----------------------------------------------------------------------------
\* The first object of a proper answer: where it ends, and that there are no
\* braces but its own.
LEMMA SpanEnds ==
    ASSUME NEW text \in Seq(Tokens), NEW i \in 1..Len(text), NEW j \in 1..Len(text),
           IsObject(SubSeq(text, i, j))
    PROVE  i <= j /\ text[i] = "open" /\ text[j] = "close"
<1> DEFINE t == SubSeq(text, i, j)
<1>1. t # <<>>
  BY Zenon DEF IsObject
<1>2. i <= j
  <2>1. i > j => t = <<>>
    OBVIOUS
  <2> QED
    BY <1>1, <2>1
<1>3. /\ i \in Nat \ {0} /\ j \in 0..Len(text) /\ i <= j + 1 /\ j - i + 1 \in 1 .. j - i + 1
      /\ 1 \in 1 .. j - i + 1 /\ i + 1 - 1 = i /\ i + (j - i + 1) - 1 = j
  BY <1>2
<1>4. t \in Seq(Tokens) /\ Len(t) = j - i + 1 /\ \A k \in 1 .. j - i + 1 : t[k] = text[i + k - 1]
  BY <1>3, Piece
<1>5. t[1] = "open" /\ t[Len(t)] = "close"
  BY <1>4, ObjectEnds, Zenon
<1> HIDE DEF t
<1> QED
  BY <1>2, <1>3, <1>4, <1>5

LEMMA OwnBraces ==
    ASSUME NEW text \in Seq(Tokens), NEW i \in 1..Len(text), NEW j \in i..Len(text),
           \A k \in 1 .. i - 1 : text[k] # "open",
           Braces(SubSeq(text, j + 1, Len(text)), "open") = {},
           Braces(SubSeq(text, 1, i - 1) \o SubSeq(text, j + 1, Len(text)), "close") = {}
    PROVE  \A k \in 1..Len(text) : text[k] \in {"open", "close"} => k \in i..j
<1> DEFINE before == SubSeq(text, 1, i - 1)
           after == SubSeq(text, j + 1, Len(text))
<1>1. before \in Seq(Tokens) /\ Len(before) = i - 1 /\ \A k \in 1 .. i - 1 : before[k] = text[k]
  <2>1. i - 1 \in 0..Len(text) /\ 1 \in Nat \ {0} /\ 1 <= (i - 1) + 1 /\ (i - 1) - 1 + 1 = i - 1
        /\ \A k \in 1 .. i - 1 : 1 + k - 1 = k
    OBVIOUS
  <2>2. /\ before \in Seq(Tokens) /\ Len(before) = (i - 1) - 1 + 1
        /\ \A k \in 1 .. (i - 1) - 1 + 1 : before[k] = text[1 + k - 1]
    BY <2>1, Piece, SMTT(30)
  <2> QED
    BY <2>1, <2>2
<1>2. /\ after \in Seq(Tokens) /\ Len(after) = Len(text) - j
      /\ \A k \in 1 .. Len(text) - j : after[k] = text[j + k]
  <2>1. /\ Len(text) \in 0..Len(text) /\ j + 1 \in Nat \ {0} /\ j + 1 <= Len(text) + 1
        /\ Len(text) - (j + 1) + 1 = Len(text) - j
        /\ \A k \in 1 .. Len(text) - j : (j + 1) + k - 1 = j + k
    OBVIOUS
  <2>2. /\ after \in Seq(Tokens) /\ Len(after) = Len(text) - (j + 1) + 1
        /\ \A k \in 1 .. Len(text) - (j + 1) + 1 : after[k] = text[(j + 1) + k - 1]
    BY <2>1, Piece, SMTT(30)
  <2> QED
    BY <2>1, <2>2
<1>3. \A k \in DOMAIN after : after[k] # "open"
  BY Zenon DEF Braces
<1>4. \A k \in DOMAIN (before \o after) : (before \o after)[k] # "close"
  BY Zenon DEF Braces
<1> HIDE DEF before, after
<1>5. ASSUME NEW k \in 1 .. i - 1 PROVE text[k] \notin {"open", "close"}
  <2>1. k \in DOMAIN (before \o after) /\ (before \o after)[k] = before[k]
    BY <1>1, <1>2
  <2> QED
    BY <1>1, <1>4, <2>1
<1>6. ASSUME NEW k \in 1 .. Len(text) - j PROVE text[j + k] \notin {"open", "close"}
  <2>1. i - 1 + k \in DOMAIN (before \o after) /\ (before \o after)[i - 1 + k] = after[k] /\ k \in DOMAIN after
    BY <1>1, <1>2
  <2> QED
    BY <1>2, <1>3, <1>4, <2>1
<1>7. ASSUME NEW k \in 1..Len(text), text[k] \in {"open", "close"} PROVE k \in i..j
  <2>1. CASE k < i
    <3>1. k \in 1 .. i - 1
      BY <2>1
    <3> QED
      BY <1>5, <1>7, <3>1
  <2>2. CASE k > j
    <3>1. k - j \in 1 .. Len(text) - j /\ j + (k - j) = k
      BY <2>2
    <3> QED
      BY <1>6, <1>7, <3>1
  <2> QED
    BY <2>1, <2>2
<1> QED
  BY <1>7

\* A proper answer's object is found.
LEMMA ProperFound ==
    ASSUME NEW text \in Seq(Tokens), Proper(text)
    PROVE  /\ ~SlicePanics(text)
           /\ \E span \in FirstObject(text) : Extract(text) = SubSeq(text, span[1], span[2])
<1> DEFINE Before(span) == SubSeq(text, 1, span[1] - 1)
           After(span) == SubSeq(text, span[2] + 1, Len(text))
<1>1. PICK span \in FirstObject(text) :
        /\ Braces(After(span), "open") = {} /\ Braces(Before(span) \o After(span), "close") = {}
        /\ \/ Cardinality(Fences(text)) < 2
           \/ /\ \E header \in {<<"newline">>, <<"json", "newline">>, <<"other", "newline">>} :
                   IsSuffix(Ticks(3) \o header, Before(span))
              /\ \E margin \in {<<>>, <<"newline">>} : IsPrefix(margin \o Ticks(3), After(span))
  BY Zenon DEF Proper
<1> DEFINE i == span[1]
           j == span[2]
<1>2. /\ i \in 1..Len(text) /\ j \in 1..Len(text) /\ IsObject(SubSeq(text, i, j))
      /\ \A k \in 1 .. i - 1 : text[k] # "open"
  <2>1. span \in (DOMAIN text) \X (DOMAIN text)
    BY Zenon DEF FirstObject
  <2>2. IsObject(SubSeq(text, i, j)) /\ \A k \in 1 .. i - 1 : text[k] # "open"
    BY Zenon DEF FirstObject
  <2>3. DOMAIN text = 1..Len(text)
    OBVIOUS
  <2>4. span[1] \in DOMAIN text /\ span[2] \in DOMAIN text
    BY <2>1
  <2> QED
    BY <2>2, <2>3, <2>4, Zenon
<1>3. /\ Braces(SubSeq(text, j + 1, Len(text)), "open") = {}
      /\ Braces(SubSeq(text, 1, i - 1) \o SubSeq(text, j + 1, Len(text)), "close") = {}
      /\ \/ Cardinality(Fences(text)) < 2
         \/ /\ \E header \in {<<"newline">>, <<"json", "newline">>, <<"other", "newline">>} :
                 IsSuffix(Ticks(3) \o header, SubSeq(text, 1, i - 1))
            /\ \E margin \in {<<>>, <<"newline">>} :
                 IsPrefix(margin \o Ticks(3), SubSeq(text, j + 1, Len(text)))
  BY <1>1, Zenon
<1> HIDE DEF i, j
<1>4. i <= j /\ text[i] = "open" /\ text[j] = "close"
  BY <1>2, SpanEnds, Zenon
<1>5. j \in i..Len(text)
  BY <1>2, <1>4
<1>6. \A k \in 1..Len(text) : text[k] \in {"open", "close"} => k \in i..j
  BY <1>2, <1>3, <1>5, OwnBraces, Zenon
<1>7. ASSUME NEW a \in 1..i, NEW b \in j..Len(text)
      PROVE  Object(SubSeq(text, a, b)) = SubSeq(text, i, j)
  <2>1. /\ a \in Nat \ {0} /\ b \in 0..Len(text) /\ i \in a..b /\ j \in i..b
        /\ \A k \in a..b : k \in 1..Len(text)
    BY <1>2, <1>5
  <2>2. \A k \in a..b : text[k] \in {"open", "close"} => k \in i..j
    BY <1>6, <2>1
  <2>3. /\ text \in Seq(Tokens) /\ a \in Nat \ {0} /\ b \in 0..Len(text)
        /\ i \in a..b /\ j \in i..b /\ text[i] = "open" /\ text[j] = "close"
        /\ \A k \in a..b : text[k] \in {"open", "close"} => k \in i..j
    BY <1>4, <2>1, <2>2, Zenon
  <2> QED
    BY ONLY <2>3, ObjectFound, SMTT(30)
<1>8. ~SlicePanics(text) /\ \E a \in 1..i : \E b \in j..Len(text) : Stripped(text) = SubSeq(text, a, b)
  <2>1. CASE Cardinality(Fences(text)) < 2
    <3>1. ~SlicePanics(text) /\ Stripped(text) = text
      BY <2>1, FewFences
    <3>3. SubSeq(text, 1, Len(text)) = text
      OBVIOUS
    <3>4. 1 \in 1..i /\ Len(text) \in j..Len(text)
      BY <1>2
    <3> QED
      BY <3>1, <3>3, <3>4, Zenon
  <2>2. CASE ~(Cardinality(Fences(text)) < 2)
    <3>1. PICK header \in {<<"newline">>, <<"json", "newline">>, <<"other", "newline">>} :
            IsSuffix(Ticks(3) \o header, SubSeq(text, 1, i - 1))
      BY <1>3, <2>2, Zenon
    <3>2. PICK margin \in {<<>>, <<"newline">>} :
            IsPrefix(margin \o Ticks(3), SubSeq(text, j + 1, Len(text)))
      BY <1>3, <2>2, Zenon
    <3>3. text[i - 1] = "newline" /\ \E f \in Fences(text) : f + 4 <= i
      BY <1>2, <3>1, FenceBefore, Zenon
    <3>4. \E c \in Fences(text) : c > j
      BY <1>2, <3>2, FenceAfter, Zenon
    <3> QED
      BY <1>2, <1>5, <3>3, <3>4, FencedReply, Zenon
  <2> QED
    BY <2>1, <2>2, Zenon
<1>9. Extract(text) = SubSeq(text, i, j)
  BY <1>7, <1>8, Zenon DEF Extract
<1> QED
  BY <1>1, <1>8, <1>9, Zenon DEF i, j

-----------------------------------------------------------------------------
\* What is taken out of a text consists of its tokens.
LEMMA Slice ==
    ASSUME NEW s \in Seq(Tokens), NEW a \in Nat \ {0}, NEW b \in Int, b <= Len(s)
    PROVE  SubSeq(s, a, b) \in Seq(Tokens)
<1>1. CASE a <= b + 1
  BY <1>1, Piece
<1>2. CASE a > b + 1
  <2>1. SubSeq(s, a, b) = <<>>
    BY <1>2
  <2> QED
    BY <2>1
<1> QED
  BY <1>1, <1>2

LEMMA ObjectType ==
    ASSUME NEW text \in Seq(Tokens)
    PROVE  Object(text) \in Seq(Tokens)
<1> DEFINE opens == Braces(text, "open")
           closes == Braces(text, "close")
<1>1. opens \in SUBSET (1..Len(text)) /\ closes \in SUBSET (1..Len(text)) /\ Len(text) \in Nat
  BY DEF Braces
<1>2. \/ Object(text) = <<>>
      \/ opens # {} /\ closes # {} /\ Object(text) = SubSeq(text, Min(opens), Max(closes))
  BY Zenon DEF Object
<1> HIDE DEF opens, closes
<1>3. opens # {} /\ closes # {} => Min(opens) \in 1..Len(text) /\ Max(closes) \in 1..Len(text)
  BY <1>1, Extremes
<1>4. <<>> \in Seq(Tokens)
  OBVIOUS
<1>5. opens # {} /\ closes # {} => SubSeq(text, Min(opens), Max(closes)) \in Seq(Tokens)
  BY <1>1, <1>3, Slice
<1> QED
  BY <1>2, <1>4, <1>5

\* The end of the first line, if there is one.
LEMMA NewlineAt ==
    ASSUME NEW content \in Seq(Tokens)
    PROVE  SelectInSeq(content, LAMBDA t : t = "newline") \in 0..Len(content)
<1> DEFINE first == SelectInSeq(content, LAMBDA t : t = "newline")
           Ends == {k \in 1..Len(content) : content[k] = "newline"}
<1>1. Ends \in SUBSET (1..Len(content)) /\ Len(content) \in Nat
  OBVIOUS
<1>2. first = IF Ends = {} THEN 0 ELSE Min(Ends)
  BY Zenon DEF SelectInSeq
<1> HIDE DEF Ends, first
<1>3. Ends # {} => Min(Ends) \in Ends
  BY <1>1, Extremes
<1>4. first \in 0..Len(content)
  BY <1>1, <1>2, <1>3
<1> QED
  BY <1>4 DEF first

\* Stripping keeps the tokens.
LEMMA StrippedType ==
    ASSUME NEW text \in Seq(Tokens)
    PROVE  Stripped(text) \in Seq(Tokens)
<1> DEFINE fences == Fences(text)
           content == SubSeq(text, Min(fences) + 3, Max(fences) - 1)
<1>1. fences \in SUBSET (1..Len(text)) /\ Len(text) \in Nat
  BY DEF Fences
<1>2. CASE Cardinality(fences) < 2
  <2>1. Stripped(text) = text
    BY <1>2, Zenon DEF Stripped
  <2> QED
    BY <2>1
<1>3. CASE ~(Cardinality(fences) < 2)
  <2>1. fences # {}
    <3>1. Cardinality({}) = 0
      BY FS_EmptySet
    <3>2. fences = {} => Cardinality(fences) < 2
      <4> HIDE DEF fences
      <4> QED
        BY <3>1
    <3> QED
      BY <1>3, <3>2, Zenon
  <2>2. Stripped(text) = WithoutHeader(content)
    BY <1>3, Zenon DEF Stripped
  <2> HIDE DEF fences
  <2>3. Min(fences) \in 1..Len(text) /\ Max(fences) \in 1..Len(text)
    BY <1>1, <2>1, Extremes
  <2>4. content \in Seq(Tokens)
    <3>1. Min(fences) + 3 \in Nat \ {0} /\ Max(fences) - 1 \in Int /\ Max(fences) - 1 <= Len(text)
      BY <2>3
    <3> QED
      BY <3>1, Slice
  <2> HIDE DEF content
  <2> DEFINE first == SelectInSeq(content, LAMBDA t : t = "newline")
  <2>5. first \in 0..Len(content)
    BY <2>4, NewlineAt
  <2>6. Header(content) \in Seq(Tokens)
    <3>1. Header(content) = SubSeq(content, 1, first - 1)
      BY DEF Header
    <3> HIDE DEF first
    <3>2. first - 1 \in Int /\ first - 1 <= Len(content)
      BY <2>4, <2>5
    <3> QED
      BY <2>4, <3>1, <3>2, Slice
  <2>7. SubSeq(content, Len(Header(content)) + 2, Len(content)) \in Seq(Tokens)
    <3> DEFINE a == Len(Header(content)) + 2
               b == Len(content)
    <3>1. a \in Nat \ {0} /\ b \in Int /\ b <= Len(content)
      BY <2>4, <2>6
    <3> HIDE DEF a, b
    <3>2. SubSeq(content, a, b) \in Seq(Tokens)
      BY <2>4, <3>1, Slice
    <3> QED
      BY <3>2 DEF a, b
  <2>8. WithoutHeader(content) \in Seq(Tokens)
    BY <2>4, <2>7, Zenon DEF WithoutHeader
  <2> QED
    BY <2>2, <2>8
<1> QED
  BY <1>2, <1>3

LEMMA ExtractType ==
    ASSUME NEW text \in Seq(Tokens)
    PROVE  Extract(text) \in Seq(Tokens)
BY StrippedType, ObjectType DEF Extract

-----------------------------------------------------------------------------
\* A piece of a text is no longer than the text, or than its bounds allow.
LEMMA PieceLength ==
    ASSUME NEW s \in Seq(Tokens), NEW a \in Nat \ {0}, NEW b \in Int, b <= Len(s)
    PROVE  /\ Len(SubSeq(s, a, b)) \in 0..Len(s)
           /\ a > 1 /\ s # <<>> => Len(SubSeq(s, a, b)) < Len(s)
<1>1. CASE a <= b + 1
  <2>1. b \in 0..Len(s)
    BY <1>1
  <2>2. Len(SubSeq(s, a, b)) = b - a + 1
    BY <1>1, <2>1, Piece
  <2> QED
    BY <1>1, <2>1, <2>2
<1>2. CASE a > b + 1
  <2>1. SubSeq(s, a, b) = <<>> /\ Len(s) \in Nat
    BY <1>2
  <2>2. s # <<>> => Len(s) > 0
    OBVIOUS
  <2> QED
    BY <2>1, <2>2
<1> QED
  BY <1>1, <1>2

\* What is found in a text is no longer than the text.
LEMMA ObjectLength ==
    ASSUME NEW text \in Seq(Tokens)
    PROVE  Len(Object(text)) <= Len(text)
<1> DEFINE opens == Braces(text, "open")
           closes == Braces(text, "close")
<1>1. opens \in SUBSET (1..Len(text)) /\ closes \in SUBSET (1..Len(text)) /\ Len(text) \in Nat
  BY DEF Braces
<1>2. \/ Object(text) = <<>>
      \/ opens # {} /\ closes # {} /\ Object(text) = SubSeq(text, Min(opens), Max(closes))
  BY Zenon DEF Object
<1> HIDE DEF opens, closes
<1>3. opens # {} /\ closes # {} => Min(opens) \in 1..Len(text) /\ Max(closes) \in 1..Len(text)
  BY <1>1, Extremes
<1>4. opens # {} /\ closes # {} => Len(SubSeq(text, Min(opens), Max(closes))) \in 0..Len(text)
  BY <1>1, <1>3, PieceLength
<1>5. Len(<<>>) = 0
  OBVIOUS
<1>6. CASE Object(text) = <<>>
  BY <1>1, <1>5, <1>6
<1>7. CASE Object(text) # <<>>
  <2>1. Len(Object(text)) \in 0..Len(text)
    BY <1>2, <1>4, <1>7, Zenon
  <2> QED
    BY <1>1, <2>1
<1> QED
  BY <1>6, <1>7

\* Without its header a content is no longer.
LEMMA HeaderLength ==
    ASSUME NEW content \in Seq(Tokens)
    PROVE  Len(WithoutHeader(content)) <= Len(content)
<1> DEFINE a == Len(Header(content)) + 2
           first == SelectInSeq(content, LAMBDA t : t = "newline")
<1>1. WithoutHeader(content) \in {content, SubSeq(content, a, Len(content))}
  BY Zenon DEF WithoutHeader
<1>2. Len(Header(content)) \in Nat
  <2>1. Header(content) = SubSeq(content, 1, first - 1)
    BY DEF Header
  <2>2. first \in 0..Len(content)
    BY NewlineAt
  <2> HIDE DEF first
  <2>3. first - 1 \in Int /\ first - 1 <= Len(content) /\ 1 \in Nat \ {0}
    BY <2>2
  <2>4. Len(SubSeq(content, 1, first - 1)) \in 0..Len(content)
    BY <2>3, PieceLength
  <2>5. \A n \in 0..Len(content) : n \in Nat
    OBVIOUS
  <2> QED
    BY <2>1, <2>4, <2>5, Zenon
<1>3. a \in Nat \ {0} /\ Len(content) \in Int
  BY <1>2
<1> HIDE DEF a
<1>4. Len(SubSeq(content, a, Len(content))) <= Len(content)
  BY <1>3, PieceLength
<1> QED
  BY <1>1, <1>3, <1>4

\* An answer that is one object is found as it is if it has not two fences in
\* it, and cut short if it has.
LEMMA BareReply ==
    ASSUME NEW text \in Seq(Tokens), IsObject(text)
    PROVE  /\ Cardinality(Fences(text)) < 2 => ~SlicePanics(text) /\ Extract(text) = text
           /\ ~(Cardinality(Fences(text)) < 2) => Extract(text) # text
<1>1. Len(text) >= 2 /\ text[1] = "open" /\ text[Len(text)] = "close"
  BY ObjectEnds
<1>2. ASSUME Cardinality(Fences(text)) < 2
      PROVE  ~SlicePanics(text) /\ Extract(text) = text
  <2>1. ~SlicePanics(text) /\ Stripped(text) = text
    BY <1>2, FewFences
  <2>2. SubSeq(text, 1, Len(text)) = text
    OBVIOUS
  <2>3. Object(SubSeq(text, 1, Len(text))) = SubSeq(text, 1, Len(text))
    <3> DEFINE n == Len(text)
    <3>1. /\ 1 \in Nat \ {0} /\ n \in 0..Len(text) /\ 1 \in 1..n /\ n \in 1..n
          /\ text[1] = "open" /\ text[n] = "close"
          /\ \A k \in 1..n : text[k] \in {"open", "close"} => k \in 1..n
      BY <1>1
    <3> QED
      BY <3>1, ObjectFound, Zenon
  <2> QED
    BY <2>1, <2>2, <2>3, Zenon DEF Extract
<1>3. ASSUME ~(Cardinality(Fences(text)) < 2)
      PROVE  Extract(text) # text
  <2> DEFINE fences == Fences(text)
             a == Min(fences) + 3
             b == Max(fences) - 1
             content == SubSeq(text, a, b)
  <2>1. Stripped(text) = WithoutHeader(content)
    BY <1>3, Zenon DEF Stripped
  <2>2. fences \in SUBSET (1..Len(text)) /\ Len(text) \in Nat
    BY FencesFinite
  <2>3. fences # {}
    <3>1. fences = {} => Cardinality(fences) = 0
      <4>1. Cardinality({}) = 0
        BY FS_EmptySet
      <4> HIDE DEF fences
      <4> QED
        BY <4>1
    <3> QED
      BY <1>3, <3>1
  <2> HIDE DEF fences
  <2>4. Min(fences) \in 1..Len(text) /\ Max(fences) \in 1..Len(text)
    BY <2>2, <2>3, Extremes
  <2>5. a \in Nat \ {0} /\ a > 1 /\ b \in Int /\ b <= Len(text) /\ text # <<>>
    BY <1>1, <2>2, <2>4
  <2> HIDE DEF a, b
  <2>6. content \in Seq(Tokens) /\ Len(content) < Len(text)
    BY <2>5, Slice, PieceLength
  <2> HIDE DEF content
  <2>7. /\ Stripped(text) \in Seq(Tokens) /\ Len(Stripped(text)) <= Len(content)
    BY <2>1, <2>6, HeaderLength, StrippedType
  <2>8. Extract(text) \in Seq(Tokens) /\ Len(Extract(text)) <= Len(Stripped(text))
    BY <2>7, ObjectLength, ExtractType DEF Extract
  <2> QED
    BY <2>6, <2>7, <2>8
<1> QED
  BY <1>2, <1>3

-----------------------------------------------------------------------------
\* What holds before Run returns: nothing is answered before the agent is asked,
\* a plan has steps only when it was decoded, and nothing is announced yet.
Underway ==
    /\ place \in {"called", "planner-react"} => reply = <<>>
    /\ place \in {"called", "planner-react", "planner-parse"} => object = <<>>
    /\ place \in {"called", "planner-react", "planner-parse", "failed"} => planLen = 0
    /\ place = "planned" => IsObject(object)
    /\ place # "returned" => events = <<>> /\ outcome = "none"

LEMMA TypeStep ==
    ASSUME TypeOK, Underway, [Next]_vars
    PROVE  TypeOK'
<1>1. CASE Call
  <2>2. ASSUME NEW part \in Parts PROVE Section(part) \in Seq(Parts \cup {"query"})
    <3>1. <<part>> \in Seq(Parts \cup {"query"}) /\ <<>> \in Seq(Parts \cup {"query"})
      OBVIOUS
    <3> QED
      BY <3>1, Zenon DEF Section
  <2>3. "findings" \in Parts /\ "opLog" \in Parts /\ "report" \in Parts
    BY DEF Parts
  <2>4. <<"query">> \in Seq(Parts \cup {"query"})
    OBVIOUS
  <2>5. input' \in Seq(Parts \cup {"query"})
    <3> DEFINE S == Seq(Parts \cup {"query"})
    <3>1. \A s, t \in S : s \o t \in S
      OBVIOUS
    <3>2. /\ Section("findings") \in S /\ Section("opLog") \in S /\ Section("report") \in S
          /\ <<"query">> \in S
      BY <2>2, <2>3, <2>4
    <3> HIDE DEF S
    <3>3. Section("findings") \o Section("opLog") \in S
      BY <3>1, <3>2, Zenon
    <3>4. Section("findings") \o Section("opLog") \o Section("report") \in S
      BY <3>1, <3>2, <3>3, Zenon
    <3>5. Section("findings") \o Section("opLog") \o Section("report") \o <<"query">> \in S
      BY <3>1, <3>2, <3>4, Zenon
    <3> QED
      BY <1>1, <3>5, Zenon DEF Call, S
  <2> QED
    BY <1>1, <2>5 DEF TypeOK, Call
<1>2. CASE React
  <2>1. reply' \in Seq(Tokens)
    BY <1>2 DEF TypeOK, React
  <2> QED
    BY <1>2, <2>1 DEF TypeOK, React
<1>3. CASE Parse
  <2>1. reply \in Seq(Tokens)
    BY Zenon DEF TypeOK
  <2>2. object' \in Seq(Tokens)
    <3>1. object' = object \/ object' = Extract(reply)
      BY <1>3, Zenon DEF Parse
    <3> QED
      BY <2>1, <3>1, ExtractType DEF TypeOK
  <2>3. place' \in {"failed", "crashed", "planned"} /\ planLen' \in 0..MaxPlanSteps
    BY <1>3, Zenon DEF Parse, TypeOK
  <2>4. UNCHANGED <<history, input, reply, events, outcome>>
    BY <1>3, Zenon DEF Parse
  <2> QED
    BY <2>2, <2>3, <2>4 DEF TypeOK
<1>4. CASE ReturnError
  BY <1>4 DEF TypeOK, ReturnError, Events
<1>5. CASE ReturnPlan
  BY <1>5 DEF TypeOK, ReturnPlan, Events
<1>6. CASE UNCHANGED vars
  BY <1>6 DEF TypeOK, vars
<1> QED
  BY <1>1, <1>2, <1>3, <1>4, <1>5, <1>6, Zenon DEF Next, Done

LEMMA UnderwayStep ==
    ASSUME TypeOK, Underway, [Next]_vars
    PROVE  Underway'
<1>1. CASE Call
  BY <1>1 DEF Underway, Call
<1>2. CASE React
  BY <1>2 DEF Underway, React
<1>3. CASE Parse
  <2>1. /\ place = "planner-parse" /\ place' \in {"failed", "crashed", "planned"}
        /\ place' = "failed" => planLen' = planLen
        /\ place' = "planned" => IsObject(object')
        /\ events' = events /\ outcome' = outcome
    BY <1>3 DEF Parse
  <2> QED
    BY <2>1 DEF Underway
<1>4. CASE ReturnError
  BY <1>4 DEF Underway, ReturnError
<1>5. CASE ReturnPlan
  BY <1>5 DEF Underway, ReturnPlan
<1>6. CASE UNCHANGED vars
  BY <1>6 DEF Underway, vars
<1> QED
  BY <1>1, <1>2, <1>3, <1>4, <1>5, <1>6, Zenon DEF Next, Done

LEMMA Sound == Spec => [](TypeOK /\ Underway)
<1>1. Init => TypeOK /\ Underway
  BY DEF Init, TypeOK, Underway
<1>2. TypeOK /\ Underway /\ [Next]_vars => (TypeOK /\ Underway)'
  BY TypeStep, UnderwayStep
<1> QED
  BY <1>1, <1>2, PTL DEF Spec

\* The variables keep their types, for every set of answers of the agent: what is
\* handed to the decoder is a piece of the answer.
THEOREM TypeCorrect == Spec => []TypeOK
BY Sound, PTL

\* Every step announces what it returns.
LEMMA OneEventStep ==
    ASSUME TypeOK, Underway, OneEvent, [Next]_vars
    PROVE  OneEvent'
<1>1. CASE Call
  BY <1>1 DEF OneEvent, Underway, Call
<1>2. CASE React
  BY <1>2 DEF OneEvent, Underway, React
<1>3. CASE Parse
  <2>1. place = "planner-parse" /\ events' = events /\ outcome' = outcome
    BY <1>3 DEF Parse
  <2> QED
    BY <2>1 DEF OneEvent, Underway
<1>4. CASE ReturnError
  BY <1>4 DEF OneEvent, Underway, ReturnError
<1>5. CASE ReturnPlan
  BY <1>5 DEF OneEvent, Underway, ReturnPlan
<1>6. CASE UNCHANGED vars
  BY <1>6 DEF OneEvent, vars
<1> QED
  BY <1>1, <1>2, <1>3, <1>4, <1>5, <1>6, Zenon DEF Next, Done

\* What a run announces is what it returns, once, and a plan was decoded from one
\* whole object (planner.go:112-132).
THEOREM RunsAreAnnounced == Spec => []OneEvent
<1>1. Init => OneEvent
  BY DEF Init, OneEvent
<1>2. TypeOK /\ Underway /\ OneEvent /\ [Next]_vars => OneEvent'
  BY OneEventStep
<1> QED
  BY <1>1, <1>2, Sound, PTL DEF Spec

\* Every step hands the decoder what a proper answer's object is.
LEMMA ProperStep ==
    ASSUME TypeOK, Underway, ProperRepliesAreDecoded, [Next]_vars
    PROVE  ProperRepliesAreDecoded'
<1>1. CASE Call
  BY <1>1 DEF ProperRepliesAreDecoded, Call
<1>2. CASE React
  <2>1. ~Proper(<<>>)
    <3>1. DOMAIN <<>> = {}
      OBVIOUS
    <3>2. FirstObject(<<>>) = {}
      BY <3>1 DEF FirstObject
    <3> QED
      BY <3>2, Zenon DEF Proper
  <2>2. place' = "planner-parse" \/ reply' = <<>>
    BY <1>2 DEF React, Underway
  <2>3. ~IsObject(<<>>)
    BY Zenon DEF IsObject
  <2> QED
    BY <1>2, <2>1, <2>2, <2>3 DEF ProperRepliesAreDecoded, React
<1>3. CASE Parse
  <2>1. reply \in Seq(Tokens) /\ reply' = reply
    BY <1>3, Zenon DEF Parse, TypeOK
  <2>2. IF SlicePanics(reply) THEN object' = <<>> ELSE object' = Extract(reply)
    BY <1>3, Zenon DEF Parse, Underway
  <2>3. Proper(reply) =>
          \E span \in FirstObject(reply) : object' = SubSeq(reply, span[1], span[2])
    BY <2>1, <2>2, ProperFound, Zenon
  <2>4. ASSUME IsObject(reply)
        PROVE  object' = reply <=> Cardinality(Fences(reply)) < 2
    <3>1. reply # <<>>
      BY <2>4, Zenon DEF IsObject
    <3> QED
      BY <2>1, <2>2, <2>4, <3>1, BareReply, Zenon
  <2> QED
    BY <2>1, <2>3, <2>4, Zenon DEF ProperRepliesAreDecoded
<1>4. CASE ReturnError
  BY <1>4 DEF ProperRepliesAreDecoded, ReturnError
<1>5. CASE ReturnPlan
  BY <1>5 DEF ProperRepliesAreDecoded, ReturnPlan
<1>6. CASE UNCHANGED vars
  BY <1>6, Zenon DEF ProperRepliesAreDecoded, vars
<1> QED
  BY <1>1, <1>2, <1>3, <1>4, <1>5, <1>6, Zenon DEF Next, Done

\* The decoder is handed a proper answer's object, all of it and nothing else;
\* and it is handed an answer that is one object, as the prompts ask for it, if
\* the answer has not two fences in it and only then (utils.go:9-32,
\* planner.go:67-72, planner.md:170-174).
THEOREM ProperAnswersAreDecoded == Spec => []ProperRepliesAreDecoded
<1>1. Init => ProperRepliesAreDecoded
  BY DEF Init, ProperRepliesAreDecoded
<1>2. TypeOK /\ Underway /\ ProperRepliesAreDecoded /\ [Next]_vars => ProperRepliesAreDecoded'
  BY ProperStep
<1> QED
  BY <1>1, <1>2, Sound, PTL DEF Spec

-----------------------------------------------------------------------------
\* All of it together, for the loop that calls Run again and again.
Announcing == TypeOK /\ Underway /\ OneEvent /\ ProperRepliesAreDecoded

LEMMA AnnouncingInit == Init => Announcing
BY DEF Init, Announcing, TypeOK, Underway, OneEvent, ProperRepliesAreDecoded

LEMMA AnnouncingStep ==
    ASSUME Announcing, [Next]_vars
    PROVE  Announcing'
BY TypeStep, UnderwayStep, OneEventStep, ProperStep DEF Announcing
=============================================================================
