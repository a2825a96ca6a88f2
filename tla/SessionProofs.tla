--------------------------- MODULE SessionProofs ---------------------------
(***************************************************************************)
(* The safety properties of Session, for every number of instances and of  *)
(* sessions and every bound.                                               *)
(*                                                                         *)
(* The numbering of a clean session is inductive together with the fact    *)
(* that whoever holds the session holds it alone and counts exactly the    *)
(* rounds stored (InStep); that a saved round has its steps follows from   *)
(* how far each save under way has come (SavesInOrder).                    *)
(***************************************************************************)
EXTENDS Session, TLAPS

USE BoundsAssumption, NoIdAssumption

-----------------------------------------------------------------------------
\* Appending a row leaves the rows before it alone.
LEMMA AppendedRow ==
    ASSUME NEW list \in Seq(Round), NEW r \in Round
    PROVE  /\ Append(list, r) \in Seq(Round)
           /\ Len(list) \in Nat
           /\ Len(Append(list, r)) = Len(list) + 1
           /\ Append(list, r)[Len(list) + 1] = r
           /\ \A i \in 1..Len(list) : Append(list, r)[i] = list[i]
OBVIOUS

\* The row that p inserts, and what SaveRound does with it.
LEMMA Inserted ==
    ASSUME TypeOK, NEW p \in Procs, SaveRound(p)
    PROVE  /\ sid[p] \in Ids
           /\ \E r \in Round :
                /\ r.num = roundNum[p] + 1
                /\ rounds' = [rounds EXCEPT ![sid[p]] = Append(@, r)]
           /\ cur' = [cur EXCEPT ![p] = [row |-> Len(rounds[sid[p]]) + 1, step |-> 1]]
           /\ own' = [own EXCEPT ![p] = @ \cup {Len(rounds[sid[p]]) + 1}]
           /\ pc' = [pc EXCEPT ![p] = "steps"]
           /\ roundNum' = [roundNum EXCEPT ![p] = @ + 1]
           /\ UNCHANGED <<sessions, steps, sid, acked, clean>>
<1>1. sid[p] \in Ids
  BY DEF TypeOK, Live, SaveRound
<1>2. ASSUME NEW report \in BOOLEAN, NEW n \in 1..MaxPlanSteps
      PROVE  [num |-> roundNum[p] + 1, report |-> report, planLen |-> n] \in Round
  BY DEF TypeOK, Round
<1> QED
  BY <1>1, <1>2 DEF SaveRound

-----------------------------------------------------------------------------
\* The variables always have their types.
THEOREM TypeCorrect == Spec => []TypeOK
<1>1. Init => TypeOK
  BY DEF Init, TypeOK, Round, Hist, NoHistory, NoRow, Live
<1>2. TypeOK /\ [Next]_vars => TypeOK'
  <2> SUFFICES ASSUME TypeOK, [Next]_vars PROVE TypeOK'
    OBVIOUS
  <2> USE DEF TypeOK, Live
  <2>1. ASSUME NEW p \in Procs, NEW s \in Ids, NewSession(p, s) PROVE TypeOK'
    <3>1. Rows(s) \in SUBSET Nat
      BY DEF Rows
    <3> QED
      BY <2>1, <3>1 DEF NewSession, Open
  <2>2. ASSUME NEW p \in Procs, NEW s \in Ids, ResumeSession(p, s) PROVE TypeOK'
    <3>1. Rows(s) \in SUBSET Nat /\ Len(rounds[s]) \in Nat
      BY DEF Rows
    <3> QED
      BY <2>2, <3>1 DEF ResumeSession, Open, Spoil
  <2>3. ASSUME NEW p \in Procs, Ask(p) PROVE TypeOK'
    <3>1. sid[p] \in Ids
      BY <2>3 DEF Ask
    <3>2. ASSUME NEW seen \in SUBSET Rows(sid[p]), NEW ok \in BOOLEAN
          PROVE  [ok |-> ok, seen |-> seen, prev |-> Previous(sid[p], seen)] \in Hist
      <4>1. Rows(sid[p]) \subseteq Nat
        BY <3>1 DEF Rows
      <4>2. seen \in SUBSET Nat /\ Previous(sid[p], seen) \in SUBSET Nat
        BY <4>1 DEF Previous, Reported
      <4> QED
        BY <4>2 DEF Hist
    <3>3. Scanned(sid[p]) \subseteq SUBSET Rows(sid[p])
      BY DEF Scanned
    <3>4. NoHistory \in Hist
      BY DEF NoHistory, Hist
    <3>5. \E h \in Hist : hist' = [hist EXCEPT ![p] = h]
      <4>1. CASE roundNum[p] = 0
        BY <2>3, <3>4, <4>1 DEF Ask
      <4>2. CASE roundNum[p] # 0
        <5> DEFINE Read(ok, seen) ==
                     [ok |-> ok, seen |-> seen, prev |-> Previous(sid[p], seen)]
        <5>1. \E ok \in BOOLEAN, seen \in SUBSET Rows(sid[p]) :
                 hist' = [hist EXCEPT ![p] = Read(ok, seen)]
          <6>1. PICK h \in {Read(TRUE, Rows(sid[p]))}
                          \cup {Read(FALSE, seen) : seen \in Scanned(sid[p])} :
                   hist' = [hist EXCEPT ![p] = h]
            BY <2>3, <4>2 DEF Ask
          <6>2. \E ok \in BOOLEAN, seen \in SUBSET Rows(sid[p]) : h = Read(ok, seen)
            BY <3>3, <6>1
          <6> QED
            BY <6>1, <6>2
        <5> QED
          BY <3>2, <5>1
      <4> QED
        BY <4>1, <4>2
    <3> QED
      BY <2>3, <3>1, <3>5 DEF Ask, table
  <2>4. ASSUME NEW p \in Procs, RoundFails(p) PROVE TypeOK'
    BY <2>4 DEF RoundFails, Forget, NoHistory, Hist, table
  <2>5. ASSUME NEW p \in Procs, SaveRound(p) PROVE TypeOK'
    <3>1. PICK r \in Round : rounds' = [rounds EXCEPT ![sid[p]] = Append(@, r)]
      BY <2>5, Inserted
    <3>2. rounds' \in [Ids -> Seq(Round)]
      BY <2>5, <3>1, Inserted, AppendedRow
    <3>3. Len(rounds[sid[p]]) + 1 \in Nat
      BY <2>5, Inserted
    <3>4. hist' \in [Procs -> Hist]
      BY <2>5 DEF SaveRound, Forget, NoHistory, Hist
    <3>5. /\ cur' \in [Procs -> [row : Nat, step : Nat]]
          /\ own' \in [Procs -> SUBSET Nat]
          /\ roundNum' \in [Procs -> Nat]
      <4> DEFINE new == Len(rounds[sid[p]]) + 1
      <4>1. /\ cur' = [cur EXCEPT ![p] = [row |-> new, step |-> 1]]
            /\ own' = [own EXCEPT ![p] = @ \cup {new}]
            /\ roundNum' = [roundNum EXCEPT ![p] = @ + 1]
        BY <2>5, Inserted
      <4>2. new \in Nat
        BY <3>3
      <4> HIDE DEF new
      <4>3. own[p] \cup {new} \in SUBSET Nat
        BY <4>2
      <4>4. [row |-> new, step |-> 1] \in [row : Nat, step : Nat]
        BY <4>2
      <4> QED
        BY <4>1, <4>3, <4>4
    <3>6. /\ pc' \in [Procs -> {"down", "idle", "running", "steps", "touch"}]
          /\ \A q \in Procs : pc'[q] # "down" <=> pc[q] # "down"
      BY <2>5, Inserted DEF SaveRound
    <3> QED
      BY <2>5, <3>2, <3>4, <3>5, <3>6, Inserted
  <2>6. ASSUME NEW p \in Procs, SaveRoundFails(p) PROVE TypeOK'
    <3>1. hist' \in [Procs -> Hist]
      BY <2>6 DEF SaveRoundFails, Forget, NoHistory, Hist
    <3>2. /\ pc' \in [Procs -> {"down", "idle", "running", "steps", "touch"}]
          /\ \A q \in Procs : pc'[q] # "down" <=> pc[q] # "down"
          /\ roundNum' \in [Procs -> Nat]
      BY <2>6 DEF SaveRoundFails
    <3>3. clean' \in [Ids -> BOOLEAN]
      BY <2>6 DEF SaveRoundFails, Spoil
    <3> QED
      BY <2>6, <3>1, <3>2, <3>3 DEF SaveRoundFails, table
  <2>7. ASSUME NEW p \in Procs, SaveStep(p) PROVE TypeOK'
    <3>1. sid[p] \in Ids /\ cur[p] \in [row : Nat, step : Nat]
      BY <2>7 DEF SaveStep
    <3>2. steps' \in SUBSET (Ids \X Nat \X Nat)
      <4>1. cur[p].row \in Nat /\ cur[p].step \in Nat
        BY <3>1
      <4>2. <<sid[p], cur[p].row, cur[p].step>> \in Ids \X Nat \X Nat
        BY <3>1, <4>1
      <4> QED
        BY <2>7, <4>2 DEF SaveStep
    <3>3. cur' \in [Procs -> [row : Nat, step : Nat]]
      BY <2>7, <3>1 DEF SaveStep
    <3> QED
      BY <2>7, <3>2, <3>3 DEF SaveStep
  <2>8. ASSUME NEW p \in Procs, Touch(p) PROVE TypeOK'
    BY <2>8 DEF Touch, NoRow, table
  <2>9. ASSUME NEW p \in Procs, SaveFails(p) PROVE TypeOK'
    BY <2>9 DEF SaveFails, NoRow, table
  <2>10. ASSUME NEW p \in Procs, Exit(p) PROVE TypeOK'
    BY <2>10 DEF Exit, NoRow, NoHistory, Hist, table
  <2>11. CASE UNCHANGED vars
    BY <2>11 DEF vars, table
  <2> QED
    BY <2>1, <2>2, <2>3, <2>4, <2>5, <2>6, <2>7, <2>8, <2>9, <2>10, <2>11 DEF Next
<1> QED
  BY <1>1, <1>2, PTL DEF Spec

-----------------------------------------------------------------------------
\* A session that is not stored has no rounds, and nobody holds it.
Unopened == \A s \in Ids \ sessions : rounds[s] = <<>> /\ Holders(s) = {}

\* A clean session is held by one instance at most, which counts exactly the
\* rounds stored, which are numbered in order; the history it has read is
\* all of them.
CleanAt(s) == clean[s] =>
    /\ \A p, q \in Holders(s) : p = q
    /\ \A p \in Holders(s) : roundNum[p] = Len(rounds[s])
    /\ \A i \in Rows(s) : rounds[s][i].num = i
    /\ \A p \in Holders(s) : pc[p] = "running" /\ hist[p].ok =>
         hist[p].seen = Rows(s) /\ hist[p].prev = Newest(s, Rows(s))

InStep == Unopened /\ \A s \in Ids : CleanAt(s)

\* Where rounds are numbered in order, the last report by number is the
\* newest.
LEMMA PreviousIsNewest ==
    ASSUME NEW s \in Ids, TypeOK, \A i \in Rows(s) : rounds[s][i].num = i
    PROVE  Previous(s, Rows(s)) = Newest(s, Rows(s))
<1>1. \A i, j \in Rows(s) : Before(s, j, i) <=> j < i
  BY DEF Before, Rows, TypeOK
<1>2. \A i, j \in Rows(s) : j <= i <=> (j = i \/ j < i)
  BY DEF Rows, TypeOK
<1> DEFINE R == Reported(s, Rows(s))
<1>3. R \subseteq Rows(s)
  BY DEF Reported
<1>4. ASSUME NEW i \in R
      PROVE  (\A j \in R \ {i} : Before(s, j, i)) <=> (\A j \in R : j <= i)
  <2> HIDE DEF R
  <2>1. \A j \in R \ {i} : Before(s, j, i) <=> j <= i
    BY <1>1, <1>2, <1>3
  <2>2. i <= i
    BY <1>2, <1>3
  <2> QED
    BY <2>1, <2>2
<1> QED
  BY <1>4 DEF Previous, Newest

\* A step of p leaves the sessions alone that p does not hold.
LEMMA OthersUndisturbed ==
    ASSUME NEW p \in Procs, NEW s \in Ids, CleanAt(s),
           \A q \in Procs \ {p} : /\ pc'[q] = pc[q] /\ sid'[q] = sid[q]
                                  /\ roundNum'[q] = roundNum[q] /\ hist'[q] = hist[q],
           p \notin Holders(s), p \notin Holders(s)',
           rounds'[s] = rounds[s], clean'[s] => clean[s]
    PROVE  CleanAt(s)'
<1>1. Holders(s)' = Holders(s) /\ Rows(s)' = Rows(s)
  BY DEF Holders, Live, Rows
<1>2. \A q \in Holders(s) : q \in Procs \ {p}
  BY DEF Holders
<1>3. Newest(s, Rows(s))' = Newest(s, Rows(s))
  BY <1>1 DEF Newest, Reported
<1> QED
  BY <1>1, <1>2, <1>3 DEF CleanAt

\* Every step keeps the holder of a clean session in step with its rounds.
LEMMA InStepInvariant == Spec => []InStep
<1>1. Init => InStep
  BY DEF Init, InStep, Unopened, CleanAt, Holders, Live, Rows
<1>2. TypeOK /\ InStep /\ [Next]_vars => InStep'
  <2> SUFFICES ASSUME TypeOK, InStep, [Next]_vars PROVE InStep'
    OBVIOUS
  <2>a. \A s \in Ids : CleanAt(s)
    BY DEF InStep
  <2>b. \A p \in Procs : sid[p] \in Ids => sid[p] \in sessions
    BY DEF InStep, Unopened, Holders, TypeOK
  <2>c. \A s \in Ids : Len(rounds[s]) \in Nat
    BY DEF TypeOK
  <2>1. ASSUME NEW p \in Procs, NEW s \in Ids, NewSession(p, s) PROVE InStep'
    <3>1. /\ rounds[s] = <<>> /\ Holders(s) = {} /\ pc[p] = "down"
          /\ pc' = [pc EXCEPT ![p] = "idle"] /\ sid' = [sid EXCEPT ![p] = s]
          /\ roundNum' = [roundNum EXCEPT ![p] = 0]
          /\ sessions' = sessions \cup {s} /\ UNCHANGED <<rounds, hist, clean>>
      BY <2>1 DEF NewSession, Open, InStep, Unopened
    <3>2. Unopened'
      BY <3>1 DEF InStep, Unopened, Holders, Live, TypeOK
    <3>3. CleanAt(s)'
      <4>1. Holders(s)' = {p}
        BY <3>1 DEF Holders, Live, TypeOK
      <4> QED
        BY <3>1, <4>1 DEF CleanAt, Rows, TypeOK
    <3>4. ASSUME NEW t \in Ids \ {s} PROVE CleanAt(t)'
      BY <2>a, <3>1, OthersUndisturbed DEF Holders, Live, TypeOK
    <3> QED
      BY <3>2, <3>3, <3>4 DEF InStep
  <2>2. ASSUME NEW p \in Procs, NEW s \in Ids, ResumeSession(p, s) PROVE InStep'
    <3>1. /\ pc[p] = "down" /\ s \in sessions
          /\ pc' = [pc EXCEPT ![p] = "idle"] /\ sid' = [sid EXCEPT ![p] = s]
          /\ roundNum' = [roundNum EXCEPT ![p] = Len(rounds[s])]
          /\ clean' = [clean EXCEPT ![s] = @ /\ ~(Holders(s) # {})]
          /\ UNCHANGED <<sessions, rounds, hist>>
      BY <2>2 DEF ResumeSession, Open, Spoil
    <3>2. Unopened'
      BY <3>1 DEF InStep, Unopened, Holders, Live, TypeOK
    <3>3. CleanAt(s)'
      <4>1. SUFFICES ASSUME clean'[s] PROVE CleanAt(s)'
        BY DEF CleanAt
      <4>2. clean[s] /\ Holders(s) = {}
        BY <3>1, <4>1 DEF TypeOK
      <4>3. Holders(s)' = {p}
        BY <3>1, <4>2 DEF Holders, Live, TypeOK
      <4> QED
        BY <2>a, <3>1, <4>2, <4>3 DEF CleanAt, Rows, TypeOK
    <3>4. ASSUME NEW t \in Ids \ {s} PROVE CleanAt(t)'
      BY <2>a, <3>1, OthersUndisturbed DEF Holders, Live, TypeOK
    <3> QED
      BY <3>2, <3>3, <3>4 DEF InStep
  <2>3. ASSUME NEW p \in Procs, Ask(p) PROVE InStep'
    <3> DEFINE s == sid[p]
    <3>1. /\ pc[p] = "idle" /\ s \in Ids /\ pc' = [pc EXCEPT ![p] = "running"]
          /\ UNCHANGED <<sessions, rounds, steps, sid, roundNum, clean>>
      BY <2>3 DEF Ask, table, TypeOK, Live
    <3>2. \A t \in Ids : Holders(t)' = Holders(t) /\ Rows(t)' = Rows(t)
      BY <3>1 DEF Holders, Live, Rows, TypeOK
    <3>3. Unopened'
      BY <3>1, <3>2 DEF InStep, Unopened
    <3>4. \A q \in Procs \ {p} : pc'[q] = pc[q] /\ hist'[q] = hist[q]
      BY <2>3, <3>1 DEF Ask, TypeOK
    <3>5. CleanAt(s)'
      <4> SUFFICES ASSUME clean[s] PROVE CleanAt(s)'
        BY <3>1 DEF CleanAt
      <4>1. /\ Holders(s) = {p} /\ roundNum[p] = Len(rounds[s])
            /\ \A i \in Rows(s) : rounds[s][i].num = i
        BY <2>a, <3>1 DEF CleanAt, Holders, Live
      <4>2. hist'[p].ok => hist'[p].seen = Rows(s) /\ hist'[p].prev = Newest(s, Rows(s))
        <5>1. CASE roundNum[p] = 0
          <6>1. hist'[p] = NoHistory
            BY <2>3, <5>1 DEF Ask, TypeOK
          <6>2. Rows(s) = {}
            BY <4>1, <5>1 DEF Rows
          <6> QED
            BY <6>1, <6>2 DEF NoHistory, Newest, Reported
        <5>2. CASE roundNum[p] # 0
          <6> DEFINE Read(ok, seen) ==
                       [ok |-> ok, seen |-> seen, prev |-> Previous(s, seen)]
          <6>1. hist'[p] \in {Read(TRUE, Rows(s))} \cup {Read(FALSE, seen) : seen \in Scanned(s)}
            BY <2>3, <5>2 DEF Ask, TypeOK
          <6>2. \A h \in {Read(FALSE, seen) : seen \in Scanned(s)} : ~h.ok
            OBVIOUS
          <6>3. hist'[p].ok => hist'[p] = Read(TRUE, Rows(s))
            BY <6>1, <6>2
          <6> QED
            BY <3>1, <4>1, <6>3, PreviousIsNewest
        <5> QED
          BY <5>1, <5>2
      <4>3. Newest(s, Rows(s))' = Newest(s, Rows(s))
        BY <3>1, <3>2 DEF Newest, Reported
      <4> QED
        BY <3>1, <3>2, <4>1, <4>2, <4>3 DEF CleanAt
    <3>6. ASSUME NEW t \in Ids \ {s} PROVE CleanAt(t)'
      BY <2>a, <3>1, <3>2, <3>4, OthersUndisturbed DEF Holders
    <3> QED
      BY <3>1, <3>3, <3>5, <3>6 DEF InStep
  <2>d. ASSUME NEW p \in Procs, Live(p), NEW x \in {"idle", "steps", "touch"},
               pc' = [pc EXCEPT ![p] = x],
               UNCHANGED <<sessions, rounds, sid, roundNum, clean>>,
               \A q \in Procs \ {p} : hist'[q] = hist[q]
        PROVE  InStep'
    <3>1. \A t \in Ids : Holders(t)' = Holders(t) /\ Rows(t)' = Rows(t)
      BY <2>d DEF Holders, Live, Rows, TypeOK
    <3>2. Unopened'
      BY <2>d, <3>1 DEF InStep, Unopened
    <3>3. pc'[p] # "running" /\ \A q \in Procs \ {p} : pc'[q] = pc[q] /\ hist'[q] = hist[q]
      BY <2>d DEF TypeOK
    <3>4. ASSUME NEW t \in Ids PROVE CleanAt(t)'
      <4>1. Newest(t, Rows(t))' = Newest(t, Rows(t))
        BY <2>d, <3>1 DEF Newest, Reported
      <4>2. Holders(t) \subseteq Procs
        BY DEF Holders
      <4> QED
        BY <2>a, <2>d, <3>1, <3>3, <4>1, <4>2 DEF CleanAt
    <3> QED
      BY <3>2, <3>4 DEF InStep
  <2>4. ASSUME NEW p \in Procs, RoundFails(p) PROVE InStep'
    BY <2>4, <2>d DEF RoundFails, Forget, Live, TypeOK, table
  <2>5. ASSUME NEW p \in Procs, SaveRound(p) PROVE InStep'
    <3> DEFINE s == sid[p]
    <3>1. PICK r \in Round :
            r.num = roundNum[p] + 1 /\ rounds' = [rounds EXCEPT ![s] = Append(@, r)]
      BY <2>5, Inserted
    <3>2. /\ s \in Ids /\ pc[p] = "running" /\ pc' = [pc EXCEPT ![p] = "steps"]
          /\ roundNum' = [roundNum EXCEPT ![p] = @ + 1]
          /\ UNCHANGED <<sessions, sid, clean>>
      BY <2>5, Inserted DEF SaveRound
    <3>3. \A t \in Ids : Holders(t)' = Holders(t)
      BY <3>2 DEF Holders, Live, TypeOK
    <3>4. s \in sessions
      BY <2>b, <3>2
    <3>5. \A t \in Ids \ {s} : rounds'[t] = rounds[t]
      BY <3>1 DEF TypeOK
    <3>6. Unopened'
      BY <3>2, <3>3, <3>4, <3>5 DEF InStep, Unopened
    <3>7. \A q \in Procs \ {p} : /\ pc'[q] = pc[q] /\ hist'[q] = hist[q]
                                /\ roundNum'[q] = roundNum[q]
      BY <2>5, <3>2 DEF SaveRound, Forget, TypeOK
    <3>8. CleanAt(s)'
      <4> SUFFICES ASSUME clean[s] PROVE CleanAt(s)'
        BY <3>2 DEF CleanAt
      <4>1. /\ Holders(s) = {p} /\ roundNum[p] = Len(rounds[s])
            /\ \A i \in Rows(s) : rounds[s][i].num = i
        BY <2>a, <3>2 DEF CleanAt, Holders, Live
      <4>2. /\ rounds'[s] = Append(rounds[s], r) /\ rounds[s] \in Seq(Round)
            /\ roundNum'[p] = roundNum[p] + 1 /\ pc'[p] = "steps"
        BY <3>1, <3>2 DEF TypeOK
      <4>3. /\ Len(rounds'[s]) = Len(rounds[s]) + 1 /\ Len(rounds[s]) \in Nat
            /\ rounds'[s][Len(rounds[s]) + 1] = r
            /\ \A i \in 1..Len(rounds[s]) : rounds'[s][i] = rounds[s][i]
        BY <4>2, AppendedRow
      <4>4. \A i \in 1..Len(rounds'[s]) : rounds'[s][i].num = i
        <5> SUFFICES ASSUME NEW i \in 1..Len(rounds'[s]) PROVE rounds'[s][i].num = i
          OBVIOUS
        <5>1. CASE i \in 1..Len(rounds[s])
          BY <4>1, <4>3, <5>1 DEF Rows
        <5>2. CASE i = Len(rounds[s]) + 1
          BY <3>1, <4>1, <4>3, <5>2
        <5> QED
          BY <4>3, <5>1, <5>2
      <4>5. roundNum'[p] = Len(rounds'[s])
        BY <4>1, <4>2, <4>3
      <4>6. s' = s
        BY <3>2
      <4> QED
        BY <3>2, <3>3, <4>1, <4>2, <4>4, <4>5, <4>6 DEF CleanAt, Rows
    <3>9. ASSUME NEW t \in Ids \ {s} PROVE CleanAt(t)'
      BY <2>a, <3>2, <3>3, <3>5, <3>7, OthersUndisturbed DEF Holders
    <3> QED
      BY <3>2, <3>6, <3>8, <3>9 DEF InStep
  <2>6. ASSUME NEW p \in Procs, SaveRoundFails(p) PROVE InStep'
    <3> DEFINE s == sid[p]
    <3>1. /\ s \in Ids /\ pc[p] = "running" /\ pc' = [pc EXCEPT ![p] = "idle"]
          /\ clean' = [clean EXCEPT ![s] = @ /\ ~TRUE]
          /\ roundNum' = [roundNum EXCEPT ![p] = @ + 1]
          /\ UNCHANGED <<sessions, rounds, sid>>
          /\ \A q \in Procs \ {p} : hist'[q] = hist[q]
      BY <2>6 DEF SaveRoundFails, Spoil, Forget, table, TypeOK, Live
    <3>2. \A t \in Ids : Holders(t)' = Holders(t)
      BY <3>1 DEF Holders, Live, TypeOK
    <3>3. Unopened'
      BY <3>1, <3>2 DEF InStep, Unopened
    <3>4. CleanAt(s)'
      BY <3>1 DEF CleanAt, TypeOK
    <3>5. ASSUME NEW t \in Ids \ {s} PROVE CleanAt(t)'
      BY <2>a, <3>1, <3>2, OthersUndisturbed DEF Holders, TypeOK
    <3> QED
      BY <3>1, <3>3, <3>4, <3>5 DEF InStep
  <2>7. ASSUME NEW p \in Procs, SaveStep(p) PROVE InStep'
    BY <2>7, <2>d DEF SaveStep, Live
  <2>8. ASSUME NEW p \in Procs, Touch(p) PROVE InStep'
    BY <2>8, <2>d DEF Touch, Live, table
  <2>9. ASSUME NEW p \in Procs, SaveFails(p) PROVE InStep'
    BY <2>9, <2>d DEF SaveFails, Live, table
  <2>10. ASSUME NEW p \in Procs, Exit(p) PROVE InStep'
    <3>1. /\ pc' = [pc EXCEPT ![p] = "down"] /\ sid' = [sid EXCEPT ![p] = NoId]
          /\ UNCHANGED <<sessions, rounds, clean>>
          /\ \A q \in Procs \ {p} : hist'[q] = hist[q] /\ roundNum'[q] = roundNum[q]
      BY <2>10 DEF Exit, table, TypeOK
    <3>2. \A t \in Ids : Holders(t)' = Holders(t) \ {p}
      BY <3>1 DEF Holders, Live, TypeOK
    <3>3. Unopened'
      BY <3>1, <3>2 DEF InStep, Unopened
    <3>4. ASSUME NEW t \in Ids PROVE CleanAt(t)'
      <4>1. \A q \in Holders(t)' : q \in Holders(t) /\ pc'[q] = pc[q] /\ hist'[q] = hist[q]
                                /\ roundNum'[q] = roundNum[q]
        BY <3>1, <3>2 DEF Holders, TypeOK
      <4>2. Rows(t)' = Rows(t) /\ Newest(t, Rows(t))' = Newest(t, Rows(t))
        BY <3>1 DEF Rows, Newest, Reported
      <4> QED
        BY <2>a, <3>1, <4>1, <4>2 DEF CleanAt
    <3> QED
      BY <3>1, <3>3, <3>4 DEF InStep
  <2>11. CASE UNCHANGED vars
    <3>1. \A t \in Ids : Holders(t)' = Holders(t) /\ Rows(t)' = Rows(t)
      BY <2>11 DEF vars, table, Holders, Live, Rows
    <3>2. \A t \in Ids : Newest(t, Rows(t))' = Newest(t, Rows(t))
      BY <2>11, <3>1 DEF vars, table, Newest, Reported
    <3> QED
      BY <2>11, <3>1, <3>2 DEF vars, table, InStep, Unopened, CleanAt
  <2> QED
    BY <2>1, <2>2, <2>3, <2>4, <2>5, <2>6, <2>7, <2>8, <2>9, <2>10, <2>11 DEF Next
<1> QED
  BY <1>1, <1>2, TypeCorrect, PTL DEF Spec

\* The rounds of a clean session are numbered in the order they were saved
\* (session.go:47-55, 71).
THEOREM CleanSessionsAreNumbered == Spec => []CleanNumbering
<1>1. InStep => CleanNumbering
  BY DEF InStep, CleanAt, CleanNumbering
<1> QED
  BY <1>1, InStepInvariant, PTL

\* In a clean session the planner is given every saved round, and the newest
\* report as the previous one (store.go:158-206).
THEOREM CleanHistoriesAreComplete == Spec => []CleanHistory
<1>1. TypeOK /\ InStep => CleanHistory
  BY DEF InStep, CleanAt, CleanHistory, Holders, Live, TypeOK
<1> QED
  BY <1>1, TypeCorrect, InStepInvariant, PTL

-----------------------------------------------------------------------------
\* How far a save under way has come: its row is stored, and so is every step
\* before the next one; all of them once the session is to be touched.
Saving(p) == pc[p] \in {"steps", "touch"} =>
    /\ cur[p].row \in Rows(sid[p])
    /\ \A k \in 1..rounds[sid[p]][cur[p].row].planLen :
         k < cur[p].step => <<sid[p], cur[p].row, k>> \in steps
    /\ pc[p] = "touch" => cur[p].step > rounds[sid[p]][cur[p].row].planLen

SavesInOrder ==
    /\ \A p \in Procs : Saving(p)
    /\ \A s \in Ids : \A i \in Nat : <<s, i>> \in acked => i \in Rows(s)
    /\ AckedComplete

\* Every step keeps the steps of the rounds under way stored in order.
LEMMA SavesInOrderInvariant == Spec => []SavesInOrder
<1>1. Init => SavesInOrder
  BY DEF Init, SavesInOrder, Saving, AckedComplete
<1>2. TypeOK /\ SavesInOrder /\ [Next]_vars => SavesInOrder'
  <2> SUFFICES ASSUME TypeOK, SavesInOrder, [Next]_vars PROVE SavesInOrder'
    OBVIOUS
  <2>a. \A p \in Procs : pc[p] # "down" => sid[p] \in Ids
    BY DEF TypeOK, Live
  <2>b. ASSUME UNCHANGED <<rounds, steps, acked>>,
               NEW p \in Procs, pc'[p] \notin {"steps", "touch"},
               \A q \in Procs \ {p} : /\ pc'[q] = pc[q] /\ sid'[q] = sid[q]
                                      /\ cur'[q] = cur[q]
        PROVE  SavesInOrder'
    <3>1. \A s \in Ids : Rows(s)' = Rows(s)
      BY <2>b DEF Rows
    <3>2. ASSUME NEW q \in Procs PROVE Saving(q)'
      BY <2>b, <2>a, <3>1 DEF SavesInOrder, Saving, Rows
    <3> QED
      BY <2>b, <3>1, <3>2 DEF SavesInOrder, AckedComplete
  <2>1. ASSUME NEW p \in Procs, NEW s \in Ids, NewSession(p, s) \/ ResumeSession(p, s)
        PROVE  SavesInOrder'
    BY <2>1, <2>b DEF NewSession, ResumeSession, Open, TypeOK
  <2>3. ASSUME NEW p \in Procs, Ask(p) PROVE SavesInOrder'
    BY <2>3, <2>b DEF Ask, table, TypeOK
  <2>4. ASSUME NEW p \in Procs, RoundFails(p) PROVE SavesInOrder'
    BY <2>4, <2>b DEF RoundFails, table, TypeOK
  <2>5. ASSUME NEW p \in Procs, SaveRound(p) PROVE SavesInOrder'
    <3> DEFINE s == sid[p]
               n == Len(rounds[s])
    <3>1. PICK r \in Round : rounds' = [rounds EXCEPT ![s] = Append(@, r)]
      BY <2>5, Inserted
    <3>2. /\ s \in Ids /\ pc' = [pc EXCEPT ![p] = "steps"]
          /\ cur' = [cur EXCEPT ![p] = [row |-> n + 1, step |-> 1]]
          /\ UNCHANGED <<steps, sid, acked>>
      BY <2>5, Inserted
    <3>3. /\ rounds'[s] \in Seq(Round) /\ n \in Nat /\ Len(rounds'[s]) = n + 1
          /\ \A i \in 1..n : rounds'[s][i] = rounds[s][i]
          /\ \A t \in Ids \ {s} : rounds'[t] = rounds[t]
      BY <3>1, <3>2, AppendedRow DEF TypeOK
    <3>4. \A t \in Ids : \A i \in 1..Len(rounds[t]) :
             i \in 1..Len(rounds'[t]) /\ rounds'[t][i] = rounds[t][i]
      BY <3>3
    <3>5. Saving(p)'
      <4>1. /\ pc'[p] = "steps" /\ cur'[p].row = n + 1 /\ cur'[p].step = 1
            /\ sid'[p] = s
        BY <3>2 DEF TypeOK
      <4>2. n + 1 \in 1..Len(rounds'[s])
        BY <3>3
      <4> QED
        BY <4>1, <4>2 DEF Saving, Rows
    <3>6. ASSUME NEW q \in Procs \ {p} PROVE Saving(q)'
      <4>1. pc'[q] = pc[q] /\ sid'[q] = sid[q] /\ cur'[q] = cur[q] /\ steps' = steps
        BY <3>2 DEF TypeOK
      <4> QED
        BY <2>a, <3>4, <4>1, SMTT(30) DEF SavesInOrder, Saving, Rows
    <3>7. \A t \in Ids : \A i \in Nat : <<t, i>> \in acked' => i \in 1..Len(rounds[t])
      BY <3>2 DEF SavesInOrder, Rows
    <3>8. AckedComplete'
      <4> SUFFICES ASSUME NEW t \in Ids, NEW i \in 1..Len(rounds'[t]), <<t, i>> \in acked',
                          NEW k \in 1..rounds'[t][i].planLen
                   PROVE  <<t, i, k>> \in steps'
        BY DEF AckedComplete, Rows
      <4>1. i \in 1..Len(rounds[t]) /\ rounds'[t][i] = rounds[t][i]
        <5>1. i \in Nat
          BY <3>3 DEF TypeOK
        <5> QED
          BY <3>4, <3>7, <5>1
      <4> QED
        BY <3>2, <4>1 DEF SavesInOrder, AckedComplete, Rows
    <3> QED
      BY <3>4, <3>5, <3>6, <3>7, <3>8 DEF SavesInOrder, Rows
  <2>6. ASSUME NEW p \in Procs, SaveRoundFails(p) PROVE SavesInOrder'
    BY <2>6, <2>b DEF SaveRoundFails, table, TypeOK
  <2>7. ASSUME NEW p \in Procs, SaveStep(p) PROVE SavesInOrder'
    <3> DEFINE s == sid[p]
               c == cur[p]
               n == rounds[s][c.row].planLen
    <3>1. /\ pc[p] = "steps" /\ s \in Ids /\ c.row \in Rows(s) /\ c.step \in Nat /\ n \in Nat
      <4>1. pc[p] = "steps" /\ s \in Ids /\ c.row \in Rows(s)
        BY <2>7, <2>a DEF SaveStep, SavesInOrder, Saving
      <4>2. rounds[s][c.row] \in Round
        BY <4>1 DEF TypeOK, Rows
      <4>3. cur[p] \in [row : Nat, step : Nat]
        BY DEF TypeOK
      <4> QED
        BY <4>1, <4>2, <4>3 DEF Round
    <3>2. /\ steps' = steps \cup {<<s, c.row, c.step>>}
          /\ cur' = [cur EXCEPT ![p] = [row |-> c.row, step |-> c.step + 1]]
          /\ pc' = [pc EXCEPT ![p] = IF c.step = n THEN "touch" ELSE "steps"]
          /\ UNCHANGED <<rounds, sid, acked>>
      BY <2>7 DEF SaveStep
    <3>3. \A t \in Ids : Rows(t)' = Rows(t)
      BY <3>2 DEF Rows
    <3>4. Saving(p)'
      <4>1. /\ cur'[p].row = c.row /\ cur'[p].step = c.step + 1
            /\ pc'[p] = "touch" => c.step = n
            /\ sid'[p] = s /\ rounds'[s][c.row].planLen = n
        BY <3>2 DEF TypeOK
      <4>2. \A k \in 1..n : k < c.step => <<s, c.row, k>> \in steps
        BY <3>1 DEF SavesInOrder, Saving
      <4>3. \A k \in 1..n : k < c.step + 1 => <<s, c.row, k>> \in steps'
        BY <3>1, <3>2, <4>2
      <4> QED
        BY <3>1, <3>2, <3>3, <4>1, <4>3 DEF Saving
    <3>5. ASSUME NEW q \in Procs \ {p} PROVE Saving(q)'
      <4>1. pc'[q] = pc[q] /\ sid'[q] = sid[q] /\ cur'[q] = cur[q]
            /\ steps \subseteq steps'
        BY <3>2 DEF TypeOK
      <4> QED
        BY <2>a, <3>2, <3>3, <4>1 DEF SavesInOrder, Saving
    <3> QED
      BY <3>2, <3>3, <3>4, <3>5 DEF SavesInOrder, AckedComplete
  <2>8. ASSUME NEW p \in Procs, Touch(p) PROVE SavesInOrder'
    <3> DEFINE s == sid[p]
               r == cur[p].row
    <3>1. /\ pc[p] = "touch" /\ s \in Ids /\ r \in Rows(s)
          /\ \A k \in 1..rounds[s][r].planLen : <<s, r, k>> \in steps
      <4>1. /\ pc[p] = "touch" /\ s \in Ids /\ r \in Rows(s) /\ cur[p].step \in Nat
            /\ cur[p].step > rounds[s][r].planLen /\ rounds[s][r].planLen \in Nat
        <5>1. pc[p] = "touch" /\ s \in Ids /\ r \in Rows(s)
          BY <2>8, <2>a DEF Touch, SavesInOrder, Saving
        <5>2. rounds[s][r] \in Round
          BY <5>1 DEF TypeOK, Rows
        <5>3. cur[p] \in [row : Nat, step : Nat]
          BY DEF TypeOK
        <5>4. cur[p].step > rounds[s][r].planLen
          BY <5>1 DEF SavesInOrder, Saving
        <5> QED
          BY <5>1, <5>2, <5>3, <5>4 DEF Round
      <4>2. \A k \in 1..rounds[s][r].planLen : k < cur[p].step
        BY <4>1
      <4> QED
        BY <4>1, <4>2 DEF SavesInOrder, Saving
    <3>2. /\ acked' = acked \cup {<<s, r>>} /\ pc' = [pc EXCEPT ![p] = "idle"]
          /\ cur' = [cur EXCEPT ![p] = NoRow] /\ UNCHANGED <<rounds, steps, sid>>
      BY <2>8 DEF Touch, table
    <3>3. \A t \in Ids : Rows(t)' = Rows(t)
      BY <3>2 DEF Rows
    <3>4. ASSUME NEW q \in Procs PROVE Saving(q)'
      BY <2>a, <3>2, <3>3 DEF SavesInOrder, Saving, TypeOK
    <3>5. AckedComplete'
      BY <3>1, <3>2, <3>3 DEF SavesInOrder, AckedComplete
    <3> QED
      BY <3>1, <3>2, <3>3, <3>4, <3>5 DEF SavesInOrder
  <2>9. ASSUME NEW p \in Procs, SaveFails(p) PROVE SavesInOrder'
    BY <2>9, <2>b DEF SaveFails, table, TypeOK
  <2>10. ASSUME NEW p \in Procs, Exit(p) PROVE SavesInOrder'
    BY <2>10, <2>b DEF Exit, table, TypeOK
  <2>11. CASE UNCHANGED vars
    BY <2>11 DEF vars, table, SavesInOrder, Saving, AckedComplete, Rows
  <2> QED
    BY <2>1, <2>3, <2>4, <2>5, <2>6, <2>7, <2>8, <2>9, <2>10, <2>11 DEF Next
<1> QED
  BY <1>1, <1>2, TypeCorrect, PTL DEF Spec

\* A round whose save succeeded has every step of its plan stored
\* (session.go:69-89).
THEOREM SavedRoundsHaveTheirSteps == Spec => []AckedComplete
<1>1. SavesInOrder => AckedComplete
  BY DEF SavesInOrder
<1> QED
  BY <1>1, SavesInOrderInvariant, PTL

-----------------------------------------------------------------------------
\* What an instance resumed from or saved is stored, and it knows if there is
\* any of it; a history it has read has all of it.
OwnAt(p) == Live(p) =>
    /\ own[p] \subseteq Rows(sid[p])
    /\ roundNum[p] = 0 => own[p] = {}
    /\ pc[p] = "running" /\ hist[p].ok => own[p] \subseteq hist[p].seen

\* Every step keeps the rounds of an instance within reach of its number.
LEMMA OwnInvariant == Spec => [](\A p \in Procs : OwnAt(p))
<1> DEFINE Own == \A p \in Procs : OwnAt(p)
<1>1. Init => Own
  BY DEF Init, OwnAt, Live
<1>2. TypeOK /\ InStep /\ Own /\ [Next]_vars => Own'
  <2> SUFFICES ASSUME TypeOK, InStep, Own, [Next]_vars PROVE Own'
    OBVIOUS
  <2>a. ASSUME NEW q \in Procs, pc'[q] = pc[q], sid'[q] = sid[q], roundNum'[q] = roundNum[q],
               hist'[q] = hist[q], own'[q] = own[q], Rows(sid[q]) \subseteq Rows(sid[q])'
        PROVE  OwnAt(q)'
    BY <2>a DEF OwnAt, Live, Rows
  <2>b. ASSUME NEW p \in Procs, Live(p), NEW x \in {"idle", "steps", "touch"},
               pc' = [pc EXCEPT ![p] = x],
               UNCHANGED <<rounds, sid, own>>,
               roundNum'[p] \in {roundNum[p], roundNum[p] + 1},
               \A q \in Procs \ {p} : hist'[q] = hist[q] /\ roundNum'[q] = roundNum[q]
        PROVE  Own'
    <3>1. OwnAt(p)'
      <4>1. roundNum'[p] = 0 => roundNum[p] = 0
        BY <2>b DEF TypeOK
      <4> QED
        BY <2>b, <4>1 DEF OwnAt, Live, Rows, TypeOK
    <3>2. ASSUME NEW q \in Procs \ {p} PROVE OwnAt(q)'
      BY <2>a, <2>b DEF Rows, TypeOK
    <3> QED
      BY <3>1, <3>2
  <2>1. ASSUME NEW p \in Procs, NEW s \in Ids, NewSession(p, s) \/ ResumeSession(p, s)
        PROVE  Own'
    <3>1. /\ pc' = [pc EXCEPT ![p] = "idle"] /\ sid' = [sid EXCEPT ![p] = s]
          /\ own' = [own EXCEPT ![p] = Rows(s)] /\ UNCHANGED <<rounds, hist>>
          /\ roundNum' = [roundNum EXCEPT ![p] = Len(rounds[s])]
      BY <2>1 DEF NewSession, ResumeSession, Open, InStep, Unopened
    <3>2. OwnAt(p)'
      <4>1. /\ pc'[p] = "idle" /\ own'[p] = Rows(s) /\ sid'[p] = s
            /\ roundNum'[p] = Len(rounds[s]) /\ rounds' = rounds
        BY <3>1 DEF TypeOK
      <4>2. Len(rounds[s]) = 0 => Rows(s) = {}
        BY DEF Rows
      <4> QED
        BY <4>1, <4>2 DEF OwnAt, Rows
    <3>3. ASSUME NEW q \in Procs \ {p} PROVE OwnAt(q)'
      BY <2>a, <3>1 DEF Rows, TypeOK
    <3> QED
      BY <3>2, <3>3
  <2>3. ASSUME NEW p \in Procs, Ask(p) PROVE Own'
    <3>1. /\ pc[p] = "idle" /\ sid[p] \in Ids /\ pc' = [pc EXCEPT ![p] = "running"]
          /\ UNCHANGED <<rounds, sid, roundNum, own>>
      BY <2>3 DEF Ask, table, TypeOK, Live
    <3>2. own[p] \subseteq Rows(sid[p]) /\ (roundNum[p] = 0 => own[p] = {})
      BY <3>1 DEF OwnAt, Live
    <3>3. hist'[p].ok /\ roundNum[p] # 0 => hist'[p].seen = Rows(sid[p])
      <4> SUFFICES ASSUME hist'[p].ok, roundNum[p] # 0 PROVE hist'[p].seen = Rows(sid[p])
        OBVIOUS
      <4> DEFINE Read(ok, seen) ==
                   [ok |-> ok, seen |-> seen, prev |-> Previous(sid[p], seen)]
      <4>1. hist'[p] \in {Read(TRUE, Rows(sid[p]))}
                        \cup {Read(FALSE, seen) : seen \in Scanned(sid[p])}
        BY <2>3 DEF Ask, TypeOK
      <4>2. \A h \in {Read(FALSE, seen) : seen \in Scanned(sid[p])} : ~h.ok
        OBVIOUS
      <4> QED
        BY <4>1, <4>2
    <3>4. OwnAt(p)'
      BY <3>1, <3>2, <3>3 DEF OwnAt, Live, Rows
    <3>5. ASSUME NEW q \in Procs \ {p} PROVE OwnAt(q)'
      BY <2>3, <2>a, <3>1 DEF Ask, Rows, TypeOK
    <3> QED
      BY <3>4, <3>5
  <2>4. ASSUME NEW p \in Procs, RoundFails(p) PROVE Own'
    BY <2>4, <2>b DEF RoundFails, Forget, Live, TypeOK, table
  <2>5. ASSUME NEW p \in Procs, SaveRound(p) PROVE Own'
    <3> DEFINE s == sid[p]
               n == Len(rounds[s])
    <3>1. PICK r \in Round : rounds' = [rounds EXCEPT ![s] = Append(@, r)]
      BY <2>5, Inserted
    <3>2. /\ s \in Ids /\ pc[p] = "running" /\ pc' = [pc EXCEPT ![p] = "steps"]
          /\ own' = [own EXCEPT ![p] = @ \cup {n + 1}]
          /\ roundNum' = [roundNum EXCEPT ![p] = @ + 1] /\ UNCHANGED sid
      BY <2>5, Inserted DEF SaveRound
    <3>3. /\ Len(rounds'[s]) = n + 1 /\ n \in Nat
          /\ \A t \in Ids \ {s} : rounds'[t] = rounds[t]
      BY <3>1, <3>2, AppendedRow DEF TypeOK
    <3>4. \A t \in Ids : Rows(t) \subseteq Rows(t)'
      BY <3>3 DEF Rows
    <3>5. OwnAt(p)'
      <4>1. /\ own[p] \subseteq Rows(s) /\ own'[p] = own[p] \cup {n + 1} /\ sid'[p] = s
            /\ roundNum'[p] = roundNum[p] + 1 /\ pc'[p] = "steps"
        BY <3>2 DEF OwnAt, Live, TypeOK
      <4>2. n + 1 \in Rows(s)' /\ Rows(s) \subseteq Rows(s)' /\ roundNum'[p] # 0
        BY <3>2, <3>3, <3>4, <4>1 DEF Rows, TypeOK
      <4>3. Rows(s)' = 1..Len(rounds'[sid'[p]])
        BY <4>1 DEF Rows
      <4> QED
        BY <4>1, <4>2, <4>3 DEF OwnAt, Rows
    <3>6. ASSUME NEW q \in Procs \ {p} PROVE OwnAt(q)'
      <4>1. /\ pc'[q] = pc[q] /\ sid'[q] = sid[q] /\ roundNum'[q] = roundNum[q]
            /\ hist'[q] = hist[q] /\ own'[q] = own[q]
        BY <2>5, <3>2 DEF SaveRound, Forget, TypeOK
      <4>2. CASE Live(q)
        <5>1. sid[q] \in Ids
          BY <4>2 DEF TypeOK
        <5> QED
          BY <2>a, <3>4, <4>1, <5>1 DEF Rows
      <4>3. CASE ~Live(q)
        BY <4>1, <4>3 DEF OwnAt, Live
      <4> QED
        BY <4>2, <4>3
    <3> QED
      BY <3>5, <3>6
  <2>6. ASSUME NEW p \in Procs, SaveRoundFails(p) PROVE Own'
    BY <2>6, <2>b DEF SaveRoundFails, Forget, Live, TypeOK, table
  <2>7. ASSUME NEW p \in Procs, SaveStep(p) PROVE Own'
    BY <2>7, <2>b DEF SaveStep, Live
  <2>8. ASSUME NEW p \in Procs, Touch(p) PROVE Own'
    BY <2>8, <2>b DEF Touch, Live, table
  <2>9. ASSUME NEW p \in Procs, SaveFails(p) PROVE Own'
    BY <2>9, <2>b DEF SaveFails, Live, table
  <2>10. ASSUME NEW p \in Procs, Exit(p) PROVE Own'
    <3>1. OwnAt(p)'
      BY <2>10 DEF Exit, OwnAt, Live, TypeOK
    <3>2. ASSUME NEW q \in Procs \ {p} PROVE OwnAt(q)'
      BY <2>10, <2>a DEF Exit, table, Rows, TypeOK
    <3> QED
      BY <3>1, <3>2
  <2>11. CASE UNCHANGED vars
    BY <2>11, <2>a DEF vars, table, Rows
  <2> QED
    BY <2>1, <2>3, <2>4, <2>5, <2>6, <2>7, <2>8, <2>9, <2>10, <2>11 DEF Next
<1> QED
  BY <1>1, <1>2, TypeCorrect, InStepInvariant, PTL DEF Spec

\* Even where two instances share a session or inserts have failed, no
\* instance is given a history that leaves out a round it saved itself or
\* found stored when it resumed (session.go:62-65).
THEOREM OwnRoundsAreRemembered == Spec => []OwnRoundsRemembered
<1>1. (\A p \in Procs : OwnAt(p)) => OwnRoundsRemembered
  BY DEF OwnAt, OwnRoundsRemembered, Live
<1> QED
  BY <1>1, OwnInvariant, PTL
=============================================================================
