--------------------------- MODULE EmitterProofs ---------------------------
(***************************************************************************)
(* The safety properties of Emitter, for every number of producers and     *)
(* consumers and every capacity.                                           *)
(*                                                                         *)
(* That nothing panics rests on the lock alone (Locked): while an Emit     *)
(* holds it, the emitter is open. That no event is lost or repeated rests  *)
(* on how far each Emit has come (Tried): what was put on a channel is     *)
(* either finished or the event of an Emit that is past that subscriber.   *)
(***************************************************************************)
EXTENDS Emitter, TLAPS

USE SubCapAssumption, BoundAssumption, RolesAssumption

-----------------------------------------------------------------------------
\* Appending keeps what is there and adds one entry at the end.
LEMMA Appended ==
    ASSUME NEW S, NEW list \in Seq(S), NEW e \in S
    PROVE  /\ Append(list, e) \in Seq(S)
           /\ Len(list) \in Nat
           /\ Len(Append(list, e)) = Len(list) + 1
           /\ Append(list, e)[Len(list) + 1] = e
           /\ \A i \in 1..Len(list) : Append(list, e)[i] = list[i]
OBVIOUS

\* What a step of an Emit does: it puts the event on the next channel, or
\* drops it there.
LEMMA Sends ==
    ASSUME TypeOK, NEW p \in Producers, TryNext(p)
    PROVE  /\ p \in readers
           /\ next[p] \in Nat
           /\ next[p] <= Len(subs)
           /\ next' = [next EXCEPT ![p] = @ + 1]
           /\ Event(p) \in Events
           /\ next[p] > 0 => subs[next[p]] \in Consumers
           /\ LET c == subs[next[p]] IN
              /\ panic' = (panic \/ c \in shut)
              /\ \/ /\ ~Full(c)
                    /\ queue' = [queue EXCEPT ![c] = Append(@, Event(p))]
                    /\ UNCHANGED dropped
                 \/ /\ Full(c)
                    /\ dropped' = [dropped EXCEPT ![c] = @ \cup {Event(p)}]
                    /\ UNCHANGED queue
           /\ UNCHANGED <<closed, subs, readers, pending, sent, taken, shut, pc, since>>
<1>1. next[p] \in Nat /\ next[p] <= Len(subs)
  BY DEF TypeOK, TryNext
<1>2. Event(p) \in Events
  BY DEF TypeOK, Event, Events
<1>3. next[p] > 0 => subs[next[p]] \in Consumers
  BY <1>1 DEF TypeOK
<1> QED
  BY <1>1, <1>2, <1>3 DEF TryNext, emitter

-----------------------------------------------------------------------------
\* The lock: an Emit that holds it found the emitter open, a channel is
\* closed only with the emitter, and a consumer that subscribes is new.
Locked ==
    /\ readers # {} => ~closed
    /\ ~closed => shut = {}
    /\ \A p \in readers : next[p] > 0
    /\ pending \in Consumers => pc[pending] = "new"
    /\ ~panic

\* Types and lock hold together: the next subscriber an Emit tries is one
\* because of the lock.
LEMMA LockedInvariant == Spec => [](TypeOK /\ Locked)
<1>1. Init => TypeOK /\ Locked
  <2> SUFFICES ASSUME Init PROVE TypeOK /\ Locked
    OBVIOUS
  <2>1. <<>> \in Seq(Consumers) /\ <<>> \in Seq(Events) /\ Len(<<>>) = 0
    OBVIOUS
  <2>2. queue \in [Consumers -> Seq(Events)] /\ \A c \in Consumers : taken[c] <= Len(queue[c])
    BY <2>1 DEF Init
  <2> QED
    BY <2>1, <2>2 DEF Init, TypeOK, Locked, Writers
<1>2. TypeOK /\ Locked /\ [Next]_vars => TypeOK' /\ Locked'
  <2> SUFFICES ASSUME TypeOK, Locked, [Next]_vars PROVE TypeOK' /\ Locked'
    OBVIOUS
  <2> USE DEF TypeOK, Locked, Writers, emitter, channels
  <2>1. ASSUME NEW p \in Producers, Emit(p) PROVE TypeOK' /\ Locked'
    BY <2>1 DEF Emit
  <2>2. ASSUME NEW p \in Producers, TryNext(p) PROVE TypeOK' /\ Locked'
    <3> DEFINE c == subs[next[p]]
    <3>1. c \in Consumers
      BY <2>2, Sends
    <3>2. c \notin shut
      BY <2>2, Sends
    <3>3. /\ queue' \in [Consumers -> Seq(Events)]
          /\ \A d \in Consumers : taken[d] <= Len(queue'[d])
          /\ dropped' \in [Consumers -> SUBSET Events]
      <4>1. CASE queue' = [queue EXCEPT ![c] = Append(@, Event(p))] /\ UNCHANGED dropped
        <5>1. Append(queue[c], Event(p)) \in Seq(Events)
          BY <2>2, <3>1, Sends
        <5>2. taken[c] <= Len(Append(queue[c], Event(p)))
          BY <2>2, <3>1, Sends, Appended, SMTT(30)
        <5> QED
          BY <3>1, <4>1, <5>1, <5>2
      <4>2. CASE dropped' = [dropped EXCEPT ![c] = @ \cup {Event(p)}] /\ UNCHANGED queue
        <5>1. dropped[c] \cup {Event(p)} \in SUBSET Events
          BY <2>2, <3>1, Sends
        <5> QED
          BY <3>1, <4>2, <5>1
      <4> QED
        BY <2>2, <4>1, <4>2, Sends
    <3>4. next' \in [Producers -> Nat] /\ \A q \in readers : next'[q] > 0
      <4>1. next' = [next EXCEPT ![p] = @ + 1]
        BY <2>2, Sends
      <4>2. next[p] + 1 \in Nat /\ next[p] + 1 > 0
        BY <2>2, Sends
      <4> QED
        BY <4>1, <4>2
    <3>5. panic' = FALSE
      BY <2>2, <3>2, Sends
    <3>6. UNCHANGED <<closed, subs, readers, pending, sent, taken, shut, pc, since>>
      BY <2>2, Sends
    <3> QED
      BY <3>3, <3>4, <3>5, <3>6
  <2>3. ASSUME NEW p \in Producers, EmitReturns(p) PROVE TypeOK' /\ Locked'
    BY <2>3 DEF EmitReturns
  <2>4. ASSUME NEW w \in Writers, Announce(w) PROVE TypeOK' /\ Locked'
    BY <2>4 DEF Announce
  <2>5. ASSUME NEW c \in Consumers, Subscribe(c) PROVE TypeOK' /\ Locked'
    <3>1. Append(subs, c) \in Seq(Consumers)
      OBVIOUS
    <3> QED
      BY <2>5, <3>1 DEF Subscribe, Granted
  <2>6. ASSUME NEW c \in Consumers, Receive(c) PROVE TypeOK' /\ Locked'
    <3>1. taken[c] + 1 \in Nat /\ taken[c] + 1 <= Len(queue[c])
      BY <2>6 DEF Receive
    <3> QED
      BY <2>6, <3>1 DEF Receive
  <2>7. ASSUME NEW c \in Consumers, Leave(c) PROVE TypeOK' /\ Locked'
    BY <2>7 DEF Leave
  <2>8. ASSUME Close PROVE TypeOK' /\ Locked'
    <3>1. {subs[i] : i \in 1..Len(subs)} \subseteq Consumers
      OBVIOUS
    <3> QED
      BY <2>8, <3>1 DEF Close, Granted
  <2>9. CASE UNCHANGED vars
    BY <2>9 DEF vars
  <2> QED
    BY <2>1, <2>2, <2>3, <2>4, <2>5, <2>6, <2>7, <2>8, <2>9 DEF Next
<1> QED
  BY <1>1, <1>2, PTL DEF Spec

\* The variables always have their types.
THEOREM TypeCorrect == Spec => []TypeOK
BY LockedInvariant, PTL

\* No interleaving of Emit, Subscribe and Close, by any number of goroutines,
\* sends on a closed channel or closes one twice (events.go:125-136, 149-158).
THEOREM NothingPanics == Spec => []NoPanic
<1>1. Locked => NoPanic
  BY DEF Locked, NoPanic
<1> QED
  BY <1>1, LockedInvariant, PTL

-----------------------------------------------------------------------------
\* The subscribers are the consumers that are not new, each once.
Enrolled ==
    /\ \A i, j \in 1..Len(subs) : subs[i] = subs[j] => i = j
    /\ \A c \in Consumers : pc[c] # "new" <=> \E i \in 1..Len(subs) : subs[i] = c

\* Every step keeps the list of the subscribers.
LEMMA EnrolledInvariant == Spec => []Enrolled
<1>1. Init => Enrolled
  BY DEF Init, Enrolled
<1>2. TypeOK /\ Locked /\ Enrolled /\ [Next]_vars => Enrolled'
  <2> SUFFICES ASSUME TypeOK, Locked, Enrolled, [Next]_vars PROVE Enrolled'
    OBVIOUS
  <2>1. CASE UNCHANGED <<subs, pc>>
    BY <2>1 DEF Enrolled
  <2>2. ASSUME NEW c \in Consumers, Subscribe(c) PROVE Enrolled'
    <3>1. /\ pc' = [pc EXCEPT ![c] = "range"]
          /\ subs' = Append(subs, c)
          /\ pc[c] = "new"
      BY <2>2 DEF Subscribe, Granted, Locked
    <3>2. /\ Len(subs) \in Nat
          /\ Len(subs') = Len(subs) + 1
          /\ subs'[Len(subs) + 1] = c
          /\ \A i \in 1..Len(subs) : subs'[i] = subs[i]
      BY <3>1, Appended DEF TypeOK
    <3>3. \A i \in 1..Len(subs) : subs[i] # c
      BY <3>1 DEF Enrolled
    <3>4. \A i \in 1..Len(subs') : i \in 1..Len(subs) \/ i = Len(subs) + 1
      BY <3>2
    <3>5. \A i, j \in 1..Len(subs') : subs'[i] = subs'[j] => i = j
      BY <3>2, <3>3, <3>4 DEF Enrolled
    <3>6. ASSUME NEW d \in Consumers
          PROVE  pc'[d] # "new" <=> \E i \in 1..Len(subs') : subs'[i] = d
      <4>1. CASE d = c
        BY <3>1, <3>2, <4>1 DEF TypeOK
      <4>2. CASE d # c
        <5>1. pc'[d] = pc[d]
          BY <3>1, <4>2 DEF TypeOK
        <5>2. (\E i \in 1..Len(subs') : subs'[i] = d) <=> (\E i \in 1..Len(subs) : subs[i] = d)
          BY <3>2, <3>4, <4>2
        <5> QED
          BY <5>1, <5>2 DEF Enrolled
      <4> QED
        BY <4>1, <4>2
    <3> QED
      BY <3>5, <3>6 DEF Enrolled
  <2>3. ASSUME NEW c \in Consumers, Leave(c) PROVE Enrolled'
    BY <2>3 DEF Leave, Enrolled, TypeOK, emitter
  <2>4. ASSUME NEW p \in Producers, Emit(p) \/ TryNext(p) \/ EmitReturns(p) PROVE Enrolled'
    BY <2>1, <2>4 DEF Emit, TryNext, EmitReturns, emitter
  <2>5. ASSUME NEW w \in Writers, Announce(w) PROVE Enrolled'
    BY <2>1, <2>5 DEF Announce
  <2>6. ASSUME NEW c \in Consumers, Receive(c) PROVE Enrolled'
    BY <2>1, <2>6 DEF Receive, emitter
  <2>7. ASSUME Close PROVE Enrolled'
    BY <2>1, <2>7 DEF Close
  <2>8. CASE UNCHANGED vars
    BY <2>1, <2>8 DEF vars, emitter
  <2> QED
    BY <2>2, <2>3, <2>4, <2>5, <2>6, <2>7, <2>8 DEF Next
<1> QED
  BY <1>1, <1>2, LockedInvariant, PTL DEF Spec

-----------------------------------------------------------------------------
\* The Emit of p has tried the channel of c.
Tried(p, c) == p \in readers /\ \E k \in 1..Len(subs) : k < next[p] /\ subs[k] = c

\* Trying a subscriber adds it, and only it, to those the Emit has tried.
LEMMA TriedByTryNext ==
    ASSUME TypeOK, Locked, Enrolled, NEW p \in Producers, TryNext(p)
    PROVE  LET c == subs[next[p]] IN
           /\ c \in Consumers
           /\ ~Tried(p, c)
           /\ \A d \in Consumers : Tried(p, d)' <=> Tried(p, d) \/ d = c
           /\ \A q \in Producers \ {p}, d \in Consumers : Tried(q, d)' <=> Tried(q, d)
<1>1. next[p] \in 1..Len(subs)
  BY Sends DEF Locked, TypeOK
<1>2. /\ p \in readers
      /\ next' = [next EXCEPT ![p] = @ + 1]
      /\ UNCHANGED <<subs, readers>>
      /\ subs[next[p]] \in Consumers
  BY <1>1, Sends
<1>3. next'[p] = next[p] + 1 /\ \A q \in Producers \ {p} : next'[q] = next[q]
  BY <1>2 DEF TypeOK
<1>4. ~Tried(p, subs[next[p]])
  BY <1>1 DEF Enrolled, Tried
<1>5. ASSUME NEW d \in Consumers
      PROVE  Tried(p, d)' <=> Tried(p, d) \/ d = subs[next[p]]
  <2>1. Tried(p, d)' <=> \E k \in 1..Len(subs) : k < next[p] + 1 /\ subs[k] = d
    BY <1>2, <1>3 DEF Tried
  <2>2. \A k \in 1..Len(subs) : k < next[p] + 1 <=> k < next[p] \/ k = next[p]
    BY <1>1
  <2> QED
    BY <1>1, <1>2, <2>1, <2>2 DEF Tried
<1>6. \A q \in Producers \ {p}, d \in Consumers : Tried(q, d)' <=> Tried(q, d)
  BY <1>2, <1>3 DEF Tried
<1> QED
  BY <1>2, <1>4, <1>5, <1>6

\* An Emit that begins has tried nobody.
LEMMA TriedByEmit ==
    ASSUME TypeOK, NEW p \in Producers, Emit(p)
    PROVE  \A q \in Producers, c \in Consumers : Tried(q, c)' <=> Tried(q, c)
<1>1. /\ readers' = readers \cup {p} /\ p \notin readers
      /\ next' = [next EXCEPT ![p] = 1]
      /\ UNCHANGED subs
  BY DEF Emit
<1>2. next'[p] = 1 /\ \A q \in Producers \ {p} : next'[q] = next[q]
  BY <1>1 DEF TypeOK
<1>3. \A c \in Consumers : ~Tried(p, c) /\ ~Tried(p, c)'
  BY <1>1, <1>2 DEF Tried, TypeOK
<1>4. \A q \in Producers \ {p}, c \in Consumers : Tried(q, c)' <=> Tried(q, c)
  BY <1>1, <1>2 DEF Tried
<1> QED
  BY <1>3, <1>4

\* An Emit that returns had tried every subscriber.
LEMMA TriedByEmitReturns ==
    ASSUME TypeOK, Enrolled, NEW p \in Producers, EmitReturns(p)
    PROVE  /\ \A c \in Consumers : ~Tried(p, c)'
           /\ \A c \in Consumers : pc[c] # "new" <=> Tried(p, c)
           /\ \A q \in Producers \ {p}, c \in Consumers : Tried(q, c)' <=> Tried(q, c)
<1>1. /\ p \in readers /\ next[p] > Len(subs)
      /\ readers' = readers \ {p}
      /\ next' = [next EXCEPT ![p] = 0]
      /\ UNCHANGED subs
  BY DEF EmitReturns
<1>2. \A q \in Producers \ {p} : next'[q] = next[q]
  BY <1>1 DEF TypeOK
<1>3. \A c \in Consumers : ~Tried(p, c)'
  BY <1>1 DEF Tried
<1>4. \A k \in 1..Len(subs) : k < next[p]
  BY <1>1 DEF TypeOK
<1>5. \A c \in Consumers : pc[c] # "new" <=> Tried(p, c)
  BY <1>1, <1>4 DEF Tried, Enrolled
<1>6. \A q \in Producers \ {p}, c \in Consumers : Tried(q, c)' <=> Tried(q, c)
  BY <1>1, <1>2 DEF Tried
<1> QED
  BY <1>3, <1>5, <1>6

\* While the write lock is held no Emit has tried anybody.
LEMMA TriedByWriter ==
    ASSUME readers = {}, readers' = {}
    PROVE  \A p \in Producers, c \in Consumers : ~Tried(p, c) /\ ~Tried(p, c)'
BY DEF Tried

-----------------------------------------------------------------------------
\* What is on c's channel is in order, and of each producer no later than
\* the event it is emitting; that one only if its Emit has tried c.
InOrderAt(c) ==
    /\ Len(queue[c]) - taken[c] <= SubCap
    /\ \A i \in 1..Len(queue[c]), p \in Producers : queue[c][i][1] = p =>
         \/ queue[c][i][2] <= sent[p]
         \/ Tried(p, c) /\ queue[c][i][2] = sent[p] + 1
    /\ \A i, j \in 1..Len(queue[c]) :
         i < j /\ queue[c][i][1] = queue[c][j][1] => queue[c][i][2] < queue[c][j][2]

\* An entry of a channel is a producer and a number.
LEMMA EntryTyped ==
    ASSUME TypeOK, NEW c \in Consumers, NEW i \in 1..Len(queue[c])
    PROVE  queue[c][i][1] \in Producers /\ queue[c][i][2] \in Nat
<1>1. queue[c] \in Seq(Events)
  BY DEF TypeOK
<1>2. queue[c][i] \in Events
  BY <1>1
<1> QED
  BY <1>2 DEF Events

\* Every step keeps what is on a channel in order.
LEMMA InOrderInvariant == Spec => [](\A c \in Consumers : InOrderAt(c))
<1>1. Init => \A c \in Consumers : InOrderAt(c)
  BY DEF Init, InOrderAt
<1>2. ASSUME TypeOK, Locked, Enrolled, [Next]_vars,
             NEW c \in Consumers, InOrderAt(c)
      PROVE  InOrderAt(c)'
  <2>1. \A i \in 1..Len(queue[c]) : queue[c][i][1] \in Producers /\ queue[c][i][2] \in Nat
    BY <1>2, EntryTyped
  <2>2. ASSUME NEW i \in 1..Len(queue[c]), NEW p \in Producers, queue[c][i][1] = p
        PROVE  /\ sent[p] \in Nat /\ queue[c][i][2] \in Nat
               /\ queue[c][i][2] <= sent[p] + 1
               /\ ~Tried(p, c) => queue[c][i][2] < sent[p] + 1
    <3>1. sent[p] \in Nat /\ queue[c][i][2] \in Nat
      BY <1>2, <2>1 DEF TypeOK
    <3>2. \/ queue[c][i][2] <= sent[p]
          \/ Tried(p, c) /\ queue[c][i][2] = sent[p] + 1
      BY <1>2, <2>2 DEF InOrderAt
    <3> QED
      BY <3>1, <3>2
  <2>3. queue[c] \in Seq(Events) /\ taken[c] \in Nat /\ taken[c] <= Len(queue[c])
    BY <1>2 DEF TypeOK
  \* A step that changes neither the channel nor how far the Emits are.
  <2>4. ASSUME UNCHANGED <<queue, sent>>, taken'[c] = taken[c],
               \A p \in Producers : Tried(p, c)' <=> Tried(p, c)
        PROVE  InOrderAt(c)'
    BY <1>2, <2>1, <2>4 DEF InOrderAt
  <2>5. ASSUME NEW p \in Producers, Emit(p) PROVE InOrderAt(c)'
    BY <1>2, <2>4, <2>5, TriedByEmit DEF Emit, channels
  <2>6. ASSUME NEW p \in Producers, TryNext(p) PROVE InOrderAt(c)'
    <3> DEFINE d == subs[next[p]]
    <3>1. UNCHANGED <<sent, taken>>
      BY <1>2, <2>6, Sends
    <3>2. /\ ~Tried(p, d)
          /\ Tried(p, c)' <=> Tried(p, c) \/ c = d
          /\ \A q \in Producers \ {p} : Tried(q, c)' <=> Tried(q, c)
      BY <1>2, <2>6, TriedByTryNext
    <3>3. \A q \in Producers : Tried(q, c) => Tried(q, c)'
      BY <3>2
    <3>4. CASE queue'[c] = queue[c]
      BY <1>2, <2>1, <3>1, <3>3, <3>4 DEF InOrderAt
    <3>5. CASE queue'[c] # queue[c]
      <4>1. c = d /\ ~Full(c) /\ queue' = [queue EXCEPT ![c] = Append(@, Event(p))]
        <5>1. \/ ~Full(d) /\ queue' = [queue EXCEPT ![d] = Append(@, Event(p))]
              \/ queue' = queue
          BY <1>2, <2>6, Sends
        <5> QED
          BY <1>2, <3>5, <5>1 DEF TypeOK
      <4>2. queue'[c] = Append(queue[c], Event(p)) /\ Event(p) \in Events
        <5>1. Event(p) \in Events
          BY <1>2, <2>6, Sends
        <5> QED
          BY <1>2, <4>1, <5>1 DEF TypeOK
      <4>3. /\ Len(queue[c]) \in Nat
            /\ Len(queue'[c]) = Len(queue[c]) + 1
            /\ queue'[c][Len(queue[c]) + 1] = Event(p)
            /\ \A i \in 1..Len(queue[c]) : queue'[c][i] = queue[c][i]
        BY <2>3, <4>2, Appended
      <4>4. Len(queue'[c]) - taken'[c] <= SubCap
        BY <2>3, <3>1, <4>1, <4>3 DEF Full
      <4>5. \A i \in 1..Len(queue'[c]) : i \in 1..Len(queue[c]) \/ i = Len(queue[c]) + 1
        BY <4>3
      <4>6. Event(p)[1] = p /\ Event(p)[2] = sent[p] + 1
        BY DEF Event
      <4>7. \A i \in 1..Len(queue[c]) : queue[c][i][1] = p => queue[c][i][2] < sent[p] + 1
        <5>1. ~Tried(p, c)
          BY <3>2, <4>1
        <5> QED
          BY <2>2, <5>1
      <4>8. ASSUME NEW i \in 1..Len(queue'[c]), NEW q \in Producers, queue'[c][i][1] = q
            PROVE  \/ queue'[c][i][2] <= sent'[q]
                   \/ Tried(q, c)' /\ queue'[c][i][2] = sent'[q] + 1
        <5>1. CASE i \in 1..Len(queue[c])
          <6>1. queue'[c][i] = queue[c][i]
            BY <4>3, <5>1
          <6> QED
            BY <1>2, <3>1, <3>3, <4>8, <5>1, <6>1 DEF InOrderAt
        <5>2. CASE i = Len(queue[c]) + 1
          <6>1. q = p /\ queue'[c][i][2] = sent'[q] + 1
            BY <3>1, <4>3, <4>6, <4>8, <5>2
          <6> QED
            BY <3>2, <4>1, <6>1
        <5> QED
          BY <4>5, <5>1, <5>2
      <4>9. ASSUME NEW i \in 1..Len(queue'[c]), NEW j \in 1..Len(queue'[c]),
                   i < j, queue'[c][i][1] = queue'[c][j][1]
            PROVE  queue'[c][i][2] < queue'[c][j][2]
        <5>1. i \in 1..Len(queue[c])
          BY <4>3, <4>9
        <5>2. CASE j \in 1..Len(queue[c])
          BY <1>2, <4>3, <4>9, <5>1, <5>2 DEF InOrderAt
        <5>3. CASE j = Len(queue[c]) + 1
          BY <4>3, <4>6, <4>7, <4>9, <5>1, <5>3
        <5> QED
          BY <4>5, <5>2, <5>3
      <4> QED
        BY <4>4, <4>8, <4>9 DEF InOrderAt
    <3> QED
      BY <3>4, <3>5
  <2>7. ASSUME NEW p \in Producers, EmitReturns(p) PROVE InOrderAt(c)'
    <3>1. /\ UNCHANGED <<queue, taken>>
          /\ sent'[p] = sent[p] + 1
          /\ \A q \in Producers \ {p} : sent'[q] = sent[q]
      BY <1>2, <2>7 DEF EmitReturns, channels, TypeOK
    <3>2. \A q \in Producers \ {p} : Tried(q, c)' <=> Tried(q, c)
      BY <1>2, <2>7, TriedByEmitReturns
    <3>3. ASSUME NEW i \in 1..Len(queue[c]), NEW q \in Producers, queue[c][i][1] = q
          PROVE  \/ queue[c][i][2] <= sent'[q]
                 \/ Tried(q, c)' /\ queue[c][i][2] = sent'[q] + 1
      <4>1. CASE q = p
        <5>1. queue[c][i][2] <= sent[p] + 1
          BY <2>2, <3>3, <4>1
        <5> QED
          BY <3>1, <4>1, <5>1
      <4>2. CASE q # p
        BY <1>2, <3>1, <3>2, <3>3, <4>2, SMTT(30) DEF InOrderAt
      <4> QED
        BY <4>1, <4>2
    <3> QED
      BY <1>2, <3>1, <3>3 DEF InOrderAt
  <2>8. ASSUME NEW w \in Writers, Announce(w) PROVE InOrderAt(c)'
    BY <2>4, <2>8 DEF Announce, channels, Tried
  <2>9. ASSUME NEW d \in Consumers, Subscribe(d) PROVE InOrderAt(c)'
    BY <2>4, <2>9, TriedByWriter DEF Subscribe, Granted, channels
  <2>10. ASSUME NEW d \in Consumers, Receive(d) PROVE InOrderAt(c)'
    <3>1. UNCHANGED <<queue, sent, readers, next, subs>> /\ taken'[c] \in {taken[c], taken[c] + 1}
      BY <1>2, <2>10 DEF Receive, emitter, TypeOK
    <3>2. Len(queue[c]) - taken'[c] <= SubCap
      BY <1>2, <2>3, <3>1 DEF InOrderAt
    <3>3. \A q \in Producers : Tried(q, c)' <=> Tried(q, c)
      BY <3>1 DEF Tried
    <3> QED
      BY <1>2, <2>1, <3>1, <3>2, <3>3 DEF InOrderAt
  <2>11. ASSUME NEW d \in Consumers, Leave(d) PROVE InOrderAt(c)'
    BY <2>4, <2>11 DEF Leave, channels, emitter, Tried
  <2>12. ASSUME Close PROVE InOrderAt(c)'
    BY <2>4, <2>12, TriedByWriter DEF Close, Granted
  <2>13. CASE UNCHANGED vars
    BY <2>4, <2>13 DEF vars, channels, emitter, Tried
  <2> QED
    BY <1>2, <2>5, <2>6, <2>7, <2>8, <2>9, <2>10, <2>11, <2>12, <2>13 DEF Next
<1>3. /\ TypeOK /\ Locked /\ Enrolled /\ [Next]_vars
      /\ \A c \in Consumers : InOrderAt(c)
      => (\A c \in Consumers : InOrderAt(c))'
  BY <1>2
<1> QED
  BY <1>1, <1>3, LockedInvariant, EnrolledInvariant, PTL DEF Spec

\* However many producers interleave, a channel holds no more than its
\* capacity and hands each producer's events on in order and once
\* (events.go:123-137).
THEOREM EventsAreInOrder == Spec => []DeliveredInOrder
<1>1. (\A c \in Consumers : InOrderAt(c)) => DeliveredInOrder
  BY DEF InOrderAt, DeliveredInOrder
<1> QED
  BY <1>1, InOrderInvariant, PTL

-----------------------------------------------------------------------------
\* The event was put on c's channel or dropped there.
Accounted(c, e) == e \in dropped[c] \/ \E i \in 1..Len(queue[c]) : queue[c][i] = e

\* The events of p that c must have been offered: those whose Emit returned
\* after c subscribed, and the one of an Emit that has tried c.
Due(c, p) == {n \in Nat : \/ n \in since[c][p] + 1 .. sent[p]
                          \/ Tried(p, c) /\ n = sent[p] + 1}

AccountedAt(c) ==
    pc[c] # "new" => \A p \in Producers : \A n \in Due(c, p) : Accounted(c, <<p, n>>)

\* What is accounted for stays so.
LEMMA AccountedStays ==
    ASSUME TypeOK, [Next]_vars, NEW c \in Consumers, NEW e, Accounted(c, e)
    PROVE  Accounted(c, e)'
<1>1. CASE UNCHANGED <<queue, dropped>>
  BY <1>1 DEF Accounted
<1>2. ASSUME NEW p \in Producers, TryNext(p) PROVE Accounted(c, e)'
  <2>1. queue[c] \in Seq(Events) /\ dropped[c] \in SUBSET Events /\ Event(p) \in Events
    BY <1>2, Sends DEF TypeOK
  <2>2. \/ queue'[c] = queue[c] /\ dropped[c] \subseteq dropped'[c]
        \/ queue'[c] = Append(queue[c], Event(p)) /\ dropped'[c] = dropped[c]
    <3> DEFINE d == subs[next[p]]
    <3>1. \/ queue' = [queue EXCEPT ![d] = Append(@, Event(p))] /\ UNCHANGED dropped
          \/ dropped' = [dropped EXCEPT ![d] = @ \cup {Event(p)}] /\ UNCHANGED queue
      BY <1>2, Sends
    <3>2. CASE d = c
      BY <3>1, <3>2 DEF TypeOK
    <3>3. CASE d # c
      BY <3>1, <3>3 DEF TypeOK
    <3> QED
      BY <3>2, <3>3
  <2>3. CASE queue'[c] = queue[c] /\ dropped[c] \subseteq dropped'[c]
    BY <2>3 DEF Accounted
  <2>4. CASE queue'[c] = Append(queue[c], Event(p)) /\ dropped'[c] = dropped[c]
    <3>1. /\ Len(queue[c]) \in Nat
          /\ Len(queue'[c]) = Len(queue[c]) + 1
          /\ \A i \in 1..Len(queue[c]) : queue'[c][i] = queue[c][i]
      BY <2>1, <2>4, Appended
    <3>2. \A i \in 1..Len(queue[c]) : i \in 1..Len(queue'[c])
      BY <3>1
    <3> QED
      BY <2>4, <3>1, <3>2 DEF Accounted
  <2> QED
    BY <2>2, <2>3, <2>4
<1>3. CASE UNCHANGED vars
  BY <1>1, <1>3 DEF vars, channels
<1> QED
  BY <1>1, <1>2, <1>3
  DEF Next, Emit, EmitReturns, Announce, Subscribe, Receive, Leave, Close, channels

\* Every step keeps the events due to a consumer accounted for.
LEMMA AccountedInvariant == Spec => [](\A c \in Consumers : AccountedAt(c))
<1>1. Init => \A c \in Consumers : AccountedAt(c)
  BY DEF Init, AccountedAt
<1>2. ASSUME TypeOK, Locked, Enrolled, [Next]_vars,
             NEW c \in Consumers, AccountedAt(c)
      PROVE  AccountedAt(c)'
  \* A step that makes no further event due.
  <2>1. ASSUME pc'[c] # "new" => pc[c] # "new",
               \A p \in Producers : Due(c, p)' \subseteq Due(c, p)
        PROVE  AccountedAt(c)'
    BY <1>2, <2>1, AccountedStays DEF AccountedAt
  <2>2. ASSUME UNCHANGED <<since, sent>>, pc'[c] # "new" => pc[c] # "new",
               \A p \in Producers : Tried(p, c)' <=> Tried(p, c)
        PROVE  AccountedAt(c)'
    BY <2>1, <2>2 DEF Due
  <2>3. ASSUME NEW p \in Producers, Emit(p) PROVE AccountedAt(c)'
    BY <1>2, <2>2, <2>3, TriedByEmit DEF Emit
  <2>4. ASSUME NEW p \in Producers, TryNext(p) PROVE AccountedAt(c)'
    <3>1. UNCHANGED <<sent, since, pc>>
      BY <1>2, <2>4, Sends
    <3>2. /\ Tried(p, c)' <=> Tried(p, c) \/ c = subs[next[p]]
          /\ \A q \in Producers \ {p} : Tried(q, c)' <=> Tried(q, c)
      BY <1>2, <2>4, TriedByTryNext
    <3>3. CASE c # subs[next[p]]
      BY <2>2, <3>1, <3>2, <3>3
    <3>4. CASE c = subs[next[p]]
      <4>1. Accounted(c, Event(p))'
        <5>1. queue[c] \in Seq(Events) /\ Event(p) \in Events
          BY <1>2, <2>4, Sends DEF TypeOK
        <5>2. \/ queue'[c] = Append(queue[c], Event(p))
              \/ Event(p) \in dropped'[c]
          BY <1>2, <2>4, <3>4, Sends, SMTT(30) DEF TypeOK
        <5>3. CASE queue'[c] = Append(queue[c], Event(p))
          <6>1. /\ Len(queue[c]) + 1 \in 1..Len(queue'[c])
                /\ queue'[c][Len(queue[c]) + 1] = Event(p)
            BY <5>1, <5>3, Appended
          <6>2. Event(p)' = Event(p)
            BY <3>1 DEF Event
          <6> QED
            BY <6>1, <6>2 DEF Accounted
        <5> QED
          BY <3>1, <5>2, <5>3 DEF Accounted, Event
      <4>2. \A q \in Producers : \A n \in Due(c, q)' :
              n \in Due(c, q) \/ <<q, n>> = Event(p)
        BY <3>1, <3>2 DEF Due, Event
      <4>3. Event(p)' = Event(p)
        BY <3>1 DEF Event
      <4> QED
        BY <1>2, <3>1, <4>1, <4>2, <4>3, AccountedStays DEF AccountedAt
    <3> QED
      BY <3>3, <3>4
  <2>5. ASSUME NEW p \in Producers, EmitReturns(p) PROVE AccountedAt(c)'
    <3>1. /\ UNCHANGED <<since, pc>>
          /\ sent[p] \in Nat
          /\ sent'[p] = sent[p] + 1
          /\ \A q \in Producers \ {p} : sent'[q] = sent[q]
      BY <1>2, <2>5 DEF EmitReturns, TypeOK
    <3>2. /\ ~Tried(p, c)'
          /\ pc[c] # "new" => Tried(p, c)
          /\ \A q \in Producers \ {p} : Tried(q, c)' <=> Tried(q, c)
      BY <1>2, <2>5, TriedByEmitReturns
    <3>3. ASSUME pc[c] # "new", NEW q \in Producers PROVE Due(c, q)' \subseteq Due(c, q)
      <4>1. since[c][p] \in Nat
        BY <1>2 DEF TypeOK
      <4>2. CASE q = p
        BY <3>1, <3>2, <3>3, <4>1, <4>2 DEF Due
      <4>3. CASE q # p
        BY <3>1, <3>2, <4>3 DEF Due
      <4> QED
        BY <4>2, <4>3
    <3> QED
      BY <1>2, <3>1, <3>3, AccountedStays DEF AccountedAt
  <2>6. ASSUME NEW w \in Writers, Announce(w) PROVE AccountedAt(c)'
    BY <2>2, <2>6 DEF Announce, Tried
  <2>7. ASSUME NEW d \in Consumers, Subscribe(d) PROVE AccountedAt(c)'
    <3>1. \A p \in Producers : ~Tried(p, c) /\ ~Tried(p, c)'
      BY <2>7, TriedByWriter DEF Subscribe, Granted
    <3>2. /\ UNCHANGED sent
          /\ since' = [since EXCEPT ![d] = sent]
          /\ pc' = [pc EXCEPT ![d] = "range"]
      BY <2>7 DEF Subscribe
    <3>3. CASE c = d
      <4>1. since'[c] = sent'
        BY <1>2, <3>2, <3>3 DEF TypeOK
      <4>2. \A p \in Producers : sent[p] \in Nat
        BY <1>2 DEF TypeOK
      <4>3. \A p \in Producers : Due(c, p)' = {}
        BY <3>1, <3>2, <4>1, <4>2 DEF Due
      <4> QED
        BY <4>3 DEF AccountedAt
    <3>4. CASE c # d
      <4>1. since'[c] = since[c] /\ pc'[c] = pc[c]
        BY <1>2, <3>2, <3>4 DEF TypeOK
      <4>2. \A p \in Producers : Due(c, p)' \subseteq Due(c, p)
        BY <3>1, <3>2, <4>1 DEF Due
      <4> QED
        BY <2>1, <4>1, <4>2
    <3> QED
      BY <3>3, <3>4
  <2>8. ASSUME NEW d \in Consumers, Receive(d) PROVE AccountedAt(c)'
    BY <2>2, <2>8 DEF Receive, emitter, Tried
  <2>9. ASSUME NEW d \in Consumers, Leave(d) PROVE AccountedAt(c)'
    <3>1. pc'[c] # "new" => pc[c] # "new"
      BY <1>2, <2>9 DEF Leave, TypeOK
    <3> QED
      BY <2>2, <2>9, <3>1 DEF Leave, emitter, Tried
  <2>10. ASSUME Close PROVE AccountedAt(c)'
    BY <2>2, <2>10, TriedByWriter DEF Close, Granted
  <2>11. CASE UNCHANGED vars
    BY <2>2, <2>11 DEF vars, emitter, Tried
  <2> QED
    BY <1>2, <2>3, <2>4, <2>5, <2>6, <2>7, <2>8, <2>9, <2>10, <2>11 DEF Next
<1>3. /\ TypeOK /\ Locked /\ Enrolled /\ [Next]_vars
      /\ \A c \in Consumers : AccountedAt(c)
      => (\A c \in Consumers : AccountedAt(c))'
  BY <1>2
<1> QED
  BY <1>1, <1>3, LockedInvariant, EnrolledInvariant, PTL DEF Spec

\* Of every event whose Emit has returned, each consumer that had subscribed
\* before was sent it or has it among the dropped: a full channel costs
\* nobody else an event (events.go:130-136).
THEOREM EventsAreAccounted == Spec => []EveryEventAccounted
<1>1. TypeOK /\ (\A c \in Consumers : AccountedAt(c)) => EveryEventAccounted
  <2> SUFFICES ASSUME TypeOK, \A c \in Consumers : AccountedAt(c),
                      NEW c \in Consumers, pc[c] # "new",
                      NEW p \in Producers, NEW n \in since[c][p] + 1 .. sent[p]
               PROVE  Accounted(c, <<p, n>>)
    BY DEF EveryEventAccounted, Accounted
  <2>1. since[c][p] \in Nat /\ sent[p] \in Nat
    BY DEF TypeOK
  <2>2. n \in Due(c, p)
    BY <2>1 DEF Due
  <2> QED
    BY <2>2 DEF AccountedAt
<1> QED
  BY <1>1, TypeCorrect, AccountedInvariant, PTL
=============================================================================
