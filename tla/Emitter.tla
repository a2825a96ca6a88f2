------------------------------ MODULE Emitter ------------------------------
(***************************************************************************)
(* events.ChannelEmitter (internal/events/events.go): Emit, Subscribe and  *)
(* Close under one sync.RWMutex, and the goroutines that range over the    *)
(* channels Subscribe returned (the printer of cmd/main.go, ESConsumer).   *)
(*                                                                         *)
(* Emit holds the read lock while it tries one subscriber after the other, *)
(* so several Emits interleave. Subscribe and Close hold the write lock: a *)
(* writer first announces itself, which keeps new readers out, and acts    *)
(* when the last reader has left. What it does then is one step, for none  *)
(* can see it half done.                                                   *)
(*                                                                         *)
(* A channel is all that was ever sent on it and how much of that has been *)
(* received. The event a producer emits as its nth is <<producer, n>>.     *)
(***************************************************************************)
EXTENDS Naturals, Sequences

CONSTANTS
    Producers,  \* goroutines that call Emit
    Consumers,  \* goroutines that call Subscribe and range over the channel
    Closer,     \* the goroutine that calls Close
    NoOne,      \* no writer
    SubCap,     \* the capacity of a subscriber's channel, 256 in the code
    MaxEvents   \* bound on the events a producer emits

ASSUME SubCapAssumption == SubCap \in Nat \ {0}
ASSUME BoundAssumption == MaxEvents \in Nat
ASSUME RolesAssumption ==
    /\ Closer \notin Consumers
    /\ NoOne \notin Consumers \cup {Closer}

VARIABLES
    closed,     \* ChannelEmitter.closed
    subs,       \* ChannelEmitter.subs: the consumers, in order
    readers,    \* producers that hold the read lock
    pending,    \* the writer that waits for the readers to leave
    next,       \* the next subscriber an Emit tries
    sent,       \* number of events each producer has emitted
    queue,      \* all that was sent on each consumer's channel
    taken,      \* how much of it the consumer has received
    shut,       \* consumers whose channel is closed
    pc,         \* a consumer is "new", in its loop ("range") or "done"
    dropped,    \* history variable: events a full channel did not take
    since,      \* history variable: sent when a consumer subscribed
    panic       \* a send on, or a close of, a closed channel

emitter == <<closed, subs, readers, pending>>
channels == <<queue, taken, shut>>
vars == <<emitter, next, sent, channels, pc, dropped, since, panic>>

Writers == Consumers \cup {Closer}
Events == Producers \X Nat

Init ==
    /\ closed = FALSE
    /\ subs = <<>>
    /\ readers = {}
    /\ pending = NoOne
    /\ next = [p \in Producers |-> 0]
    /\ sent = [p \in Producers |-> 0]
    /\ queue = [c \in Consumers |-> <<>>]
    /\ taken = [c \in Consumers |-> 0]
    /\ shut = {}
    /\ pc = [c \in Consumers |-> "new"]
    /\ dropped = [c \in Consumers |-> {}]
    /\ since = [c \in Consumers |-> [p \in Producers |-> 0]]
    /\ panic = FALSE

-----------------------------------------------------------------------------
\* Emit takes the read lock. On a closed emitter it gives it back at once,
\* which changes nothing.
Emit(p) ==
    /\ ~closed
    /\ p \notin readers /\ pending = NoOne /\ sent[p] < MaxEvents
    /\ readers' = readers \cup {p}
    /\ next' = [next EXCEPT ![p] = 1]
    /\ UNCHANGED <<closed, subs, pending, sent, channels, pc, dropped, since, panic>>

Event(p) == <<p, sent[p] + 1>>
Full(c) == Len(queue[c]) - taken[c] >= SubCap

\* Variant: a full channel makes Emit wait.
TryNextBlocking(p) ==
    LET c == subs[next[p]] IN
    /\ p \in readers /\ next[p] <= Len(subs)
    /\ ~Full(c)
    /\ queue' = [queue EXCEPT ![c] = Append(@, Event(p))]
    /\ next' = [next EXCEPT ![p] = @ + 1]
    /\ UNCHANGED <<emitter, sent, taken, shut, pc, dropped, since, panic>>

\* Variant: a full channel ends the loop over the subscribers.
TryNextBreak(p) ==
    LET c == subs[next[p]] IN
    /\ p \in readers /\ next[p] <= Len(subs)
    /\ \/ /\ ~Full(c)
          /\ queue' = [queue EXCEPT ![c] = Append(@, Event(p))]
          /\ next' = [next EXCEPT ![p] = @ + 1]
          /\ UNCHANGED dropped
       \/ /\ Full(c)
          /\ dropped' = [dropped EXCEPT ![c] = @ \cup {Event(p)}]
          /\ next' = [next EXCEPT ![p] = Len(subs) + 1]
          /\ UNCHANGED queue
    /\ UNCHANGED <<emitter, sent, taken, shut, pc, since, panic>>

\* Variant: a full channel makes Emit start over.
TryNextRestart(p) ==
    LET c == subs[next[p]] IN
    /\ p \in readers /\ next[p] <= Len(subs)
    /\ next' = [next EXCEPT ![p] = IF Full(c) THEN 1 ELSE @ + 1]
    /\ queue' = [queue EXCEPT ![c] = IF Full(c) THEN @ ELSE Append(@, Event(p))]
    /\ UNCHANGED <<emitter, sent, taken, shut, pc, dropped, since, panic>>

\* Emit tries the next subscriber: a full channel drops the event, a closed
\* one panics.
TryNext(p) ==
    LET c == subs[next[p]] IN
    /\ p \in readers /\ next[p] <= Len(subs)
    /\ next' = [next EXCEPT ![p] = @ + 1]
    /\ \/ /\ ~Full(c)
          /\ queue' = [queue EXCEPT ![c] = Append(@, Event(p))]
          /\ UNCHANGED dropped
       \/ /\ Full(c)
          /\ dropped' = [dropped EXCEPT ![c] = @ \cup {Event(p)}]
          /\ UNCHANGED queue
    /\ panic' = (panic \/ c \in shut)
    /\ UNCHANGED <<emitter, sent, taken, shut, pc, since>>

\* All subscribers were tried: Emit gives the read lock back.
EmitReturns(p) ==
    /\ p \in readers /\ next[p] > Len(subs)
    /\ readers' = readers \ {p}
    /\ next' = [next EXCEPT ![p] = 0]
    /\ sent' = [sent EXCEPT ![p] = @ + 1]
    /\ UNCHANGED <<closed, subs, pending, channels, pc, dropped, since, panic>>

-----------------------------------------------------------------------------
\* A writer announces itself; one at a time can.
Announce(w) ==
    /\ pending = NoOne
    /\ w \in Consumers => pc[w] = "new"
    /\ pending' = w
    /\ UNCHANGED <<closed, subs, readers, next, sent, channels, pc, dropped, since, panic>>

\* Variant: the write lock does not wait for the readers.
GrantedAlways(w) == pending = w

\* The write lock is w's: the last reader has left.
Granted(w) == pending = w /\ readers = {}

\* Subscribe makes a channel, on a closed emitter too, and the consumer
\* starts to range over it.
Subscribe(c) ==
    /\ Granted(c)
    /\ pending' = NoOne
    /\ subs' = Append(subs, c)
    /\ pc' = [pc EXCEPT ![c] = "range"]
    /\ since' = [since EXCEPT ![c] = sent]
    /\ UNCHANGED <<closed, readers, next, sent, channels, dropped, panic>>

\* Variant: Close leaves out the last subscriber.
CloseShort ==
    /\ Granted(Closer)
    /\ pending' = NoOne
    /\ closed' = TRUE
    /\ shut' = {subs[i] : i \in 2..Len(subs)}
    /\ UNCHANGED <<subs, readers, next, sent, queue, taken, pc, dropped, since, panic>>

\* Close closes every channel, once: on a closed emitter it does nothing.
Close ==
    /\ Granted(Closer)
    /\ pending' = NoOne
    /\ closed' = TRUE
    /\ \/ closed /\ UNCHANGED <<shut, panic>>
       \/ /\ ~closed
          /\ shut' = shut \cup {subs[i] : i \in 1..Len(subs)}
          /\ panic' = (panic \/ \E i \in 1..Len(subs) : subs[i] \in shut)
    /\ UNCHANGED <<subs, readers, next, sent, queue, taken, pc, dropped, since>>

\* Variant: the loop does not end when the channel is closed.
ReceiveZero(c) ==
    /\ pc[c] = "range" /\ (taken[c] < Len(queue[c]) \/ c \in shut)
    /\ taken' = [taken EXCEPT ![c] = @ + 1]
    /\ UNCHANGED <<emitter, next, sent, queue, shut, pc, dropped, since, panic>>

\* The consumer's loop: the next event, or the end of a closed channel.
Receive(c) ==
    /\ pc[c] = "range" /\ taken[c] < Len(queue[c])
    /\ taken' = [taken EXCEPT ![c] = @ + 1]
    /\ UNCHANGED <<emitter, next, sent, queue, shut, pc, dropped, since, panic>>

Leave(c) ==
    /\ pc[c] = "range" /\ c \in shut /\ taken[c] = Len(queue[c])
    /\ pc' = [pc EXCEPT ![c] = "done"]
    /\ UNCHANGED <<emitter, next, sent, channels, dropped, since, panic>>

Consume(c) == Receive(c) \/ Leave(c)
Sending(p) == TryNext(p) \/ EmitReturns(p)

Next ==
    \/ \E p \in Producers : Emit(p) \/ TryNext(p) \/ EmitReturns(p)
    \/ \E w \in Writers : Announce(w)
    \/ \E c \in Consumers : Subscribe(c) \/ Receive(c) \/ Leave(c)
    \/ Close

\* Weak fairness for the goroutines inside Emit and for a writer that waits;
\* nobody has to call anything, and consumers need not receive.
Spec ==
    /\ Init /\ [][Next]_vars
    /\ \A p \in Producers : WF_vars(Sending(p))
    /\ \A c \in Consumers : WF_vars(Subscribe(c))
    /\ WF_vars(Close)

-----------------------------------------------------------------------------
\* The types of the variables.
TypeOK ==
    /\ closed \in BOOLEAN
    /\ subs \in Seq(Consumers)
    /\ readers \in SUBSET Producers
    /\ pending \in Writers \cup {NoOne}
    /\ next \in [Producers -> Nat]
    /\ sent \in [Producers -> Nat]
    /\ queue \in [Consumers -> Seq(Events)]
    /\ taken \in [Consumers -> Nat]
    /\ \A c \in Consumers : taken[c] <= Len(queue[c])
    /\ shut \in SUBSET Consumers
    /\ pc \in [Consumers -> {"new", "range", "done"}]
    /\ dropped \in [Consumers -> SUBSET Events]
    /\ since \in [Consumers -> [Producers -> Nat]]
    /\ panic \in BOOLEAN

\* No interleaving of Emit, Subscribe and Close sends on a closed channel or
\* closes one twice: an Emit that found the emitter open finishes before
\* Close gets the lock (events.go:125-136, 149-158).
NoPanic == ~panic

\* A channel never holds more than its capacity, and hands a producer's
\* events on in the order they were emitted and none of them twice, however
\* the producers interleave.
DeliveredInOrder == \A c \in Consumers :
    /\ Len(queue[c]) - taken[c] <= SubCap
    /\ \A i, j \in 1..Len(queue[c]) :
         i < j /\ queue[c][i][1] = queue[c][j][1] => queue[c][i][2] < queue[c][j][2]

\* Every event whose Emit has returned was put on the channel of, or dropped
\* at, each consumer that had subscribed before the Emit began; one full
\* channel costs no other consumer an event (events.go:130-136).
EveryEventAccounted == \A c \in Consumers : pc[c] # "new" =>
    \A p \in Producers : \A n \in since[c][p] + 1 .. sent[p] :
        \/ <<p, n>> \in dropped[c]
        \/ \E i \in 1..Len(queue[c]) : queue[c][i] = <<p, n>>

\* Emit never waits for a consumer: it returns even if none ever receives
\* (events.go:123).
EmitNeverBlocks == \A p \in Producers : p \in readers ~> p \notin readers

\* A consumer that subscribed before Close, and keeps receiving, leaves its
\* loop after Close, and not before it has received all that was put on its
\* channel (es_consumer.go:25-35, main.go:57-62).
ConsumersLeave == \A c \in Consumers :
    /\ WF_vars(Consume(c)) => ((~closed /\ pc[c] = "range" /\ <>closed) ~> pc[c] = "done")
    /\ [](pc[c] = "done" => taken[c] = Len(queue[c]))
=============================================================================
