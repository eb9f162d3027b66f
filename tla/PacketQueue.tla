---------------------------- MODULE PacketQueue ----------------------------
(***************************************************************************)
(* base/packet_queue.cpp: the bounded queue of compressed packets between  *)
(* the demuxer thread and one decoder (or recorder) thread.                *)
(*                                                                         *)
(* Every method holds mutex_ from its first line to its last, except while *)
(* it sleeps on one of the two condition variables.  An action is          *)
(* therefore one critical section: a call up to its return or up to the    *)
(* point where it falls asleep, or a wake-up up to the return or the next  *)
(* sleep.  pushCond and popCond are the sets of threads asleep on the      *)
(* condition variables; a thread whose call is open and that is in neither *)
(* set has been woken and has not yet re-acquired mutex_.                  *)
(*                                                                         *)
(* push/pop with timeout 0 on a full/empty queue return false and change   *)
(* nothing: they are stuttering steps and have no action.                  *)
(***************************************************************************)
EXTENDS Integers, Sequences, FiniteSets

CONSTANTS
    Producers,     \* threads that call push
    Consumers,     \* threads that call pop
    Packets,       \* the packets that can be pushed
    ValidPackets,  \* those with isValid(), i.e. packet_ # nullptr
    SizeOf,        \* Packet::size()
    DurationOf,    \* Packet::duration()
    Capacities,    \* arguments of the constructor and of setMaxPacketCount
    NoPacket,      \* the argument of a pop
    MaxSerial      \* bound on serial_ (flush and start increment it)

ASSUME PacketQueueAssumption ==
    /\ IsFiniteSet(Producers) /\ IsFiniteSet(Consumers)
    /\ Producers \cap Consumers = {}
    /\ ValidPackets \subseteq Packets
    /\ NoPacket \notin Packets
    /\ SizeOf \in [Packets -> Nat]
    /\ DurationOf \in [Packets -> Nat]
    /\ Capacities \subseteq Nat \ {0}
    /\ MaxSerial \in Nat

VARIABLES
    queue,           \* queue_
    aborted,         \* aborted_
    serial,          \* serial_
    maxPacketCount,  \* maxPacketCount_
    size,            \* size_: bytes queued
    duration,        \* duration_: play time queued
    pushCond,        \* threads asleep on pushCond_
    popCond,         \* threads asleep on popCond_
    call             \* the open call of each thread

members == <<queue, aborted, serial, maxPacketCount, size, duration>>
vars == <<queue, aborted, serial, maxPacketCount, size, duration,
          pushCond, popCond, call>>

Threads == Producers \cup Consumers
Idle == [op |-> "none", pkt |-> NoPacket, timed |-> FALSE]
Calls == [op : {"none", "push", "pop"}, pkt : Packets \cup {NoPacket}, timed : BOOLEAN]

Init ==
    /\ queue = <<>>
    /\ aborted = FALSE
    /\ serial = 0
    /\ maxPacketCount \in Capacities
    /\ size = 0
    /\ duration = 0
    /\ pushCond = {}
    /\ popCond = {}
    /\ call = [t \in Threads |-> Idle]
-----------------------------------------------------------------------------
canPush == aborted \/ Len(queue) < maxPacketCount
canPop == aborted \/ queue # <<>>

\* What notify_one can leave of the threads asleep on a condition variable.
notify_one(cond) == IF cond = {} THEN {cond} ELSE {cond \ {t} : t \in cond}

updateStatisticsOnPush(p) ==
    IF p \in ValidPackets
    THEN size' = size + SizeOf[p] /\ duration' = duration + DurationOf[p]
    ELSE UNCHANGED <<size, duration>>

updateStatisticsOnPop(p) ==
    IF p \in ValidPackets
    THEN size' = size - SizeOf[p] /\ duration' = duration - DurationOf[p]
    ELSE UNCHANGED <<size, duration>>
-----------------------------------------------------------------------------
(* push: after the wait predicate, nothing is added to an aborted queue. *)

\* Seeded bug: the consumer is notified only when the queue was empty.
EnqueueNotifyWhenEmpty(t, p) ==
    /\ call' = [call EXCEPT ![t] = Idle]
    /\ pushCond' = pushCond \ {t}
    /\ \/ aborted /\ UNCHANGED <<members, popCond>>
       \/ /\ ~aborted
          /\ queue' = Append(queue, p)
          /\ updateStatisticsOnPush(p)
          /\ IF queue = <<>> THEN popCond' \in notify_one(popCond) ELSE UNCHANGED popCond
          /\ UNCHANGED <<aborted, serial, maxPacketCount>>

\* Seeded bug: the second look at aborted_ after the wait is missing.
EnqueueAborted(t, p) ==
    /\ call' = [call EXCEPT ![t] = Idle]
    /\ pushCond' = pushCond \ {t}
    /\ queue' = Append(queue, p)
    /\ updateStatisticsOnPush(p)
    /\ popCond' \in notify_one(popCond)
    /\ UNCHANGED <<aborted, serial, maxPacketCount>>

Enqueue(t, p) ==
    /\ call' = [call EXCEPT ![t] = Idle]
    /\ pushCond' = pushCond \ {t}
    /\ \/ aborted /\ UNCHANGED <<members, popCond>>
       \/ /\ ~aborted
          /\ queue' = Append(queue, p)
          /\ updateStatisticsOnPush(p)
          /\ popCond' \in notify_one(popCond)
          /\ UNCHANGED <<aborted, serial, maxPacketCount>>

Push(t, p) ==
    /\ call[t] = Idle
    /\ canPush
    /\ Enqueue(t, p)

PushWait(t, p, timed) ==
    /\ call[t] = Idle
    /\ ~canPush
    /\ call' = [call EXCEPT ![t] = [op |-> "push", pkt |-> p, timed |-> timed]]
    /\ pushCond' = pushCond \cup {t}
    /\ UNCHANGED <<members, popCond>>

PushWoken(t) ==
    /\ call[t].op = "push"
    /\ t \notin pushCond
    /\ \/ canPush /\ Enqueue(t, call[t].pkt)
       \/ /\ ~canPush
          /\ pushCond' = pushCond \cup {t}
          /\ UNCHANGED <<members, popCond, call>>

PushTimeout(t) ==
    /\ t \in pushCond
    /\ call[t].timed
    /\ \/ canPush /\ Enqueue(t, call[t].pkt)
       \/ /\ ~canPush
          /\ call' = [call EXCEPT ![t] = Idle]
          /\ pushCond' = pushCond \ {t}
          /\ UNCHANGED <<members, popCond>>
-----------------------------------------------------------------------------
(* pop: an aborted queue is still drained; it returns false once empty. *)

\* Seeded bug: pop forgets to notify the producers.
DequeueSilent(t) ==
    /\ call' = [call EXCEPT ![t] = Idle]
    /\ popCond' = popCond \ {t}
    /\ UNCHANGED <<pushCond, aborted, serial, maxPacketCount>>
    /\ \/ queue = <<>> /\ aborted /\ UNCHANGED <<queue, size, duration>>
       \/ /\ queue # <<>>
          /\ queue' = Tail(queue)
          /\ updateStatisticsOnPop(Head(queue))

Dequeue(t) ==
    /\ call' = [call EXCEPT ![t] = Idle]
    /\ popCond' = popCond \ {t}
    /\ \/ queue = <<>> /\ aborted /\ UNCHANGED <<members, pushCond>>
       \/ /\ queue # <<>>
          /\ queue' = Tail(queue)
          /\ updateStatisticsOnPop(Head(queue))
          /\ pushCond' \in notify_one(pushCond)
          /\ UNCHANGED <<aborted, serial, maxPacketCount>>

Pop(t) ==
    /\ call[t] = Idle
    /\ canPop
    /\ Dequeue(t)

PopWait(t, timed) ==
    /\ call[t] = Idle
    /\ ~canPop
    /\ call' = [call EXCEPT ![t] = [op |-> "pop", pkt |-> NoPacket, timed |-> timed]]
    /\ popCond' = popCond \cup {t}
    /\ UNCHANGED <<members, pushCond>>

PopWoken(t) ==
    /\ call[t].op = "pop"
    /\ t \notin popCond
    /\ \/ canPop /\ Dequeue(t)
       \/ /\ ~canPop
          /\ popCond' = popCond \cup {t}
          /\ UNCHANGED <<members, pushCond, call>>

PopTimeout(t) ==
    /\ t \in popCond
    /\ call[t].timed
    /\ \/ canPop /\ Dequeue(t)
       \/ /\ ~canPop
          /\ call' = [call EXCEPT ![t] = Idle]
          /\ popCond' = popCond \ {t}
          /\ UNCHANGED <<members, pushCond>>

\* std::condition_variable may wake a thread without a notification.
SpuriousWakeup(t) ==
    /\ t \in pushCond \cup popCond
    /\ pushCond' = pushCond \ {t}
    /\ popCond' = popCond \ {t}
    /\ UNCHANGED <<members, call>>
-----------------------------------------------------------------------------
(* The control methods, called from the controller's and demuxer's threads. *)

flush ==
    /\ serial < MaxSerial
    /\ queue' = <<>>
    /\ size' = 0
    /\ duration' = 0
    /\ serial' = serial + 1
    /\ pushCond' = {} /\ popCond' = {}
    /\ UNCHANGED <<aborted, maxPacketCount, call>>

start ==
    /\ serial < MaxSerial
    /\ aborted' = FALSE
    /\ serial' = serial + 1
    /\ pushCond' = {} /\ popCond' = {}
    /\ UNCHANGED <<queue, maxPacketCount, size, duration, call>>

\* Seeded bug: abort wakes the producers only.
abortWakesProducers ==
    /\ aborted' = TRUE
    /\ pushCond' = {}
    /\ UNCHANGED <<queue, serial, maxPacketCount, size, duration, popCond, call>>

abort ==
    /\ aborted' = TRUE
    /\ pushCond' = {} /\ popCond' = {}
    /\ UNCHANGED <<queue, serial, maxPacketCount, size, duration, call>>

setMaxPacketCount(n) ==
    /\ maxPacketCount' = n
    /\ pushCond' = {}
    /\ UNCHANGED <<queue, aborted, serial, size, duration, popCond, call>>
-----------------------------------------------------------------------------
Next ==
    \/ \E t \in Producers :
          \/ \E p \in Packets : Push(t, p)
          \/ \E p \in Packets, timed \in BOOLEAN : PushWait(t, p, timed)
          \/ PushWoken(t)
          \/ PushTimeout(t)
    \/ \E t \in Consumers :
          \/ Pop(t)
          \/ \E timed \in BOOLEAN : PopWait(t, timed)
          \/ PopWoken(t)
          \/ PopTimeout(t)
    \/ \E t \in Threads : SpuriousWakeup(t)
    \/ flush
    \/ start
    \/ abort
    \/ \E n \in Capacities : setMaxPacketCount(n)

Spec == Init /\ [][Next]_vars

\* The operating system runs every runnable thread, and a consumer is a
\* decode loop that calls pop again and again (video_decoder.cpp:560,
\* audio_decoder.cpp, recorder): weak fairness of the woken threads and of
\* the consumers' calls.  Nothing is assumed of producers, of control calls
\* or of spurious wake-ups.
Fairness ==
    /\ \A t \in Producers : WF_vars(PushWoken(t))
    /\ \A t \in Consumers : WF_vars(PopWoken(t)) /\ WF_vars(Pop(t))

FairSpec == Spec /\ Fairness
-----------------------------------------------------------------------------
(* State predicates used by the properties. *)

PushWokenThreads == {t \in Producers : call[t].op = "push" /\ t \notin pushCond}
PopWokenThreads == {t \in Consumers : call[t].op = "pop" /\ t \notin popCond}

\* Types of the members; a sleeping thread has an open call of the matching
\* kind, and only producers push and only consumers pop.
TypeOK ==
    /\ queue \in Seq(Packets)
    /\ aborted \in BOOLEAN
    /\ serial \in 0..MaxSerial
    /\ maxPacketCount \in Capacities
    /\ size \in Int
    /\ duration \in Int
    /\ pushCond \subseteq {t \in Producers : call[t].op = "push"}
    /\ popCond \subseteq {t \in Consumers : call[t].op = "pop"}
    /\ call \in [Threads -> Calls]
    /\ \A t \in Producers : call[t] = Idle \/ (call[t].op = "push" /\ call[t].pkt \in Packets)
    /\ \A t \in Consumers : call[t] = Idle \/ call[t].op = "pop"

\* No packet waits for a consumer that sleeps: while some consumer is asleep on
\* popCond_, the queue is not aborted and every queued packet has a consumer of
\* its own that was woken for it and is on its way to mutex_.  This is what
\* makes notify_one in push (packet_queue.cpp:52) enough.
NoLostPopWakeup ==
    popCond # {} => ~aborted /\ Len(queue) <= Cardinality(PopWokenThreads)

\* The same for producers and free places: notify_one in pop
\* (packet_queue.cpp:87) and notify_all in flush, start, abort and
\* setMaxPacketCount leave no producer asleep beside a place nobody was woken for.
NoLostPushWakeup ==
    pushCond # {} => ~aborted /\ maxPacketCount - Len(queue) <= Cardinality(PushWokenThreads)

\* No thread sleeps beside work that no notified thread will do, on either side.
NoLostWakeup == NoLostPopWakeup /\ NoLostPushWakeup

\* PacketQueue implements the bounded FIFO channel: packets leave in the order
\* in which they entered, none is invented, duplicated or dropped except by
\* flush, nothing enters an aborted or a full queue, and the serial advances
\* with each flush and start.
Channel == INSTANCE PacketChannel
           WITH items <- queue, closed <- aborted, epoch <- serial, capacity <- maxPacketCount
ImplementsChannel == Channel!Spec

\* "abort: 中止队列，唤醒所有等待的线程" (packet_queue.h): a thread blocked in push
\* or pop on an aborted queue returns, unless start() is called first.
AbortReleases ==
    \A t \in Threads : (aborted /\ call[t] # Idle) ~> (call[t] = Idle \/ ~aborted)

\* A producer blocked in push(pkt, -1), as the demuxer is in distributePacket,
\* gets through as long as the decode loop keeps calling pop.
BlockedPushReturns ==
    \A t \in Producers : call[t].op = "push" ~> call[t] = Idle

\* No call of the queue hangs: abort() gets every blocked thread out, and a
\* producer in push gets through while the decode loop pops.
CallsReturn == AbortReleases /\ BlockedPushReturns
=============================================================================
