--------------------------- MODULE DemuxingProofs ---------------------------
(***************************************************************************)
(* Proofs about the way of a packet from the input to a decoder, for any   *)
(* producers, consumers, packets and capacities, and any file length, seek *)
(* positions and loop modes.                                               *)
(*                                                                         *)
(* PacketQueue: its members are well typed, no wake-up is lost, and it     *)
(* implements the bounded FIFO channel.  NoLostWakeup is inductive with    *)
(* the types: notify_one is enough because each packet added, or place     *)
(* freed, wakes a thread of its own if one sleeps.                         *)
(*                                                                         *)
(* Demuxer: what a file's queues hold after a seek, and what the demux     *)
(* thread reads while it is paused.  FileOrder is not inductive: that the  *)
(* next packet may be appended needs a bound on what is queued already.    *)
(* High is that bound: the packet in the thread's hands, or else the       *)
(* position of the input.  A seek moves the input back, so the bound is    *)
(* lost until both queues are flushed; in between, what is known is that   *)
(* the flushed ones are empty.                                             *)
(***************************************************************************)
EXTENDS MCDemuxing, TLAPS, FiniteSetTheorems

(* The packet queue. *)

\* A call record is well formed, and the records the actions build are calls.
LEMMA CallRecords ==
    /\ Idle \in Calls /\ Idle.op = "none"
    /\ \A p \in Packets, b \in BOOLEAN :
          /\ [op |-> "push", pkt |-> p, timed |-> b] \in Calls
          /\ [op |-> "pop", pkt |-> NoPacket, timed |-> b] \in Calls
BY Zenon DEF Idle, Calls

\* notify_one only ever removes sleepers, and it removes one if there is one.
LEMMA NotifyOne ==
    ASSUME NEW cond, NEW rest \in notify_one(cond)
    PROVE  /\ rest \subseteq cond
           /\ cond # {} => \E t \in cond : rest = cond \ {t}
BY Zenon DEF notify_one

\* The constructed queue is empty and has its types.
LEMMA TypeInit == Init => TypeOK
<1> SUFFICES ASSUME Init PROVE TypeOK
  OBVIOUS
<1>1. call \in [Threads -> Calls] /\ \A t \in Threads : call[t] = Idle
  BY CallRecords, Zenon DEF Init
<1>2. queue \in Seq(Packets) /\ serial \in 0..MaxSerial
  BY PacketQueueAssumption DEF Init
<1>3. aborted \in BOOLEAN
  BY Zenon DEF Init
<1> QED
  BY <1>1, <1>2, <1>3 DEF Init, TypeOK, Threads

\* Every way a push ends keeps the types (packet_queue.cpp:41-53).
LEMMA EnqueueType ==
    ASSUME TypeOK, NEW t \in Producers, NEW p \in Packets, Enqueue(t, p)
    PROVE  TypeOK'
<1>1. call' \in [Threads -> Calls] /\ call' = [call EXCEPT ![t] = Idle]
  BY CallRecords, Zenon DEF TypeOK, Threads, Enqueue
<1>2. \A u \in Threads : u # t => call'[u] = call[u]
  BY <1>1, Zenon DEF TypeOK
<1>3. call'[t] = Idle
  BY <1>1, Zenon DEF TypeOK, Threads
<1>4. popCond' \subseteq popCond
  BY NotifyOne, Zenon DEF Enqueue
<1>5. /\ queue' \in Seq(Packets) /\ size' \in Int /\ duration' \in Int
      /\ UNCHANGED <<aborted, serial, maxPacketCount>> /\ pushCond' = pushCond \ {t}
  <2>1. UNCHANGED <<aborted, serial, maxPacketCount>> /\ pushCond' = pushCond \ {t}
    BY Zenon DEF Enqueue, members
  <2>2. queue' \in Seq(Packets)
    BY DEF TypeOK, Enqueue, members
  <2>3. SizeOf[p] \in Nat /\ DurationOf[p] \in Nat
    BY PacketQueueAssumption, Zenon
  <2>4. size' \in Int /\ duration' \in Int
    BY <2>3, SMTT(60) DEF TypeOK, Enqueue, members, updateStatisticsOnPush
  <2> QED
    BY <2>1, <2>2, <2>4, Zenon
<1>6. t \notin Consumers
  BY PacketQueueAssumption, Zenon
<1>7. pushCond' \subseteq {u \in Producers : call'[u].op = "push"}
  BY <1>2, <1>5, Zenon DEF TypeOK, Threads
<1>8. popCond' \subseteq {u \in Consumers : call'[u].op = "pop"}
  BY <1>2, <1>4, <1>6, Zenon DEF TypeOK, Threads
<1> QED
  BY <1>1, <1>2, <1>3, <1>5, <1>6, <1>7, <1>8, Zenon DEF TypeOK, Threads

\* Every way a pop ends keeps the types (packet_queue.cpp:75-88).
LEMMA DequeueType ==
    ASSUME TypeOK, NEW t \in Consumers, Dequeue(t)
    PROVE  TypeOK'
<1>1. call' \in [Threads -> Calls] /\ call' = [call EXCEPT ![t] = Idle]
  BY CallRecords, Zenon DEF TypeOK, Threads, Dequeue
<1>2. \A u \in Threads : u # t => call'[u] = call[u]
  BY <1>1, Zenon DEF TypeOK
<1>3. call'[t] = Idle
  BY <1>1, Zenon DEF TypeOK, Threads
<1>4. pushCond' \subseteq pushCond
  BY NotifyOne, Zenon DEF Dequeue
<1>5. /\ queue' \in Seq(Packets) /\ size' \in Int /\ duration' \in Int
      /\ UNCHANGED <<aborted, serial, maxPacketCount>> /\ popCond' = popCond \ {t}
  <2>1. UNCHANGED <<aborted, serial, maxPacketCount>> /\ popCond' = popCond \ {t}
    BY Zenon DEF Dequeue, members
  <2>2. CASE queue = <<>>
    BY <2>1, <2>2, Zenon DEF TypeOK, Dequeue, members
  <2>3. CASE queue # <<>>
    <3>1. Head(queue) \in Packets /\ Tail(queue) \in Seq(Packets)
      BY <2>3 DEF TypeOK
    <3>2. SizeOf[Head(queue)] \in Nat /\ DurationOf[Head(queue)] \in Nat
      BY <3>1, PacketQueueAssumption, Zenon
    <3>3. queue' = Tail(queue) /\ updateStatisticsOnPop(Head(queue))
      BY <2>3, Zenon DEF Dequeue
    <3>4. size' \in Int /\ duration' \in Int
      BY <3>2, <3>3, SMTT(60) DEF TypeOK, updateStatisticsOnPop
    <3> QED
      BY <2>1, <3>1, <3>3, <3>4, Zenon
  <2> QED
    BY <2>2, <2>3, Zenon
<1>6. t \notin Producers
  BY PacketQueueAssumption, Zenon
<1>7. pushCond' \subseteq {u \in Producers : call'[u].op = "push"}
  BY <1>2, <1>4, <1>6, Zenon DEF TypeOK, Threads
<1>8. popCond' \subseteq {u \in Consumers : call'[u].op = "pop"}
  BY <1>2, <1>5, Zenon DEF TypeOK, Threads
<1> QED
  BY <1>1, <1>2, <1>3, <1>5, <1>6, <1>7, <1>8, Zenon DEF TypeOK, Threads

\* Every action keeps the types.
LEMMA TypeNext == TypeOK /\ [Next]_vars => TypeOK'
<1> SUFFICES ASSUME TypeOK, [Next]_vars PROVE TypeOK'
  OBVIOUS
<1>1. ASSUME NEW t \in Producers, NEW p \in Packets, Push(t, p) PROVE TypeOK'
  BY <1>1, EnqueueType, Zenon DEF Push
<1>2. ASSUME NEW t \in Producers, NEW p \in Packets, NEW b \in BOOLEAN, PushWait(t, p, b)
      PROVE  TypeOK'
  <2> DEFINE c == [op |-> "push", pkt |-> p, timed |-> b]
  <2>1. c \in Calls /\ c.op = "push" /\ c.pkt = p
    BY CallRecords, ZenonT(60)
  <2>2. t \in Threads /\ t \notin Consumers
    BY PacketQueueAssumption, Zenon DEF Threads
  <2>3. call' = [call EXCEPT ![t] = c] /\ UNCHANGED <<members, popCond>> /\ pushCond' = pushCond \cup {t}
    BY <1>2, Zenon DEF PushWait
  <2> HIDE DEF c
  <2> QED
    BY <2>1, <2>2, <2>3, Zenon DEF TypeOK, members, Threads
<1>3. ASSUME NEW t \in Producers, PushWoken(t) PROVE TypeOK'
  <2>1. call[t].pkt \in Packets
    BY <1>3, CallRecords, Zenon DEF PushWoken, TypeOK
  <2>2. CASE canPush /\ Enqueue(t, call[t].pkt)
    BY <2>1, <2>2, EnqueueType, Zenon
  <2>3. CASE pushCond' = pushCond \cup {t} /\ UNCHANGED <<members, popCond, call>>
    BY <1>3, <2>3, Zenon DEF PushWoken, TypeOK, members
  <2> QED
    BY <1>3, <2>2, <2>3, Zenon DEF PushWoken
<1>4. ASSUME NEW t \in Producers, PushTimeout(t) PROVE TypeOK'
  <2>1. call[t].pkt \in Packets /\ t \notin Consumers
    BY <1>4, CallRecords, PacketQueueAssumption, Zenon DEF PushTimeout, TypeOK
  <2>2. CASE canPush /\ Enqueue(t, call[t].pkt)
    BY <2>1, <2>2, EnqueueType, Zenon
  <2>3. CASE /\ call' = [call EXCEPT ![t] = Idle] /\ pushCond' = pushCond \ {t}
             /\ UNCHANGED <<members, popCond>>
    BY <2>1, <2>3, CallRecords, Zenon DEF TypeOK, members, Threads
  <2> QED
    BY <1>4, <2>2, <2>3, Zenon DEF PushTimeout
<1>5. ASSUME NEW t \in Consumers, Pop(t) PROVE TypeOK'
  BY <1>5, DequeueType, Zenon DEF Pop
<1>6. ASSUME NEW t \in Consumers, NEW b \in BOOLEAN, PopWait(t, b) PROVE TypeOK'
  <2> DEFINE c == [op |-> "pop", pkt |-> NoPacket, timed |-> b]
  <2>1. c \in Calls /\ c.op = "pop"
    BY Zenon DEF Calls
  <2>2. t \in Threads /\ t \notin Producers
    BY PacketQueueAssumption, Zenon DEF Threads
  <2>3. call' = [call EXCEPT ![t] = c] /\ UNCHANGED <<members, pushCond>> /\ popCond' = popCond \cup {t}
    BY <1>6, Zenon DEF PopWait
  <2> HIDE DEF c
  <2> QED
    BY <2>1, <2>2, <2>3, Zenon DEF TypeOK, members, Threads
<1>7. ASSUME NEW t \in Consumers, PopWoken(t) PROVE TypeOK'
  BY <1>7, DequeueType, Zenon DEF PopWoken, TypeOK, members
<1>8. ASSUME NEW t \in Consumers, PopTimeout(t) PROVE TypeOK'
  <2>1. t \notin Producers
    BY PacketQueueAssumption, Zenon
  <2>2. CASE canPop /\ Dequeue(t)
    BY <2>2, DequeueType, Zenon
  <2>3. CASE /\ call' = [call EXCEPT ![t] = Idle] /\ popCond' = popCond \ {t}
             /\ UNCHANGED <<members, pushCond>>
    BY <2>1, <2>3, CallRecords, Zenon DEF TypeOK, members, Threads
  <2> QED
    BY <1>8, <2>2, <2>3, Zenon DEF PopTimeout
<1>9. ASSUME NEW t \in Threads, SpuriousWakeup(t) PROVE TypeOK'
  BY <1>9, Zenon DEF SpuriousWakeup, TypeOK, members
<1>10. CASE flush
  BY <1>10, PacketQueueAssumption DEF flush, TypeOK
<1>11. CASE start
  <2>1. aborted' \in BOOLEAN
    BY <1>11, Zenon DEF start
  <2> QED
    BY <1>11, <2>1, PacketQueueAssumption DEF start, TypeOK
<1>12. CASE abort
  <2>1. aborted' \in BOOLEAN
    BY <1>12, Zenon DEF abort
  <2> QED
    BY <1>12, <2>1, Zenon DEF abort, TypeOK
<1>13. ASSUME NEW n \in Capacities, setMaxPacketCount(n) PROVE TypeOK'
  BY <1>13, Zenon DEF setMaxPacketCount, TypeOK
<1>14. CASE UNCHANGED vars
  BY <1>14, Zenon DEF vars, TypeOK
<1> QED
  BY <1>1, <1>2, <1>3, <1>4, <1>5, <1>6, <1>7, <1>8, <1>9, <1>10, <1>11, <1>12, <1>13, <1>14, Zenon
  DEF Next

\* The members of PacketQueue keep their types, and only a producer (consumer)
\* with an open push (pop) sleeps on pushCond_ (popCond_).
THEOREM TypeCorrect == Spec => []TypeOK
BY TypeInit, TypeNext, PTL DEF Spec
-----------------------------------------------------------------------------
(* No lost wake-ups.  Both invariants are inductive beside TypeOK: the      *)
(* counting of woken threads is what survives a woken consumer finding its  *)
(* packet taken by a thread that called pop in between.                     *)

\* The woken threads are finitely many; growing or shrinking the set by one
\* changes their number by one.
LEMMA WokenFinite ==
    /\ IsFiniteSet(PopWokenThreads) /\ Cardinality(PopWokenThreads) \in Nat
    /\ IsFiniteSet(PushWokenThreads) /\ Cardinality(PushWokenThreads) \in Nat
<1>1. IsFiniteSet(PopWokenThreads) /\ IsFiniteSet(PushWokenThreads)
  BY PacketQueueAssumption, FS_Subset, Zenon DEF PopWokenThreads, PushWokenThreads
<1> QED
  BY <1>1, FS_CardinalityType, Zenon

\* A larger finite set has no fewer elements.
LEMMA CardinalityGrow ==
    ASSUME NEW S, NEW T, IsFiniteSet(T), S \subseteq T
    PROVE  Cardinality(S) \in Nat /\ Cardinality(T) \in Nat /\ Cardinality(S) <= Cardinality(T)
BY FS_Subset, FS_CardinalityType, Zenon

\* One more notified thread counts as one.
LEMMA CardinalityAdd ==
    ASSUME NEW S, IsFiniteSet(S), NEW x, x \notin S
    PROVE  Cardinality(S \cup {x}) = Cardinality(S) + 1 /\ Cardinality(S) \in Nat
BY FS_AddElement, FS_CardinalityType, Zenon

\* One notified thread fewer counts as one.
LEMMA CardinalityDrop ==
    ASSUME NEW S, IsFiniteSet(S), NEW x
    PROVE  Cardinality(S \ {x}) >= Cardinality(S) - 1 /\ Cardinality(S) \in Nat
           /\ Cardinality(S \ {x}) \in Nat
<1>1. /\ IsFiniteSet(S \ {x})
      /\ Cardinality(S \ {x}) = IF x \in S THEN Cardinality(S) - 1 ELSE Cardinality(S)
  BY FS_RemoveElement, Zenon
<1>2. Cardinality(S) \in Nat /\ Cardinality(S \ {x}) \in Nat
  BY <1>1, FS_CardinalityType, Zenon
<1> QED
  BY <1>1, <1>2

\* A push that adds a packet pays for it with one woken consumer.
LEMMA EnqueuePopWakeup ==
    ASSUME TypeOK, NoLostPopWakeup, NEW t \in Producers, NEW p \in Packets, Enqueue(t, p)
    PROVE  NoLostPopWakeup'
<1> SUFFICES ASSUME popCond' # {}
             PROVE  ~aborted' /\ Len(queue') <= Cardinality(PopWokenThreads')
  BY Zenon DEF NoLostPopWakeup
<1>1. \A u \in Consumers : call'[u] = call[u]
  BY PacketQueueAssumption, Zenon DEF Enqueue, TypeOK, Threads
<1>2. popCond' \subseteq popCond
  BY NotifyOne, Zenon DEF Enqueue
<1>3. ~aborted /\ Len(queue) <= Cardinality(PopWokenThreads)
  BY <1>2, Zenon DEF NoLostPopWakeup
<1>4. /\ queue' = Append(queue, p) /\ aborted' = aborted
      /\ popCond' \in notify_one(popCond)
  BY <1>3, Zenon DEF Enqueue
<1>5. PICK u \in popCond : popCond' = popCond \ {u}
  BY <1>2, <1>4, NotifyOne, Zenon
<1>6. PopWokenThreads' = PopWokenThreads \cup {u} /\ u \notin PopWokenThreads
  BY <1>1, <1>5 DEF PopWokenThreads, TypeOK
<1>7. Cardinality(PopWokenThreads') = Cardinality(PopWokenThreads) + 1
  BY <1>6, WokenFinite, CardinalityAdd, Zenon
<1>8. Len(queue') = Len(queue) + 1 /\ Len(queue) \in Nat
  BY <1>4 DEF TypeOK
<1> QED
  BY <1>3, <1>4, <1>7, <1>8, WokenFinite

\* A pop that takes a packet uses up at most one woken consumer.
LEMMA DequeuePopWakeup ==
    ASSUME TypeOK, NoLostPopWakeup, NEW t \in Consumers, Dequeue(t)
    PROVE  NoLostPopWakeup'
<1> SUFFICES ASSUME popCond' # {}
             PROVE  ~aborted' /\ Len(queue') <= Cardinality(PopWokenThreads')
  BY Zenon DEF NoLostPopWakeup
<1>1. \A u \in Consumers : u # t => call'[u] = call[u]
  BY Zenon DEF Dequeue, TypeOK, Threads
<1>2. popCond' = popCond \ {t}
  BY Zenon DEF Dequeue
<1>3. ~aborted /\ Len(queue) <= Cardinality(PopWokenThreads)
  BY <1>2, Zenon DEF NoLostPopWakeup
<1>4. queue # <<>> /\ queue' = Tail(queue) /\ aborted' = aborted
  BY <1>3, Zenon DEF Dequeue
<1>5. PopWokenThreads \ {t} \subseteq PopWokenThreads'
  BY <1>1, <1>2, Zenon DEF PopWokenThreads
<1>6. IsFiniteSet(PopWokenThreads')
  BY PacketQueueAssumption, FS_Subset, Zenon DEF PopWokenThreads
<1>7. Cardinality(PopWokenThreads') >= Cardinality(PopWokenThreads) - 1
      /\ Cardinality(PopWokenThreads') \in Nat
  <2>1. Cardinality(PopWokenThreads \ {t}) >= Cardinality(PopWokenThreads) - 1
        /\ Cardinality(PopWokenThreads \ {t}) \in Nat
    BY WokenFinite, CardinalityDrop, Zenon
  <2>2. Cardinality(PopWokenThreads \ {t}) <= Cardinality(PopWokenThreads')
        /\ Cardinality(PopWokenThreads') \in Nat
    BY <1>5, <1>6, CardinalityGrow, Zenon
  <2> QED
    BY <2>1, <2>2, WokenFinite
<1>8. Len(queue') = Len(queue) - 1 /\ Len(queue) \in Nat
  BY <1>4 DEF TypeOK
<1> QED
  BY <1>3, <1>4, <1>7, <1>8, WokenFinite

\* A pop that frees a place pays for it with one woken producer.
LEMMA DequeuePushWakeup ==
    ASSUME TypeOK, NoLostPushWakeup, NEW t \in Consumers, Dequeue(t)
    PROVE  NoLostPushWakeup'
<1> SUFFICES ASSUME pushCond' # {}
             PROVE  /\ ~aborted'
                    /\ maxPacketCount' - Len(queue') <= Cardinality(PushWokenThreads')
  BY Zenon DEF NoLostPushWakeup
<1>1. \A u \in Producers : call'[u] = call[u]
  BY PacketQueueAssumption, Zenon DEF Dequeue, TypeOK, Threads
<1>2. pushCond' \subseteq pushCond
  BY NotifyOne, Zenon DEF Dequeue
<1>3. ~aborted /\ maxPacketCount - Len(queue) <= Cardinality(PushWokenThreads)
  BY <1>2, Zenon DEF NoLostPushWakeup
<1>4. /\ queue # <<>> /\ queue' = Tail(queue) /\ aborted' = aborted
      /\ maxPacketCount' = maxPacketCount /\ pushCond' \in notify_one(pushCond)
  BY <1>3, Zenon DEF Dequeue
<1>5. PICK u \in pushCond : pushCond' = pushCond \ {u}
  BY <1>2, <1>4, NotifyOne, Zenon
<1>6. PushWokenThreads' = PushWokenThreads \cup {u} /\ u \notin PushWokenThreads
  BY <1>1, <1>5 DEF PushWokenThreads, TypeOK
<1>7. Cardinality(PushWokenThreads') = Cardinality(PushWokenThreads) + 1
  BY <1>6, WokenFinite, CardinalityAdd, Zenon
<1>8. Len(queue') = Len(queue) - 1 /\ Len(queue) \in Nat /\ maxPacketCount \in Nat
  BY <1>4, PacketQueueAssumption DEF TypeOK
<1> QED
  BY <1>3, <1>4, <1>7, <1>8, WokenFinite

\* A push that fills a place uses up at most one woken producer.
LEMMA EnqueuePushWakeup ==
    ASSUME TypeOK, NoLostPushWakeup, NEW t \in Producers, NEW p \in Packets, Enqueue(t, p)
    PROVE  NoLostPushWakeup'
<1> SUFFICES ASSUME pushCond' # {}
             PROVE  /\ ~aborted'
                    /\ maxPacketCount' - Len(queue') <= Cardinality(PushWokenThreads')
  BY Zenon DEF NoLostPushWakeup
<1>1. \A u \in Producers : u # t => call'[u] = call[u]
  BY Zenon DEF Enqueue, TypeOK, Threads
<1>2. pushCond' = pushCond \ {t}
  BY Zenon DEF Enqueue
<1>3. ~aborted /\ maxPacketCount - Len(queue) <= Cardinality(PushWokenThreads)
  BY <1>2, Zenon DEF NoLostPushWakeup
<1>4. queue' = Append(queue, p) /\ aborted' = aborted /\ maxPacketCount' = maxPacketCount
  BY <1>3, Zenon DEF Enqueue
<1>5. PushWokenThreads \ {t} \subseteq PushWokenThreads'
  BY <1>1, <1>2, Zenon DEF PushWokenThreads
<1>6. IsFiniteSet(PushWokenThreads')
  BY PacketQueueAssumption, FS_Subset, Zenon DEF PushWokenThreads
<1>7. Cardinality(PushWokenThreads') >= Cardinality(PushWokenThreads) - 1
      /\ Cardinality(PushWokenThreads') \in Nat
  <2>1. Cardinality(PushWokenThreads \ {t}) >= Cardinality(PushWokenThreads) - 1
        /\ Cardinality(PushWokenThreads \ {t}) \in Nat
    BY WokenFinite, CardinalityDrop, Zenon
  <2>2. Cardinality(PushWokenThreads \ {t}) <= Cardinality(PushWokenThreads')
        /\ Cardinality(PushWokenThreads') \in Nat
    BY <1>5, <1>6, CardinalityGrow, Zenon
  <2> QED
    BY <2>1, <2>2, WokenFinite
<1>8. Len(queue') = Len(queue) + 1 /\ Len(queue) \in Nat /\ maxPacketCount \in Nat
  BY <1>4, PacketQueueAssumption DEF TypeOK
<1> QED
  BY <1>3, <1>4, <1>7, <1>8, WokenFinite

\* A step that leaves queue_, aborted_ and the bound alone and only adds to the
\* woken threads of a condition variable keeps its invariant.
LEMMA MoreWoken ==
    ASSUME TypeOK, UNCHANGED <<queue, aborted, maxPacketCount>>
    PROVE  /\ NoLostPopWakeup /\ popCond' \subseteq popCond
                /\ PopWokenThreads \subseteq PopWokenThreads' => NoLostPopWakeup'
           /\ NoLostPushWakeup /\ pushCond' \subseteq pushCond
                /\ PushWokenThreads \subseteq PushWokenThreads' => NoLostPushWakeup'
<1>1. /\ IsFiniteSet(PopWokenThreads') /\ IsFiniteSet(PushWokenThreads')
  BY PacketQueueAssumption, FS_Subset, Zenon DEF PopWokenThreads, PushWokenThreads
<1>2. Len(queue) \in Nat /\ maxPacketCount \in Nat
  BY PacketQueueAssumption DEF TypeOK
<1>3. ASSUME NoLostPopWakeup, popCond' \subseteq popCond, PopWokenThreads \subseteq PopWokenThreads'
      PROVE  NoLostPopWakeup'
  <2>1. /\ Cardinality(PopWokenThreads) <= Cardinality(PopWokenThreads')
        /\ Cardinality(PopWokenThreads) \in Nat /\ Cardinality(PopWokenThreads') \in Nat
    BY <1>1, <1>3, CardinalityGrow, Zenon
  <2>2. popCond' # {} => ~aborted' /\ Len(queue) <= Cardinality(PopWokenThreads)
    BY <1>3, Zenon DEF NoLostPopWakeup
  <2> QED
    BY <1>2, <2>1, <2>2 DEF NoLostPopWakeup
<1>4. ASSUME NoLostPushWakeup, pushCond' \subseteq pushCond, PushWokenThreads \subseteq PushWokenThreads'
      PROVE  NoLostPushWakeup'
  <2>1. /\ Cardinality(PushWokenThreads) <= Cardinality(PushWokenThreads')
        /\ Cardinality(PushWokenThreads) \in Nat /\ Cardinality(PushWokenThreads') \in Nat
    BY <1>1, <1>4, CardinalityGrow, Zenon
  <2>2. pushCond' # {} => ~aborted' /\ maxPacketCount - Len(queue) <= Cardinality(PushWokenThreads)
    BY <1>4, Zenon DEF NoLostPushWakeup
  <2> QED
    BY <1>2, <2>1, <2>2, SMTT(60) DEF NoLostPushWakeup
<1> QED
  BY <1>3, <1>4, Zenon

\* A thread that goes (back) to sleep has just seen its predicate false.
LEMMA SleepKeepsWakeups ==
    ASSUME TypeOK, UNCHANGED <<queue, aborted, maxPacketCount>>
    PROVE  /\ ~canPop => NoLostPopWakeup'
           /\ ~canPush => NoLostPushWakeup'
<1>1. IsFiniteSet(PopWokenThreads') /\ IsFiniteSet(PushWokenThreads')
  BY PacketQueueAssumption, FS_Subset, Zenon DEF PopWokenThreads, PushWokenThreads
<1>2. Cardinality(PopWokenThreads') \in Nat /\ Cardinality(PushWokenThreads') \in Nat
  BY <1>1, FS_CardinalityType, Zenon
<1>3. Len(queue) \in Nat /\ maxPacketCount \in Nat
  BY PacketQueueAssumption DEF TypeOK
<1>4. ~canPop => ~aborted' /\ Len(queue') = 0
  BY Zenon DEF canPop, TypeOK
<1>5. ~canPush => ~aborted' /\ maxPacketCount' - Len(queue') <= 0
  BY <1>3, SMTT(60) DEF canPush
<1> QED
  BY <1>2, <1>3, <1>4, <1>5, SMTT(60) DEF NoLostPopWakeup, NoLostPushWakeup

\* Every action keeps both wake-up invariants.
LEMMA WakeNext == TypeOK /\ NoLostWakeup /\ [Next]_vars => NoLostWakeup'
<1> SUFFICES ASSUME TypeOK, NoLostPopWakeup, NoLostPushWakeup, [Next]_vars
             PROVE  NoLostPopWakeup' /\ NoLostPushWakeup'
  BY Zenon DEF NoLostWakeup
<1> USE DEF TypeOK, Threads
<1>1. ASSUME NEW t \in Producers, NEW p \in Packets, Push(t, p)
      PROVE  NoLostPopWakeup' /\ NoLostPushWakeup'
  BY <1>1, EnqueuePopWakeup, EnqueuePushWakeup, Zenon DEF Push
<1>2. ASSUME NEW t \in Producers, NEW p \in Packets, NEW b \in BOOLEAN, PushWait(t, p, b)
      PROVE  NoLostPopWakeup' /\ NoLostPushWakeup'
  <2>1. UNCHANGED <<queue, aborted, maxPacketCount>> /\ popCond' = popCond
    BY <1>2, Zenon DEF PushWait, members
  <2>2. PopWokenThreads' = PopWokenThreads
    BY <1>2, PacketQueueAssumption, Zenon DEF PushWait, PopWokenThreads
  <2> QED
    BY <1>2, <2>1, <2>2, MoreWoken, SleepKeepsWakeups, Zenon DEF PushWait
<1>3. ASSUME NEW t \in Producers, PushWoken(t)
      PROVE  NoLostPopWakeup' /\ NoLostPushWakeup'
  <2>1. call[t].pkt \in Packets
    BY <1>3, CallRecords, Zenon DEF PushWoken
  <2>2. CASE Enqueue(t, call[t].pkt)
    BY <2>1, <2>2, EnqueuePopWakeup, EnqueuePushWakeup, Zenon
  <2>3. CASE ~canPush /\ UNCHANGED <<members, popCond, call>>
    <3>1. UNCHANGED <<queue, aborted, maxPacketCount>> /\ popCond' = popCond
      BY <2>3, Zenon DEF members
    <3>2. PopWokenThreads' = PopWokenThreads
      BY <2>3, Zenon DEF PopWokenThreads
    <3> QED
      BY <2>3, <3>1, <3>2, MoreWoken, SleepKeepsWakeups, Zenon
  <2> QED
    BY <1>3, <2>2, <2>3, Zenon DEF PushWoken
<1>4. ASSUME NEW t \in Producers, PushTimeout(t)
      PROVE  NoLostPopWakeup' /\ NoLostPushWakeup'
  <2>1. call[t].pkt \in Packets
    BY <1>4, CallRecords, Zenon DEF PushTimeout
  <2>2. CASE Enqueue(t, call[t].pkt)
    BY <2>1, <2>2, EnqueuePopWakeup, EnqueuePushWakeup, Zenon
  <2>3. CASE ~canPush /\ call' = [call EXCEPT ![t] = Idle] /\ UNCHANGED <<members, popCond>>
    <3>1. UNCHANGED <<queue, aborted, maxPacketCount>> /\ popCond' = popCond
      BY <2>3, Zenon DEF members
    <3>2. PopWokenThreads' = PopWokenThreads
      BY <2>3, PacketQueueAssumption, Zenon DEF PopWokenThreads
    <3> QED
      BY <2>3, <3>1, <3>2, MoreWoken, SleepKeepsWakeups, Zenon
  <2> QED
    BY <1>4, <2>2, <2>3, Zenon DEF PushTimeout
<1>5. ASSUME NEW t \in Consumers, Pop(t)
      PROVE  NoLostPopWakeup' /\ NoLostPushWakeup'
  BY <1>5, DequeuePopWakeup, DequeuePushWakeup, Zenon DEF Pop
<1>6. ASSUME NEW t \in Consumers, NEW b \in BOOLEAN, PopWait(t, b)
      PROVE  NoLostPopWakeup' /\ NoLostPushWakeup'
  <2>1. UNCHANGED <<queue, aborted, maxPacketCount>> /\ pushCond' = pushCond
    BY <1>6, Zenon DEF PopWait, members
  <2>2. PushWokenThreads' = PushWokenThreads
    BY <1>6, PacketQueueAssumption, Zenon DEF PopWait, PushWokenThreads
  <2> QED
    BY <1>6, <2>1, <2>2, MoreWoken, SleepKeepsWakeups, Zenon DEF PopWait
<1>7. ASSUME NEW t \in Consumers, PopWoken(t)
      PROVE  NoLostPopWakeup' /\ NoLostPushWakeup'
  <2>1. CASE Dequeue(t)
    BY <2>1, DequeuePopWakeup, DequeuePushWakeup, Zenon
  <2>2. CASE ~canPop /\ UNCHANGED <<members, pushCond, call>>
    <3>1. UNCHANGED <<queue, aborted, maxPacketCount>> /\ pushCond' = pushCond
      BY <2>2, Zenon DEF members
    <3>2. PushWokenThreads' = PushWokenThreads
      BY <2>2, Zenon DEF PushWokenThreads
    <3> QED
      BY <2>2, <3>1, <3>2, MoreWoken, SleepKeepsWakeups, Zenon
  <2> QED
    BY <1>7, <2>1, <2>2, Zenon DEF PopWoken
<1>8. ASSUME NEW t \in Consumers, PopTimeout(t)
      PROVE  NoLostPopWakeup' /\ NoLostPushWakeup'
  <2>1. CASE Dequeue(t)
    BY <2>1, DequeuePopWakeup, DequeuePushWakeup, Zenon
  <2>2. CASE ~canPop /\ call' = [call EXCEPT ![t] = Idle] /\ UNCHANGED <<members, pushCond>>
    <3>1. UNCHANGED <<queue, aborted, maxPacketCount>> /\ pushCond' = pushCond
      BY <2>2, Zenon DEF members
    <3>2. PushWokenThreads' = PushWokenThreads
      BY <2>2, PacketQueueAssumption, Zenon DEF PushWokenThreads
    <3> QED
      BY <2>2, <3>1, <3>2, MoreWoken, SleepKeepsWakeups, Zenon
  <2> QED
    BY <1>8, <2>1, <2>2, Zenon DEF PopTimeout
<1>9. ASSUME NEW t \in Threads, SpuriousWakeup(t)
      PROVE  NoLostPopWakeup' /\ NoLostPushWakeup'
  <2>1. UNCHANGED <<queue, aborted, maxPacketCount>>
    BY <1>9, Zenon DEF SpuriousWakeup, members
  <2>2. popCond' \subseteq popCond /\ pushCond' \subseteq pushCond
    BY <1>9, Zenon DEF SpuriousWakeup
  <2>3. PopWokenThreads \subseteq PopWokenThreads' /\ PushWokenThreads \subseteq PushWokenThreads'
    BY <1>9, Zenon DEF SpuriousWakeup, PopWokenThreads, PushWokenThreads
  <2> QED
    BY <2>1, <2>2, <2>3, MoreWoken, Zenon
<1>10. CASE flush \/ start \/ abort
  BY <1>10, Zenon DEF flush, start, abort, NoLostPopWakeup, NoLostPushWakeup
<1>11. ASSUME NEW n \in Capacities, setMaxPacketCount(n)
       PROVE  NoLostPopWakeup' /\ NoLostPushWakeup'
  BY <1>11, Zenon DEF setMaxPacketCount, NoLostPopWakeup, NoLostPushWakeup, PopWokenThreads
<1>12. CASE UNCHANGED vars
  BY <1>12, Zenon DEF vars, NoLostPopWakeup, NoLostPushWakeup, PopWokenThreads, PushWokenThreads
<1> QED
  BY <1>1, <1>2, <1>3, <1>4, <1>5, <1>6, <1>7, <1>8, <1>9, <1>10, <1>11, <1>12, Zenon DEF Next

\* notify_one in push and pop suffices: for any number of producers, consumers
\* and packets, a packet (free place) never waits for a thread that sleeps.
THEOREM NoLostWakeups == Spec => []NoLostWakeup
<1>1. Init => NoLostWakeup
  BY Zenon DEF Init, NoLostWakeup, NoLostPopWakeup, NoLostPushWakeup
<1> QED
  BY <1>1, WakeNext, TypeCorrect, PTL DEF Spec
-----------------------------------------------------------------------------
(* Refinement of PacketChannel: sleeping, waking and timing out are         *)
(* stuttering steps of the channel.                                         *)

\* A push that returns true is one Send; the bound was re-checked under mutex_.
LEMMA EnqueueRefines ==
    ASSUME TypeOK, canPush, NEW t \in Producers, NEW p \in Packets, Enqueue(t, p)
    PROVE  [Channel!Next]_(Channel!vars)
<1>1. CASE aborted
  BY <1>1, Zenon DEF Enqueue, members, Channel!vars
<1>2. CASE ~aborted
  <2>1. Channel!Send
    BY <1>2, Zenon DEF Enqueue, canPush, Channel!Send
  <2> QED
    BY <2>1, Zenon DEF Channel!Next
<1> QED
  BY <1>1, <1>2, Zenon

\* A pop that returns true is one Receive.
LEMMA DequeueRefines ==
    ASSUME NEW t \in Consumers, Dequeue(t)
    PROVE  [Channel!Next]_(Channel!vars)
<1>1. CASE queue = <<>>
  BY <1>1, Zenon DEF Dequeue, members, Channel!vars
<1>2. CASE queue # <<>>
  BY <1>2, Zenon DEF Dequeue, Channel!Receive, Channel!Next
<1> QED
  BY <1>1, <1>2, Zenon

\* PacketQueue implements PacketChannel, for all values of the constants.
THEOREM Refinement == Spec => ImplementsChannel
<1>1. Init => Channel!Init
  BY Zenon DEF Init, Channel!Init
<1>2. TypeOK /\ [Next]_vars => [Channel!Next]_(Channel!vars)
  <2> SUFFICES ASSUME TypeOK, [Next]_vars PROVE [Channel!Next]_(Channel!vars)
    OBVIOUS
  <2>1. ASSUME NEW t \in Producers, NEW p \in Packets, Push(t, p)
        PROVE  [Channel!Next]_(Channel!vars)
    BY <2>1, EnqueueRefines, Zenon DEF Push
  <2>2. ASSUME NEW t \in Producers, NEW p \in Packets, NEW b \in BOOLEAN, PushWait(t, p, b)
        PROVE  [Channel!Next]_(Channel!vars)
    BY <2>2, Zenon DEF PushWait, members, Channel!vars
  <2>3. ASSUME NEW t \in Producers, PushWoken(t) \/ PushTimeout(t)
        PROVE  [Channel!Next]_(Channel!vars)
    <3>1. call[t].pkt \in Packets
      BY <2>3, CallRecords, Zenon DEF PushWoken, PushTimeout, TypeOK
    <3>2. (canPush /\ Enqueue(t, call[t].pkt)) \/ UNCHANGED members
      BY <2>3, Zenon DEF PushWoken, PushTimeout
    <3> QED
      BY <3>1, <3>2, EnqueueRefines, Zenon DEF members, Channel!vars
  <2>4. ASSUME NEW t \in Consumers, Pop(t) PROVE [Channel!Next]_(Channel!vars)
    BY <2>4, DequeueRefines, Zenon DEF Pop
  <2>5. ASSUME NEW t \in Consumers, NEW b \in BOOLEAN, PopWait(t, b)
        PROVE  [Channel!Next]_(Channel!vars)
    BY <2>5, Zenon DEF PopWait, members, Channel!vars
  <2>6. ASSUME NEW t \in Consumers, PopWoken(t) \/ PopTimeout(t)
        PROVE  [Channel!Next]_(Channel!vars)
    <3>1. Dequeue(t) \/ UNCHANGED members
      BY <2>6, Zenon DEF PopWoken, PopTimeout
    <3> QED
      BY <3>1, DequeueRefines, Zenon DEF members, Channel!vars
  <2>7. ASSUME NEW t \in Threads, SpuriousWakeup(t) PROVE [Channel!Next]_(Channel!vars)
    BY <2>7, Zenon DEF SpuriousWakeup, members, Channel!vars
  <2>8. CASE flush
    BY <2>8, Zenon DEF flush, Channel!Discard, Channel!Next
  <2>9. CASE start
    BY <2>9, Zenon DEF start, Channel!Open, Channel!Next
  <2>10. CASE abort
    BY <2>10, Zenon DEF abort, Channel!Close, Channel!Next
  <2>11. ASSUME NEW n \in Capacities, setMaxPacketCount(n) PROVE [Channel!Next]_(Channel!vars)
    BY <2>11, Zenon DEF setMaxPacketCount, Channel!Resize, Channel!Next
  <2>12. CASE UNCHANGED vars
    BY <2>12, Zenon DEF vars, Channel!vars
  <2> QED
    BY <2>1, <2>2, <2>3, <2>4, <2>5, <2>6, <2>7, <2>8, <2>9, <2>10, <2>11, <2>12, Zenon DEF Next
<1>3. QED
  BY <1>1, <1>2, TypeCorrect, PTL DEF Spec, ImplementsChannel, Channel!Spec
-----------------------------------------------------------------------------
(* The demux thread. *)

Packet == [medium : Demux!Media, pos : Int, current : BOOLEAN]
Queue == [items : Seq(Packet), aborted : BOOLEAN]

\* The parts of the state that the arguments below look into.
DemuxTypes ==
    /\ dKind \in {"file", "live"} /\ dPaused \in BOOLEAN /\ dOpened \in BOOLEAN
    /\ dReopen \in Kinds \cup {"no"} /\ (dCtl = "open" => dReopen # "no")
    /\ dQueue \in [Demux!Media -> Queue] /\ dPkt \in Packet
    /\ dPausedReads \in Nat /\ dFlushing \subseteq Demux!Media

\* The positions a request, the input and the last seek may have.
Positions ==
    /\ dSeekMs \in -1 .. FileEnd /\ dReadPos \in 0 .. FileEnd /\ dLanded \in 0 .. dReadPos
    /\ dPc \in {"clearSeek", "seek"} => dTarget \in 0 .. FileEnd
    /\ dPc = "loopSeek" => dSeekMs >= 0

\* Packets between two positions, in file order.
InOrder(s, low, high) ==
    /\ \A i \in 1 .. Len(s) : low <= s[i].pos /\ s[i].pos <= high
    /\ \A i, j \in 1 .. Len(s) : i <= j => s[i].pos <= s[j].pos

Holding == dPc \in {"distribute", "push"}

\* What no queued packet of a file lies behind.
High == IF Holding THEN dPkt.pos ELSE dReadPos

\* The inductive form of FileOrder.
Order ==
    dKind = "file" =>
        /\ Holding => dLanded <= dPkt.pos /\ dPkt.pos <= dReadPos
        /\ IF dPc = "flush"
           THEN \A m \in Demux!Media \ dFlushing : dQueue[m].items = <<>>
           ELSE \A m \in Demux!Media : InOrder(dQueue[m].items, dLanded, High)

\* The controller opens a stream only where no demux thread runs.
Life == (dCtl = "open" \/ ~dOpened) => dPc = "none"

\* The inductive form of PausedFileStops: a thread that may still read for a
\* paused file has not read since the pause.
Reads ==
    /\ dPaused => dPausedReads <= 1
    /\ dPaused /\ dKind = "file" /\ dPc = "read" => dPausedReads = 0
-----------------------------------------------------------------------------
\* An empty queue is in order.
LEMMA EmptyInOrder ==
    ASSUME NEW low \in Int, NEW high \in Int
    PROVE  InOrder(<<>>, low, high)
  BY DEF InOrder

\* The upper bound may be raised.
LEMMA WiderInOrder ==
    ASSUME NEW s \in Seq(Packet), NEW low \in Int, NEW high \in Int, NEW higher \in Int,
           InOrder(s, low, high), high <= higher
    PROVE  InOrder(s, low, higher)
  <1>1. ASSUME NEW i \in 1 .. Len(s)
        PROVE  low <= s[i].pos /\ s[i].pos <= higher
    <2>1. s[i].pos \in Int
      <3>1. s[i] \in Packet
        OBVIOUS
      <3>2. QED
        BY <3>1, Zenon DEF Packet
    <2>2. low <= s[i].pos /\ s[i].pos <= high
      BY Zenon DEF InOrder
    <2>3. QED
      BY <2>1, <2>2
  <1>2. QED
    BY <1>1, Zenon DEF InOrder

\* A decoder's pop keeps the order.
LEMMA TailInOrder ==
    ASSUME NEW s \in Seq(Packet), s # <<>>, NEW low \in Int, NEW high \in Int,
           InOrder(s, low, high)
    PROVE  InOrder(Tail(s), low, high)
  <1>1. Len(Tail(s)) = Len(s) - 1 /\ Len(s) \in Nat
    OBVIOUS
  <1>2. \A i \in 1 .. Len(Tail(s)) : Tail(s)[i] = s[i + 1] /\ i + 1 \in 1 .. Len(s)
    BY <1>1
  <1>3. \A i \in 1 .. Len(Tail(s)) : low <= Tail(s)[i].pos /\ Tail(s)[i].pos <= high
    BY <1>2, Zenon DEF InOrder
  <1>4. ASSUME NEW i \in 1 .. Len(Tail(s)), NEW j \in 1 .. Len(Tail(s)), i <= j
        PROVE  Tail(s)[i].pos <= Tail(s)[j].pos
    <2>1. i + 1 <= j + 1
      BY <1>1, <1>4
    <2>2. QED
      BY <1>2, <2>1, Zenon DEF InOrder
  <1>5. QED
    BY <1>3, <1>4, Zenon DEF InOrder

\* PacketQueue::push of a packet that lies behind no queued one keeps the order.
LEMMA PushedInOrder ==
    ASSUME NEW q \in Queue, NEW p \in Packet, NEW low \in Int, low <= p.pos,
           InOrder(q.items, low, p.pos)
    PROVE  InOrder(Demux!Pushed(q, p).items, low, p.pos)
  <1> DEFINE s == q.items
             t == Append(s, p)
  <1>1. s \in Seq(Packet) /\ Len(s) \in Nat /\ Len(t) = Len(s) + 1 /\ p.pos \in Int
    BY DEF Queue, Packet
  <1>2. \A i \in 1 .. Len(t) : t[i] = IF i = Len(s) + 1 THEN p ELSE s[i]
    BY <1>1
  <1>3. \A i \in 1 .. Len(s) : s[i].pos \in Int
    <2>1. \A i \in 1 .. Len(s) : s[i] \in Packet
      BY <1>1
    <2>2. QED
      BY <2>1, Zenon DEF Packet
  <1>4. ASSUME NEW i \in 1 .. Len(t)
        PROVE  low <= t[i].pos /\ t[i].pos <= p.pos
    <2>1. CASE i = Len(s) + 1
      BY <1>1, <1>2, <2>1
    <2>2. CASE i # Len(s) + 1
      <3>1. i \in 1 .. Len(s) /\ t[i] = s[i]
        BY <1>1, <1>2, <2>2
      <3>2. QED
        BY <3>1, Zenon DEF InOrder
    <2>3. QED
      BY <2>1, <2>2, Zenon
  <1>5. ASSUME NEW i \in 1 .. Len(t), NEW j \in 1 .. Len(t), i <= j
        PROVE  t[i].pos <= t[j].pos
    <2>1. CASE j = Len(s) + 1
      BY <1>1, <1>2, <1>4, <2>1, Zenon
    <2>2. CASE j # Len(s) + 1
      <3>1. i \in 1 .. Len(s) /\ j \in 1 .. Len(s) /\ t[i] = s[i] /\ t[j] = s[j]
        BY <1>1, <1>2, <1>5, <2>2, SMTT(60)
      <3>2. QED
        BY <3>1, <1>5, Zenon DEF InOrder
    <2>3. QED
      BY <2>1, <2>2, Zenon
  <1>6. InOrder(t, low, p.pos)
    BY <1>4, <1>5, Zenon DEF InOrder
  <1>7. Demux!Pushed(q, p).items = s \/ Demux!Pushed(q, p).items = t
    BY Zenon DEF Demux!Pushed, Queue
  <1>8. QED
    BY <1>6, <1>7, Zenon
-----------------------------------------------------------------------------
\* What pushing and flushing return is a queue again.
LEMMA QueueTypes ==
    ASSUME NEW q \in Queue, NEW p \in Packet
    PROVE  /\ Demux!Pushed(q, p) \in Queue
           /\ Demux!Flushed(q) \in Queue /\ Demux!Flushed(q).items = <<>>
           /\ Demux!EmptyQueue \in Queue /\ Demux!EmptyQueue.items = <<>>
  <1>1. Append(q.items, p) \in Seq(Packet) /\ <<>> \in Seq(Packet)
    BY DEF Queue
  <1>2. Demux!Pushed(q, p) \in Queue
    BY <1>1, Zenon DEF Demux!Pushed, Queue
  <1>3. Demux!Flushed(q) \in Queue /\ Demux!Flushed(q).items = <<>>
    BY <1>1, Zenon DEF Demux!Flushed, Queue
  <1>4. Demux!EmptyQueue \in Queue /\ Demux!EmptyQueue.items = <<>>
    BY <1>1, Zenon DEF Demux!EmptyQueue, Queue
  <1>5. QED
    BY <1>2, <1>3, <1>4, Zenon

\* The packets the thread starts with and ends a file with are packets.
LEMMA PacketTypes ==
    /\ Demux!EmptyPacket \in Packet
    /\ \A m \in Demux!Media : [medium |-> m, pos |-> FileEnd, current |-> TRUE] \in Packet
  BY DemuxerAssumption DEF Demux!EmptyPacket, Demux!None, Demux!Media, Packet

\* The types hold initially, and every step keeps them.
LEMMA DemuxTypesInit == Demux!Init => DemuxTypes
  <1>1. Demux!EmptyQueue \in Queue
    BY DEF Demux!EmptyQueue, Queue
  <1>2. SUFFICES ASSUME Demux!Init
                 PROVE  DemuxTypes
    OBVIOUS
  <1>3. dQueue \in [Demux!Media -> Queue] /\ dPkt \in Packet
    BY <1>1, <1>2, PacketTypes, Zenon DEF Demux!Init
  <1>4. QED
    BY <1>2, <1>3, ZenonT(60) DEF Demux!Init, DemuxTypes

\* Every step of the demuxer keeps the types.
LEMMA DemuxTypesStep == DemuxTypes /\ Positions /\ [Demux!Next]_dVars => DemuxTypes'
  <1> SUFFICES ASSUME DemuxTypes, Positions, [Demux!Next]_dVars
               PROVE  DemuxTypes'
    OBVIOUS
  <1> USE DEF DemuxTypes
  <1> Demux!EmptyQueue \in Queue
    BY SMTT(60) DEF Demux!EmptyQueue, Queue
  <1>1. CASE Demux!Top \/ Demux!ClearSeek \/ Demux!SeekFrame \/ Demux!SeekFrameFails \/ Demux!PauseTest \/ Demux!FallAsleep
            \/ Demux!ReadAgain \/ Demux!ReadError \/ Demux!NotEnded \/ Demux!StreamEnded \/ Demux!LoopStart \/ Demux!LoopSeek
            \/ Demux!Looped \/ Demux!SpuriousWakeup
    BY <1>1, ZenonT(60) DEF Demux!Top, Demux!ClearSeek, Demux!SeekFrame, Demux!SeekFrameFails,
       Demux!PauseTest, Demux!FallAsleep, Demux!ReadAgain,
       Demux!ReadError, Demux!NotEnded, Demux!StreamEnded, Demux!LoopStart, Demux!LoopSeek,
          Demux!Looped, Demux!SpuriousWakeup, Demux!calls, Demux!locals
  <1>2. CASE Demux!FlushQueues
    <2>1. PICK m \in Demux!Media : /\ dQueue' = [dQueue EXCEPT ![m] = Demux!Flushed(@)]
                                   /\ dFlushing' = dFlushing \ {m}
      BY <1>2, Zenon DEF Demux!FlushQueues, Demux!Media
    <2>2. dQueue' \in [Demux!Media -> Queue]
      BY <2>1, QueueTypes, Zenon
    <2>3. QED
      BY <1>2, <2>1, <2>2, Zenon DEF Demux!FlushQueues, Demux!calls
  <1>3. ASSUME NEW m \in Demux!Media, Demux!ReadPacket(m)
        PROVE  DemuxTypes'
    <2>1. dPkt' \in Packet
      BY <1>3 DEF Demux!ReadPacket, Packet, Positions
    <2>2. dPausedReads' \in Nat
      BY <1>3 DEF Demux!ReadPacket
    <2>3. QED
      BY <1>3, <2>1, <2>2, Zenon DEF Demux!ReadPacket, Demux!calls
  <1>4. CASE Demux!ReadEof \/ Demux!LiveEof
    <2>1. Demux!handleEndOfFile => dQueue' \in [Demux!Media -> Queue]
      BY QueueTypes, PacketTypes, ZenonT(60) DEF Demux!handleEndOfFile
    <2>2. QED
      BY <1>4, <2>1, Zenon DEF Demux!ReadEof, Demux!LiveEof, Demux!calls, Demux!locals
  <1>5. CASE Demux!Distribute
    <2>1. dPkt' \in Packet
      BY <1>5, Zenon DEF Demux!Distribute, Packet
    <2>2. QED
      BY <1>5, <2>1, Zenon DEF Demux!Distribute, Demux!calls
  <1>6. CASE Demux!PushPacket
    <2>1. dQueue' \in [Demux!Media -> Queue]
      BY <1>6, QueueTypes, Zenon DEF Demux!PushPacket
    <2>2. QED
      BY <1>6, <2>1, Zenon DEF Demux!PushPacket, Demux!calls, Demux!locals
  <1>7. CASE Demux!StopNotify \/ Demux!StopInterrupt \/ Demux!close \/ Demux!resume \/ Demux!resetLoopCount
            \/ (\E p \in Seeks : Demux!seek(p)) \/ (\E l \in LoopModes : Demux!setLoopMode(l))
    BY <1>7, Zenon DEF Demux!StopNotify, Demux!StopInterrupt, Demux!close, Demux!resume,
       Demux!resetLoopCount, Demux!seek, Demux!setLoopMode,
       Demux!calls, Demux!locals
  <1>8. CASE Demux!pause
    BY <1>8, Zenon DEF Demux!pause, Demux!calls, Demux!locals
  <1>9. CASE Demux!StopAbort
    <2>1. dQueue' \in [Demux!Media -> Queue]
      BY <1>9, Zenon DEF Demux!StopAbort, Queue
    <2>2. QED
      BY <1>9, <2>1, Zenon DEF Demux!StopAbort, Demux!locals
  <1>10. CASE Demux!StopJoin
    BY <1>10, Zenon DEF Demux!StopJoin, Demux!locals
  <1>11. ASSUME NEW k \in Kinds, Demux!OpenStream(k)
         PROVE  dKind' \in {"file", "live"} /\ dOpened' \in BOOLEAN /\
            dQueue' \in [Demux!Media -> Queue]
                /\ dPkt' \in Packet
    BY <1>11, PacketTypes, DemuxerAssumption, Zenon DEF Demux!OpenStream
  <1>12. CASE Demux!Reopen
    <2>1. dReopen \in Kinds
      BY <1>12, Zenon DEF Demux!Reopen
    <2>2. QED
      BY <1>12, <2>1, <1>11, Zenon DEF Demux!Reopen
  <1>13. ASSUME NEW k \in Kinds, Demux!open(k)
         PROVE  DemuxTypes'
    <2>1. CASE dOpened
      BY <1>13, <2>1, Zenon DEF Demux!open
    <2>2. CASE ~dOpened
      BY <1>13, <2>2, <1>11, Zenon DEF Demux!open
    <2>3. QED
      BY <2>1, <2>2, Zenon
  <1>14. CASE Demux!ResumeFlush
    <2>1. dQueue' \in [Demux!Media -> Queue]
      BY <1>14, QueueTypes, Zenon DEF Demux!ResumeFlush
    <2>2. dPkt' \in Packet
      BY <1>14, Zenon DEF Demux!ResumeFlush, Packet
    <2>3. QED
      BY <1>14, <2>1, <2>2, Zenon DEF Demux!ResumeFlush
  <1>15. ASSUME NEW m \in Demux!Media, Demux!Consume(m)
         PROVE  DemuxTypes'
    <2>1. Tail(dQueue[m].items) \in Seq(Packet)
      BY <1>15 DEF Demux!Consume, Queue
    <2>2. dQueue' \in [Demux!Media -> Queue]
      BY <1>15, <2>1, Zenon DEF Demux!Consume, Queue
    <2>3. QED
      BY <1>15, <2>2, Zenon DEF Demux!Consume, Demux!calls, Demux!locals
  <1>16. CASE UNCHANGED dVars
    BY <1>16, Zenon DEF dVars
  <1>17. QED
    BY Zenon, <1>1, <1>2, <1>3, <1>4, <1>5, <1>6, <1>7, <1>8, <1>9, <1>10, <1>12, <1>13, <1>14, <1>15,
       <1>16 DEF Demux!Next, Demux!ThreadStep, Demux!StopStep, Demux!Call
-----------------------------------------------------------------------------
\* No demux thread runs where a stream is about to be opened: stop() joins it.
LEMMA LifeStep == Life /\ [Demux!Next]_dVars => Life'
  <1> SUFFICES ASSUME Life, [Demux!Next]_dVars
               PROVE  Life'
    OBVIOUS
  <1> USE DEF Life
  <1>1. CASE Demux!ThreadStep
    BY <1>1, ZenonT(60) DEF Demux!ThreadStep, Demux!Top, Demux!ClearSeek, Demux!SeekFrame,
       Demux!SeekFrameFails, Demux!FlushQueues, Demux!PauseTest,
       Demux!FallAsleep, Demux!ReadPacket, Demux!ReadAgain, Demux!ReadError, Demux!ReadEof,
          Demux!LiveEof, Demux!Distribute, Demux!PushPacket,
       Demux!NotEnded, Demux!StreamEnded, Demux!LoopStart, Demux!LoopSeek, Demux!Looped,
          Demux!calls
  <1>2. CASE Demux!StopStep
    BY <1>2, Zenon DEF Demux!StopStep, Demux!StopNotify, Demux!StopAbort, Demux!StopInterrupt,
       Demux!StopJoin, Demux!Reopen, Demux!OpenStream,
       Demux!notify_all
  <1>3. CASE Demux!Call
    BY <1>3, Zenon DEF Demux!Call, Demux!open, Demux!OpenStream, Demux!close, Demux!seek, Demux!pause,
       Demux!ResumeFlush, Demux!resume, Demux!setLoopMode,
       Demux!resetLoopCount, Demux!notify_all, Demux!calls
  <1>4. CASE Demux!SpuriousWakeup \/ (\E m \in Demux!Media : Demux!Consume(m)) \/ UNCHANGED dVars
    BY <1>4, Zenon DEF Demux!SpuriousWakeup, Demux!Consume, Demux!calls, dVars
  <1>5. QED
    BY <1>1, <1>2, <1>3, <1>4, Zenon DEF Demux!Next

\* Requests, input and last seek stay within the file.  What LoopSeek loads is
\* the loop's own request or a seek() that replaced it, never an erased one.
LEMMA PositionsStep == DemuxTypes /\ Positions /\ [Demux!Next]_dVars => Positions'
  <1> SUFFICES ASSUME DemuxTypes, Positions, [Demux!Next]_dVars
               PROVE  Positions'
    OBVIOUS
  <1> FileEnd \in Nat /\ Seeks \subseteq 0 .. FileEnd
    BY DemuxerAssumption, Zenon
  <1> USE DEF Positions
  <1>0. CASE Demux!FlushQueues
    <2>1. dPc' \in {"flush", "looped", "top"} /\ UNCHANGED <<dSeekMs, dReadPos, dLanded>>
      BY <1>0, Zenon DEF Demux!FlushQueues
    <2>2. QED
      BY <2>1, Zenon
  <1>1. CASE Demux!Top \/ Demux!ClearSeek \/ Demux!SeekFrame \/ Demux!SeekFrameFails \/ Demux!PauseTest
    <2>1. CASE Demux!Top
      BY <2>1 DEF Demux!Top, Demux!locals, Demux!None
    <2>2. CASE Demux!ClearSeek
      BY <2>2 DEF Demux!ClearSeek, Demux!locals, Demux!None
    <2>3. CASE Demux!SeekFrame
      BY <2>3 DEF Demux!SeekFrame, Demux!locals, Demux!None
    <2>4. CASE Demux!SeekFrameFails
      BY <2>4, Zenon DEF Demux!SeekFrameFails, Demux!locals, Demux!None
    <2>5. CASE Demux!PauseTest
      BY <2>5, Zenon DEF Demux!PauseTest, Demux!locals, Demux!None
    <2>6. QED
      BY <1>1, <2>1, <2>2, <2>3, <2>4, <2>5, Zenon
  <1>2. CASE Demux!FallAsleep \/ Demux!ReadAgain \/ Demux!ReadError \/ Demux!ReadEof \/ Demux!LiveEof \/ Demux!Distribute \/ Demux!PushPacket
    BY <1>2, Zenon DEF Demux!FallAsleep, Demux!ReadAgain, Demux!ReadError, Demux!ReadEof,
       Demux!LiveEof, Demux!Distribute, Demux!PushPacket, Demux!locals
  <1>3. ASSUME NEW m \in Demux!Media, Demux!ReadPacket(m)
        PROVE  Positions'
    <2>1. dReadPos' \in dReadPos .. FileEnd /\ dPc' = "distribute" /\ UNCHANGED <<dSeekMs,
       dLanded>>
      BY <1>3 DEF Demux!ReadPacket, DemuxTypes
    <2>2. QED
      BY <2>1
  <1>4. CASE Demux!NotEnded \/ Demux!StreamEnded \/ Demux!LoopStart \/ Demux!LoopSeek \/ Demux!Looped \/ Demux!SpuriousWakeup
    BY <1>4 DEF Demux!NotEnded, Demux!StreamEnded, Demux!LoopStart, Demux!LoopSeek,
       Demux!Looped, Demux!SpuriousWakeup, Demux!locals
  <1>5. CASE Demux!StopStep
    BY <1>5 DEF Demux!StopStep, Demux!StopNotify, Demux!StopAbort, Demux!StopInterrupt,
       Demux!StopJoin, Demux!Reopen, Demux!OpenStream,
       Demux!notify_all, Demux!locals
  <1>6. CASE Demux!Call
    BY <1>6 DEF Demux!Call, Demux!open, Demux!OpenStream, Demux!close, Demux!seek, Demux!pause,
       Demux!ResumeFlush, Demux!resume, Demux!setLoopMode,
       Demux!resetLoopCount, Demux!notify_all, Demux!locals
  <1>7. CASE (\E m \in Demux!Media : Demux!Consume(m)) \/ UNCHANGED dVars
    BY <1>7, Zenon DEF Demux!Consume, dVars, Demux!locals
  <1>8. QED
    BY <1>0, <1>1, <1>2, <1>3, <1>4, <1>5, <1>6, <1>7, Zenon DEF Demux!Next, Demux!ThreadStep

\* Only handleFileStreamPause lets the thread of a file read, and it tests
\* isPaused_ again whenever it wakes up.
LEMMA ReadsStep == DemuxTypes /\ Life /\ Reads /\ [Demux!Next]_dVars => Reads'
  <1> SUFFICES ASSUME DemuxTypes, Life, Reads, [Demux!Next]_dVars
               PROVE  Reads'
    OBVIOUS
  <1> USE DEF DemuxTypes, Reads
  <1>0. CASE Demux!FlushQueues
    <2>1. dPc' \in {"flush", "looped", "top"} /\ UNCHANGED <<dPaused, dPausedReads>>
      BY <1>0, Zenon DEF Demux!FlushQueues
    <2>2. QED
      BY <2>1, Zenon
  <1>1. CASE Demux!Top \/ Demux!ClearSeek \/ Demux!SeekFrame \/ Demux!SeekFrameFails \/ Demux!PauseTest
    <2>1. CASE Demux!Top
      BY <2>1, Zenon DEF Demux!Top, Demux!calls
    <2>2. CASE Demux!ClearSeek
      BY <2>2, Zenon DEF Demux!ClearSeek, Demux!calls
    <2>3. CASE Demux!SeekFrame
      BY <2>3, Zenon DEF Demux!SeekFrame, Demux!calls
    <2>4. CASE Demux!SeekFrameFails
      BY <2>4, Zenon DEF Demux!SeekFrameFails, Demux!calls
    <2>5. CASE Demux!PauseTest
      BY <2>5, Zenon DEF Demux!PauseTest, Demux!calls
    <2>6. QED
      BY <1>1, <2>1, <2>2, <2>3, <2>4, <2>5, Zenon
  <1>2. CASE Demux!FallAsleep \/ Demux!ReadAgain \/ Demux!ReadError \/ Demux!ReadEof \/ Demux!LiveEof \/ Demux!Distribute \/ Demux!PushPacket
    BY <1>2 DEF Demux!FallAsleep, Demux!ReadAgain, Demux!ReadError, Demux!ReadEof,
       Demux!LiveEof, Demux!Distribute, Demux!PushPacket, Demux!calls
  <1>3. ASSUME NEW m \in Demux!Media, Demux!ReadPacket(m)
        PROVE  Reads'
    BY <1>3, SMTT(60) DEF Demux!ReadPacket, Demux!calls
  <1>4. CASE Demux!NotEnded \/ Demux!StreamEnded \/ Demux!LoopStart \/ Demux!LoopSeek \/ Demux!Looped \/ Demux!SpuriousWakeup
    BY <1>4 DEF Demux!NotEnded, Demux!StreamEnded, Demux!LoopStart, Demux!LoopSeek,
       Demux!Looped, Demux!SpuriousWakeup, Demux!calls
  <1>5. CASE Demux!StopStep
    <2>1. CASE Demux!StopNotify
      BY <2>1, Zenon DEF Demux!StopNotify, Demux!notify_all
    <2>2. CASE Demux!StopAbort \/ Demux!StopInterrupt
      BY <2>2 DEF Demux!StopAbort, Demux!StopInterrupt
    <2>3. CASE Demux!StopJoin
      BY <2>3, Zenon DEF Demux!StopJoin
    <2>4. CASE Demux!Reopen
      BY <2>4, Zenon DEF Demux!Reopen, Demux!OpenStream, Life
    <2>5. QED
      BY <1>5, <2>1, <2>2, <2>3, <2>4, Zenon DEF Demux!StopStep
  <1>6. CASE Demux!Call
    BY <1>6 DEF Demux!Call, Demux!open, Demux!OpenStream, Demux!close, Demux!seek, Demux!pause,
       Demux!ResumeFlush, Demux!resume, Demux!setLoopMode,
       Demux!resetLoopCount, Demux!notify_all, Demux!calls
  <1>7. CASE (\E m \in Demux!Media : Demux!Consume(m)) \/ UNCHANGED dVars
    BY <1>7 DEF Demux!Consume, dVars, Demux!calls
  <1>8. QED
    BY <1>0, <1>1, <1>2, <1>3, <1>4, <1>5, <1>6, <1>7, Zenon DEF Demux!Next, Demux!ThreadStep
-----------------------------------------------------------------------------
\* Every step keeps what a file's queues hold in order.
LEMMA OrderStep == DemuxTypes /\ Positions /\ Life /\ Order /\ [Demux!Next]_dVars => Order'
  <1> SUFFICES ASSUME DemuxTypes, Positions, Life, Order, [Demux!Next]_dVars
               PROVE  Order'
    OBVIOUS
  <1>0. /\ FileEnd \in Nat /\ dReadPos \in Int /\ dLanded \in Int /\ dPkt.pos \in Int
        /\ dLanded <= dReadPos /\ dReadPos <= FileEnd
        /\ \A m \in Demux!Media : dQueue[m] \in Queue /\ dQueue[m].items \in Seq(Packet)
    <2>1. FileEnd \in Nat
      BY DemuxerAssumption, Zenon
    <2>2. dReadPos \in Int /\ dLanded \in Int /\ dLanded <= dReadPos /\ dReadPos <= FileEnd
      BY <2>1 DEF Positions
    <2>3. dPkt.pos \in Int
      BY Zenon DEF DemuxTypes, Packet
    <2>4. \A m \in Demux!Media : dQueue[m] \in Queue /\ dQueue[m].items \in Seq(Packet)
      BY Zenon DEF DemuxTypes, Queue
    <2>5. QED
      BY <2>1, <2>2, <2>3, <2>4, Zenon
  <1>1. CASE Demux!Top \/ Demux!ClearSeek \/ Demux!SeekFrameFails \/ Demux!PauseTest \/ Demux!FallAsleep \/ Demux!ReadAgain \/ Demux!ReadError
            \/ Demux!NotEnded \/ Demux!StreamEnded \/ Demux!LoopStart \/ Demux!LoopSeek \/ Demux!Looped \/ Demux!SpuriousWakeup
    <2>1. /\ UNCHANGED <<dKind, dQueue, dLanded, dReadPos>>
          /\ dPc \notin {"flush", "distribute", "push"}
          /\ dPc' \notin {"flush", "distribute", "push"}
      BY <1>1, Zenon DEF Demux!Top, Demux!ClearSeek, Demux!SeekFrameFails, Demux!PauseTest,
         Demux!FallAsleep, Demux!ReadAgain, Demux!ReadError,
         Demux!NotEnded, Demux!StreamEnded, Demux!LoopStart, Demux!LoopSeek, Demux!Looped,
            Demux!SpuriousWakeup, Demux!calls, Demux!locals
    <2>2. QED
      BY <2>1, Zenon DEF Order, High, Holding
  <1>2. CASE Demux!SeekFrame
    BY <1>2, Zenon DEF Demux!SeekFrame, Order, Holding
  <1>3. CASE Demux!FlushQueues
    <2>1. PICK m \in Demux!Media : /\ dQueue' = [dQueue EXCEPT ![m] = Demux!Flushed(@)]
                                   /\ dFlushing' = dFlushing \ {m}
      BY <1>3, ZenonT(60) DEF Demux!FlushQueues, Demux!Media
    <2>2. SUFFICES ASSUME dKind = "file"
                   PROVE  Order'
      BY <1>3, Zenon DEF Demux!FlushQueues, Demux!calls, Order
    <2>3. \A n \in Demux!Media \ dFlushing' : dQueue'[n].items = <<>>
      BY <1>3, <2>1, <2>2 DEF Demux!FlushQueues, Order, DemuxTypes, Demux!Flushed, Queue
    <2>4. CASE dFlushing' # {}
      BY <1>3, <2>3, <2>4, Zenon DEF Demux!FlushQueues, Order, Holding
    <2>5. CASE dFlushing' = {}
      <3>1. \A n \in Demux!Media : InOrder(dQueue'[n].items, dLanded, dReadPos)
        BY <1>0, <2>3, <2>5, EmptyInOrder, Zenon
      <3>2. dPc' \notin {"flush", "distribute", "push"} /\ UNCHANGED <<dLanded, dReadPos>>
        BY <1>3, <2>5, Zenon DEF Demux!FlushQueues
      <3>3. QED
        BY <3>1, <3>2, Zenon DEF Order, High, Holding
    <2>6. QED
      BY <2>4, <2>5, Zenon
  <1>4. ASSUME NEW m \in Demux!Media, Demux!ReadPacket(m)
        PROVE  Order'
    <2>1. CASE dKind = "file"
      <3>1. \A n \in Demux!Media : InOrder(dQueue[n].items, dLanded, dReadPos)
        BY <1>4, <2>1, Zenon DEF Demux!ReadPacket, Order, High, Holding
      <3>2. /\ dPc' = "distribute" /\ dPkt'.pos = dReadPos /\ dReadPos' = dReadPos + 1
            /\ UNCHANGED <<dQueue, dLanded>>
        BY <1>4, <2>1, Zenon DEF Demux!ReadPacket
      <3>3. QED
        BY <1>0, <3>1, <3>2, SMTT(60) DEF Order, High, Holding
    <2>2. CASE dKind # "file"
      BY <1>4, <2>2, Zenon DEF Demux!ReadPacket, Demux!calls, Order
    <2>3. QED
      BY <2>1, <2>2, Zenon
  <1>5. CASE Demux!ReadEof
    <2>1. \A n \in Demux!Media : InOrder(dQueue[n].items, dLanded, FileEnd)
      BY <1>5, Zenon DEF Demux!ReadEof, Order, High, Holding
    <2>2. \A n \in Demux!Media : InOrder(dQueue'[n].items, dLanded, FileEnd)
      <3>1. CASE UNCHANGED dQueue
        BY <2>1, <3>1, Zenon
      <3>2. CASE Demux!handleEndOfFile
        <4> TAKE n \in Demux!Media
        <4> DEFINE p == [medium |-> n, pos |-> FileEnd, current |-> TRUE]
        <4>1. p \in Packet /\ p.pos = FileEnd
          BY PacketTypes, Zenon
        <4>2. dQueue'[n] = Demux!Pushed(dQueue[n], p)
          BY <3>2, Zenon DEF Demux!handleEndOfFile
        <4> HIDE DEF p
        <4>3. InOrder(Demux!Pushed(dQueue[n], p).items, dLanded, p.pos)
          BY <1>0, <2>1, <4>1, PushedInOrder, SMTT(60)
        <4>4. QED
          BY <4>1, <4>2, <4>3, Zenon
      <3>3. QED
        BY <1>5, <3>1, <3>2, Zenon DEF Demux!ReadEof
    <2>3. dPc' = "eof" /\ UNCHANGED <<dLanded, dReadPos>> /\ dReadPos = FileEnd
      BY <1>5, Zenon DEF Demux!ReadEof
    <2>4. QED
      BY <2>2, <2>3, Zenon DEF Order, High, Holding
  <1>6. CASE Demux!LiveEof
    BY <1>6, Zenon DEF Demux!LiveEof, Demux!calls, Order
  <1>7. CASE Demux!Distribute
    <2>1. SUFFICES ASSUME dKind = "file"
                   PROVE  Order'
      BY <1>7, Zenon DEF Demux!Distribute, Demux!calls, Order
    <2>2. /\ UNCHANGED <<dQueue, dLanded, dReadPos>> /\ dPkt'.pos = dPkt.pos
          /\ \A n \in Demux!Media : InOrder(dQueue[n].items, dLanded, dPkt.pos)
          /\ dLanded <= dPkt.pos /\ dPkt.pos <= dReadPos
      BY <1>7, <2>1, Zenon DEF Demux!Distribute, Order, High, Holding, DemuxTypes, Packet
    <2>3. CASE dPc' = "push"
      BY <2>2, <2>3, Zenon DEF Order, High, Holding
    <2>4. CASE dPc' = "top"
      <3>1. \A n \in Demux!Media : InOrder(dQueue[n].items, dLanded, dReadPos)
        BY <1>0, <2>2, WiderInOrder, Zenon
      <3>2. QED
        BY <2>2, <2>4, <3>1, Zenon DEF Order, High, Holding
    <2>5. QED
      BY <1>7, <2>3, <2>4, Zenon DEF Demux!Distribute
  <1>8. CASE Demux!PushPacket
    <2>1. SUFFICES ASSUME dKind = "file"
                   PROVE  Order'
      BY <1>8, Zenon DEF Demux!PushPacket, Demux!calls, Order
    <2>2. /\ dPc' = "top" /\ UNCHANGED <<dLanded, dReadPos>>
          /\ \A n \in Demux!Media : InOrder(dQueue[n].items, dLanded, dPkt.pos)
          /\ dLanded <= dPkt.pos /\ dPkt.pos <= dReadPos
      BY <1>8, <2>1, Zenon DEF Demux!PushPacket, Order, High, Holding
    <2>3. InOrder(Demux!Pushed(dQueue[dPkt.medium], dPkt).items, dLanded, dPkt.pos)
      BY <1>0, <2>2, PushedInOrder, Zenon DEF DemuxTypes, Packet
    <2>4. \A n \in Demux!Media : dQueue'[n] = IF n = dPkt.medium THEN Demux!Pushed(dQueue[n],
       dPkt) ELSE dQueue[n]
      BY <1>8, Zenon DEF Demux!PushPacket, DemuxTypes
    <2>5. \A n \in Demux!Media : /\ InOrder(dQueue'[n].items, dLanded, dPkt.pos)
                                  /\ dQueue'[n].items \in Seq(Packet)
      <3> TAKE n \in Demux!Media
      <3>1. CASE n = dPkt.medium
        <4>1. dQueue'[n] = Demux!Pushed(dQueue[n], dPkt) /\ Demux!Pushed(dQueue[n],
           dPkt) \in Queue
          BY <1>0, <2>4, <3>1, QueueTypes, ZenonT(60) DEF DemuxTypes
        <4>2. QED
          BY <2>3, <3>1, <4>1, Zenon DEF Queue
      <3>2. CASE n # dPkt.medium
        BY <1>0, <2>2, <2>4, <3>2, Zenon
      <3>3. QED
        BY <3>1, <3>2, Zenon
    <2>6. \A n \in Demux!Media : InOrder(dQueue'[n].items, dLanded, dReadPos)
      BY <1>0, <2>2, <2>5, WiderInOrder, Zenon
    <2>7. QED
      BY <2>2, <2>6, Zenon DEF Order, High, Holding
  <1>9. CASE Demux!StopNotify \/ Demux!StopInterrupt \/ Demux!close \/ Demux!resume \/ Demux!pause \/ Demux!resetLoopCount
            \/ (\E p \in Seeks : Demux!seek(p)) \/ (\E l \in LoopModes : Demux!setLoopMode(l))
    <2>1. /\ UNCHANGED <<dKind, dQueue, dLanded, dReadPos, dPkt, dFlushing>>
          /\ dPc' = dPc \/ (dPc = "asleep" /\ dPc' = "woken")
      BY <1>9, Zenon DEF Demux!StopNotify, Demux!StopInterrupt, Demux!close, Demux!resume,
         Demux!pause, Demux!resetLoopCount, Demux!seek,
         Demux!setLoopMode, Demux!notify_all, Demux!calls, Demux!locals
    <2>2. QED
      BY <2>1, Zenon DEF Order, High, Holding
  <1>10. CASE Demux!StopAbort
    <2>1. \A n \in Demux!Media : dQueue'[n].items = dQueue[n].items
      BY <1>10, <1>0, Zenon DEF Demux!StopAbort, Queue
    <2>2. UNCHANGED <<dKind, dLanded, dReadPos, dPkt, dFlushing, dPc>>
      BY <1>10, Zenon DEF Demux!StopAbort, Demux!locals
    <2>3. QED
      BY <2>1, <2>2, Zenon DEF Order, High, Holding
  <1>11. CASE Demux!StopJoin
    <2>1. \A n \in Demux!Media : dQueue'[n].items = <<>>
      BY <1>11, Zenon DEF Demux!StopJoin, Demux!EmptyQueue
    <2>2. dPc' = "none" /\ UNCHANGED <<dLanded, dReadPos>>
      BY <1>11, Zenon DEF Demux!StopJoin
    <2>3. QED
      BY <1>0, <2>1, <2>2, EmptyInOrder, Zenon DEF Order, High, Holding
  <1>12. ASSUME NEW k, Demux!OpenStream(k), dPc = "none", UNCHANGED dFlushing
         PROVE  Order'
    <2>1. CASE UNCHANGED <<dKind, dQueue, dPc, dPkt, dReadPos, dLanded>>
      BY <1>12, <2>1, Zenon DEF Order, High, Holding
    <2>2. CASE /\ dQueue' = [m \in Demux!Media |-> Demux!EmptyQueue]
               /\ dPc' = "top" /\ dReadPos' = 0 /\ dLanded' = 0
      <3>1. \A n \in Demux!Media : InOrder(dQueue'[n].items, 0, 0)
        BY <2>2, EmptyInOrder DEF Demux!EmptyQueue
      <3>2. QED
        BY <2>2, <3>1, Zenon DEF Order, High, Holding
    <2>3. QED
      BY <1>12, <2>1, <2>2, Zenon DEF Demux!OpenStream
  <1>13. CASE Demux!Reopen
    BY <1>12, <1>13, Zenon DEF Demux!Reopen, Life
  <1>14. ASSUME NEW k \in Kinds, Demux!open(k)
         PROVE  Order'
    <2>1. CASE dOpened
      BY <1>14, <2>1, Zenon DEF Demux!open, Order, High, Holding
    <2>2. CASE ~dOpened
      BY <1>12, <1>14, <2>2, Zenon DEF Demux!open, Life
    <2>3. QED
      BY <2>1, <2>2, Zenon
  <1>15. CASE Demux!ResumeFlush
    BY <1>15, Zenon DEF Demux!ResumeFlush, Order
  <1>16. ASSUME NEW m \in Demux!Media, Demux!Consume(m)
         PROVE  Order'
    <2>1. \A n \in Demux!Media : dQueue'[n].items = IF n = m THEN Tail(dQueue[n].items) ELSE dQueue[n].items
      BY <1>16, Zenon DEF Demux!Consume, DemuxTypes, Queue
    <2>2. UNCHANGED <<dKind, dLanded, dReadPos, dPkt, dFlushing, dPc>> /\ dQueue[m].items # <<>>
      BY <1>16, Zenon DEF Demux!Consume, Demux!calls, Demux!locals
    <2>3. High \in Int
      BY <1>0, Zenon DEF High
    <2>4. SUFFICES ASSUME dKind = "file"
                   PROVE  Order'
      BY <2>2, Zenon DEF Order
    <2>5. CASE dPc = "flush"
      BY <2>1, <2>2, <2>4, <2>5, Zenon DEF Order, Holding
    <2>6. CASE dPc # "flush"
      <3>1. \A n \in Demux!Media : InOrder(dQueue[n].items, dLanded, High)
        BY <2>4, <2>6, Zenon DEF Order
      <3>2. InOrder(Tail(dQueue[m].items), dLanded, High)
        BY <1>0, <2>2, <2>3, <3>1, TailInOrder, Zenon
      <3>3. \A n \in Demux!Media : InOrder(dQueue'[n].items, dLanded, High)
        BY <2>1, <3>1, <3>2, Zenon
      <3>4. QED
        BY <2>2, <2>4, <2>6, <3>3, Zenon DEF Order, High, Holding
    <2>7. QED
      BY <2>5, <2>6, Zenon
  <1>17. CASE UNCHANGED dVars
    BY <1>17, Zenon DEF dVars, Order, High, Holding
  <1>18. QED
    BY Zenon, <1>1, <1>2, <1>3, <1>4, <1>5, <1>6, <1>7, <1>8, <1>9, <1>10, <1>11, <1>13, <1>14, <1>15,
       <1>16, <1>17 DEF Demux!Next, Demux!ThreadStep, Demux!StopStep, Demux!Call
-----------------------------------------------------------------------------
\* The five parts hold in the initial state.
LEMMA DemuxerInit == Demux!Init => DemuxTypes /\ Positions /\ Life /\ Order /\ Reads
  <1> SUFFICES ASSUME Demux!Init
               PROVE  Positions /\ Life /\ Order /\ Reads
    BY DemuxTypesInit, Zenon
  <1>1. Positions /\ Life /\ Reads
    BY DemuxerAssumption DEF Demux!Init, Positions, Life, Reads, Demux!None
  <1>2. \A m \in Demux!Media : InOrder(dQueue[m].items, 0, 0)
    BY EmptyInOrder, SMTT(60) DEF Demux!Init, Demux!EmptyQueue
  <1>3. Order
    BY <1>2, Zenon DEF Demux!Init, Order, High, Holding
  <1>4. QED
    BY <1>1, <1>3, Zenon

\* The inductive invariant of the demuxer.
THEOREM DemuxerInvariant == Demux!Spec => [](DemuxTypes /\ Positions /\ Life /\ Order /\ Reads)
  <1>1. DemuxTypes /\ Positions /\ Life /\ Order /\ Reads /\ [Demux!Next]_dVars
          => (DemuxTypes /\ Positions /\ Life /\ Order /\ Reads)'
    BY DemuxTypesStep, PositionsStep, LifeStep, OrderStep, ReadsStep, Zenon
  <1>2. QED
    BY <1>1, DemuxerInit, PTL DEF Demux!Spec, Demux!vars, dVars

\* Once handleSeekRequest has flushed, a file's queues hold only packets read
\* after the seek, in file order, whatever seeks, loops, failed seeks, pauses,
\* closes and reopenings came before.
THEOREM SeekFlushes == Demux!Spec => []FileOrder
  <1>1. DemuxTypes /\ Order => FileOrder
    <2> SUFFICES ASSUME DemuxTypes, Order, dKind = "file", dPc # "flush",
                        NEW m \in Demux!Media, NEW i \in DOMAIN dQueue[m].items
                 PROVE  /\ dQueue[m].items[i].pos >= dLanded
                        /\ i > 1 => dQueue[m].items[i - 1].pos <= dQueue[m].items[i].pos
      BY Zenon DEF FileOrder, Demux!FileOrder
    <2> DEFINE s == dQueue[m].items
    <2>1. InOrder(s, dLanded, High)
      BY Zenon DEF Order
    <2>2. s \in Seq(Packet) /\ i \in 1 .. Len(s) /\ Len(s) \in Nat
      BY DEF DemuxTypes, Queue
    <2>3. dLanded <= s[i].pos
      BY <2>1, <2>2, Zenon DEF InOrder
    <2>4. ASSUME i > 1
          PROVE  s[i - 1].pos <= s[i].pos
      <3>1. i - 1 \in 1 .. Len(s) /\ i - 1 <= i
        BY <2>2, <2>4
      <3>2. QED
        BY <2>1, <2>2, <3>1, Zenon DEF InOrder
    <2>5. QED
      BY <2>3, <2>4, Zenon
  <1>2. QED
    BY <1>1, DemuxerInvariant, PTL

\* A paused file is read at most once more, whatever wakes the thread up and
\* however often the stream is closed and opened again while it is paused.
THEOREM PauseHolds == Demux!Spec => []PausedFileStops
  <1>1. Reads => PausedFileStops
    BY Zenon DEF Reads, PausedFileStops, Demux!PausedFileStops
  <1>2. QED
    BY <1>1, DemuxerInvariant, PTL
=============================================================================
