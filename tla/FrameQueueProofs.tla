-------------------------- MODULE FrameQueueProofs --------------------------
(***************************************************************************)
(* Proofs about FrameQueue for every capacity, number of readers and       *)
(* frames: the ring's indices agree, the decoder's unlocked write never    *)
(* touches a slot a reader can be handed, no wake-up is lost, clear()      *)
(* removes what it was called to remove, and the queue refines FrameChannel. *)
(***************************************************************************)
EXTENDS FrameQueue, TLAPS

\* Arithmetic of the ring: positions are at most one lap ahead.
LEMMA ModLap ==
    ASSUME NEW m \in Nat \ {0}, NEW a \in 0..(m - 1), NEW b \in 0..m
    PROVE  (a + b) % m = IF a + b < m THEN a + b ELSE a + b - m
OBVIOUS

\* Why the decoder's slot is its own: either it is the next slot to be filled,
\* and the ring is not full, or a clear() emptied the ring in between.  The
\* decoder sleeps or holds a slot only while its thread runs.
SlotInv ==
    /\ HoldsSlot => size = 0 \/ (writer.slot = tail /\ size < maxSize)
    /\ Writer \in asleep => writer.pc \in {"waitSlot", "waitPush"}
    /\ writer.pc # "idle" => running

IInv == TypeOK /\ RingConsistent /\ NoLostWakeup /\ SlotInv

\* In TypeOK states the bounds of the ring are natural numbers.
LEMMA Bounds ==
    ASSUME TypeOK
    PROVE  /\ maxSize \in Nat /\ maxSize > 0
           /\ head \in Nat /\ tail \in Nat /\ size \in Nat
           /\ head < maxSize /\ tail < maxSize /\ size <= maxSize
BY FrameQueueAssumption DEF TypeOK

\* Advancing tail_ over a ring that is not full, or head_ over one that is not
\* empty, keeps the indices in range and in agreement.
LEMMA Advance ==
    ASSUME TypeOK, RingConsistent
    PROVE  /\ (tail + 1) % maxSize \in 0..(maxSize - 1)
           /\ size < maxSize => (tail + 1) % maxSize = (head + (size + 1)) % maxSize
           /\ (head + 1) % maxSize \in 0..(maxSize - 1)
           /\ size > 0 => tail = (((head + 1) % maxSize) + (size - 1)) % maxSize
<1>0. /\ maxSize \in Nat \ {0} /\ head \in 0..(maxSize - 1) /\ tail \in 0..(maxSize - 1)
      /\ size \in 0..maxSize
  BY Bounds
<1>1. (tail + 1) % maxSize = IF tail + 1 < maxSize THEN tail + 1 ELSE tail + 1 - maxSize
  BY <1>0, 1 \in 0..maxSize, ModLap, Zenon
<1>2. (head + 1) % maxSize = IF head + 1 < maxSize THEN head + 1 ELSE head + 1 - maxSize
  BY <1>0, 1 \in 0..maxSize, ModLap, Zenon
<1>3. tail = IF head + size < maxSize THEN head + size ELSE head + size - maxSize
  BY <1>0, ModLap, Zenon DEF RingConsistent
<1>4. ASSUME size < maxSize
      PROVE  (head + (size + 1)) % maxSize =
               IF head + (size + 1) < maxSize THEN head + (size + 1) ELSE head + (size + 1) - maxSize
  BY <1>0, <1>4, size + 1 \in 0..maxSize, ModLap, Zenon
<1>5. ASSUME size > 0
      PROVE  (((head + 1) % maxSize) + (size - 1)) % maxSize =
               IF ((head + 1) % maxSize) + (size - 1) < maxSize
               THEN ((head + 1) % maxSize) + (size - 1)
               ELSE ((head + 1) % maxSize) + (size - 1) - maxSize
  <2>1. (head + 1) % maxSize \in 0..(maxSize - 1) /\ size - 1 \in 0..maxSize
    BY <1>0, <1>2, <1>5
  <2> QED
    BY <1>0, <2>1, ModLap, Zenon
<1> QED
  BY <1>0, <1>1, <1>2, <1>3, <1>4, <1>5

\* The tail slot of a ring that is not full is not poppable.
LEMMA TailIsOutside ==
    ASSUME TypeOK, RingConsistent, size < maxSize
    PROVE  tail \notin Poppable
<1> SUFFICES ASSUME NEW i \in 0..(size - 1) PROVE tail # (head + i) % maxSize
  BY DEF Poppable, At
<1>0. /\ maxSize \in Nat \ {0} /\ head \in 0..(maxSize - 1) /\ size \in 0..maxSize
      /\ i \in 0..maxSize /\ i < size
  BY Bounds
<1>1. (head + i) % maxSize = IF head + i < maxSize THEN head + i ELSE head + i - maxSize
  BY <1>0, ModLap, Zenon
<1>2. tail = IF head + size < maxSize THEN head + size ELSE head + size - maxSize
  BY <1>0, ModLap, ZenonT(60) DEF RingConsistent
<1> QED
  BY <1>0, <1>1, <1>2, SMT

\* The invariant puts the decoder's slot outside the poppable part of the ring.
LEMMA SlotIsOutside == TypeOK /\ RingConsistent /\ SlotInv => WriterOwnsSlot
<1> SUFFICES ASSUME TypeOK, RingConsistent, SlotInv, HoldsSlot
             PROVE  writer.slot \notin Poppable
  BY DEF WriterOwnsSlot
<1>1. CASE size = 0
  BY <1>1 DEF Poppable
<1>2. CASE writer.slot = tail /\ size < maxSize
  BY <1>2, TailIsOutside
<1> QED
  BY <1>1, <1>2 DEF SlotInv
-----------------------------------------------------------------------------
\* The initial state satisfies the invariant.
LEMMA InitInv == Init => IInv
<1> SUFFICES ASSUME Init PROVE IInv
  OBVIOUS
<1>1. maxSize \in Nat \ {0}
  BY FrameQueueAssumption DEF Init
<1>2. slots \in [0..(maxSize - 1) -> 0..MaxFrames]
  BY FrameQueueAssumption DEF Init, EmptyRing
<1>3. allocated \in BOOLEAN /\ aborted \in BOOLEAN /\ running \in BOOLEAN
  BY Zenon DEF Init
<1>4. TypeOK
  BY <1>1, <1>2, <1>3, FrameQueueAssumption DEF Init, TypeOK, WriterIdle
<1>5. RingConsistent
  BY <1>1, ModLap DEF Init, RingConsistent
<1>6. NoLostWakeup /\ SlotInv
  BY DEF Init, NoLostWakeup, SlotInv, WriterIdle, HoldsSlot
<1> QED
  BY <1>4, <1>5, <1>6 DEF IInv

\* A step that leaves the ring and the flags alone, wakes nobody up without
\* cause and puts only threads to sleep whose predicate is false.
LEMMA WakeupFrame ==
    ASSUME NoLostWakeup, UNCHANGED <<size, maxSize, aborted, ctl>>,
           Writer \in asleep' => Writer \in asleep \/ ~hasSpace,
           \A r \in Readers : r \in asleep' => r \in asleep \/ ~hasData
    PROVE  NoLostWakeup'
BY DEF NoLostWakeup, hasSpace, hasData, canPop

\* TakeSlot gives the decoder the slot at tail_ of a ring that is not full.
LEMMA TakeSlotInv ==
    ASSUME TypeOK, NEW f \in 0..MaxFrames, TakeSlot(f)
    PROVE  /\ writer' \in [pc : {"idle", "waitSlot", "waitPush", "writing", "written"},
                           slot : Nat, frame : 0..MaxFrames]
           /\ writer'.pc \in {"idle", "writing"}
           /\ writer'.pc = "writing" => writer'.slot = tail /\ size < maxSize
<1>1. CASE writer' = WriterIdle
  BY <1>1, FrameQueueAssumption DEF WriterIdle
<1>2. CASE ~(size >= maxSize) /\ writer' = [pc |-> "writing", slot |-> tail, frame |-> f]
  BY <1>2, Bounds
<1> QED
  BY <1>1, <1>2 DEF TakeSlot

\* A frame added at tail_ keeps the ring's types and indices.
LEMMA AppendRing ==
    ASSUME TypeOK, RingConsistent, size < maxSize,
           tail' = (tail + 1) % maxSize, size' = size + 1, UNCHANGED <<head, maxSize>>
    PROVE  RingConsistent' /\ tail' \in 0..(maxSize - 1) /\ size' \in 0..maxSize
BY Advance, Bounds DEF RingConsistent

\* A frame taken at head_ keeps the ring's types and indices.
LEMMA RemoveRing ==
    ASSUME TypeOK, RingConsistent, size > 0,
           head' = (head + 1) % maxSize, size' = size - 1, UNCHANGED <<tail, maxSize>>
    PROVE  RingConsistent' /\ head' \in 0..(maxSize - 1) /\ size' \in 0..maxSize
BY Advance, Bounds DEF RingConsistent

\* An empty ring is consistent.
LEMMA ResetRing ==
    ASSUME TypeOK, head' = 0, tail' = 0, size' = 0, UNCHANGED maxSize
    PROVE  RingConsistent' /\ head' \in 0..(maxSize - 1) /\ tail' \in 0..(maxSize - 1)
           /\ size' \in 0..maxSize
<1>1. maxSize \in Nat \ {0}
  BY Bounds
<1>2. (0 + 0) % maxSize = 0
  BY <1>1, ModLap
<1> QED
  BY <1>1, <1>2 DEF RingConsistent
-----------------------------------------------------------------------------
(* The writer's steps. *)

\* The decoder takes the tail slot, or goes to sleep because the ring is full.
LEMMA getWritableFrameInv == IInv /\ getWritableFrame => IInv'
<1> SUFFICES ASSUME TypeOK, RingConsistent, NoLostWakeup, SlotInv, getWritableFrame
             PROVE  IInv'
  BY DEF IInv
<1>1. UNCHANGED <<slots, allocated, head, tail, size, maxSize, aborted, reading, ctl,
                  clearReads, running, gone>>
  BY DEF getWritableFrame, ring, control
<1>2. running /\ writer.pc = "idle" /\ decoded' \in 0..MaxFrames
  BY FrameQueueAssumption DEF getWritableFrame, TypeOK
<1>3. RingConsistent'
  BY <1>1 DEF RingConsistent
<1>4. CASE hasSpace /\ TakeSlot(decoded') /\ UNCHANGED asleep
  <2>1. NoLostWakeup'
    BY <1>1, <1>4, WakeupFrame
  <2>2. TypeOK'
    BY <1>1, <1>2, <1>4, TakeSlotInv, SMTT(60) DEF TypeOK
  <2>3. SlotInv'
    BY <1>1, <1>2, <1>4, TakeSlotInv DEF SlotInv, HoldsSlot
  <2> QED
    BY <1>3, <2>1, <2>2, <2>3 DEF IInv
<1>5. CASE /\ ~hasSpace /\ asleep' = asleep \cup {Writer}
           /\ writer' = [pc |-> "waitSlot", slot |-> 0, frame |-> decoded']
  <2>1. NoLostWakeup'
    BY <1>1, <1>5, FrameQueueAssumption, WakeupFrame
  <2>2. TypeOK'
    BY <1>1, <1>2, <1>5, SMTT(60) DEF TypeOK
  <2>3. SlotInv'
    BY <1>1, <1>2, <1>5 DEF SlotInv, HoldsSlot
  <2> QED
    BY <1>3, <2>1, <2>2, <2>3 DEF IInv
<1> QED
  BY <1>4, <1>5 DEF getWritableFrame

\* Filling the slot outside the lock touches nothing that readers see.
LEMMA WriteFrameInv == IInv /\ WriteFrame => IInv'
<1> SUFFICES ASSUME TypeOK, RingConsistent, NoLostWakeup, SlotInv, WriteFrame
             PROVE  IInv'
  BY DEF IInv
<1>1. UNCHANGED <<allocated, head, tail, size, maxSize, aborted, asleep, reading, ctl,
                  clearReads, running, decoded, gone>>
  BY DEF WriteFrame, control
<1>2. /\ writer.pc = "writing" /\ slots' = [slots EXCEPT ![writer.slot] = writer.frame]
      /\ writer' = [writer EXCEPT !.pc = "written"]
  BY DEF WriteFrame
<1>3. TypeOK'
  BY <1>1, <1>2, ZenonT(60) DEF TypeOK
<1>4. RingConsistent' /\ NoLostWakeup'
  BY <1>1, WakeupFrame DEF RingConsistent
<1>5. SlotInv'
  BY <1>1, <1>2 DEF SlotInv, HoldsSlot, TypeOK
<1> QED
  BY <1>3, <1>4, <1>5 DEF IInv

\* A slot that is given up without a commit is no longer the decoder's.
LEMMA DropFrameInv == IInv /\ DropFrame => IInv'
<1> SUFFICES ASSUME TypeOK, RingConsistent, NoLostWakeup, SlotInv, DropFrame
             PROVE  IInv'
  BY DEF IInv
<1>1. UNCHANGED <<slots, allocated, head, tail, size, maxSize, aborted, asleep, reading, ctl,
                  clearReads, running, decoded, gone>>
  BY DEF DropFrame, ring, control
<1>2. writer.pc = "written" /\ writer' = WriterIdle
  BY DEF DropFrame
<1>3. TypeOK'
  BY <1>1, <1>2, FrameQueueAssumption DEF TypeOK, WriterIdle
<1>4. RingConsistent' /\ NoLostWakeup'
  BY <1>1, WakeupFrame DEF RingConsistent
<1>5. SlotInv'
  BY <1>1, <1>2 DEF SlotInv, HoldsSlot, WriterIdle
<1> QED
  BY <1>3, <1>4, <1>5 DEF IInv

\* commitFrame is safe although it checks nothing: the decoder got its slot
\* from a ring that was not full, and only the decoder fills the ring.
LEMMA commitFrameInv == IInv /\ commitFrame => IInv'
<1> SUFFICES ASSUME TypeOK, RingConsistent, NoLostWakeup, SlotInv, commitFrame
             PROVE  IInv'
  BY DEF IInv
<1>1. UNCHANGED <<slots, allocated, head, maxSize, aborted, reading, ctl,
                  clearReads, running, decoded, gone>>
  BY DEF commitFrame, control
<1>2. /\ writer.pc = "written" /\ writer' = WriterIdle /\ asleep' = {}
      /\ tail' = (tail + 1) % maxSize /\ size' = size + 1
  BY DEF commitFrame, notifyWaiters
<1>3. size < maxSize
  BY <1>2, Bounds DEF SlotInv, HoldsSlot
<1>4. RingConsistent' /\ tail' \in 0..(maxSize - 1) /\ size' \in 0..maxSize
  BY <1>1, <1>2, <1>3, AppendRing
<1>5. TypeOK'
  BY <1>1, <1>2, <1>4, FrameQueueAssumption, SMTT(60) DEF TypeOK, WriterIdle
<1>6. SlotInv' /\ NoLostWakeup'
  BY <1>1, <1>2 DEF SlotInv, HoldsSlot, WriterIdle, NoLostWakeup
<1> QED
  BY <1>4, <1>5, <1>6 DEF IInv

\* push once its wait is over.
LEMMA PushFrameInv ==
    ASSUME TypeOK, RingConsistent, NoLostWakeup, SlotInv, NEW f \in 0..MaxFrames,
           hasSpace, Writer \notin asleep, PushFrame(f), decoded' \in 0..MaxFrames,
           UNCHANGED <<aborted, reading, ctl, clearReads, running, gone>>
    PROVE  IInv'
<1>1. writer' = WriterIdle
  BY DEF PushFrame
<1>2. CASE UNCHANGED <<slots, allocated, head, tail, size, maxSize, asleep>>
  <2>1. TypeOK'
    BY <1>1, <1>2, FrameQueueAssumption, SMTT(60) DEF TypeOK, WriterIdle
  <2>2. RingConsistent' /\ NoLostWakeup'
    BY <1>2, WakeupFrame DEF RingConsistent
  <2>3. SlotInv'
    BY <1>1, <1>2 DEF SlotInv, HoldsSlot, WriterIdle
  <2> QED
    BY <2>1, <2>2, <2>3 DEF IInv
<1>3. CASE /\ ~aborted /\ slots' = [slots EXCEPT ![tail] = f] /\ tail' = (tail + 1) % maxSize
           /\ size' = size + 1 /\ asleep' = {} /\ UNCHANGED <<allocated, head, maxSize>>
  <2>1. size < maxSize
    BY <1>3 DEF hasSpace
  <2>2. RingConsistent' /\ tail' \in 0..(maxSize - 1) /\ size' \in 0..maxSize
    BY <1>3, <2>1, AppendRing
  <2>3. TypeOK'
    BY <1>1, <1>3, <2>2, FrameQueueAssumption, SMTT(60) DEF TypeOK, WriterIdle
  <2>4. SlotInv' /\ NoLostWakeup'
    BY <1>1, <1>3 DEF SlotInv, HoldsSlot, WriterIdle, NoLostWakeup
  <2> QED
    BY <2>2, <2>3, <2>4 DEF IInv
<1> QED
  BY <1>2, <1>3 DEF PushFrame, ring, notifyWaiters

\* push publishes a frame in the tail slot under the lock, or sleeps.
LEMMA pushInv == IInv /\ push => IInv'
<1> SUFFICES ASSUME TypeOK, RingConsistent, NoLostWakeup, SlotInv, push
             PROVE  IInv'
  BY DEF IInv
<1>1. UNCHANGED <<aborted, reading, ctl, clearReads, running, gone>>
  BY DEF push, control
<1>2. /\ running /\ writer.pc = "idle" /\ decoded' \in 0..MaxFrames /\ Writer \notin asleep
  BY FrameQueueAssumption DEF push, TypeOK, SlotInv
<1>3. CASE hasSpace /\ PushFrame(decoded')
  BY <1>1, <1>2, <1>3, PushFrameInv
<1>4. CASE /\ ~hasSpace /\ asleep' = asleep \cup {Writer} /\ UNCHANGED ring
           /\ writer' = [pc |-> "waitPush", slot |-> 0, frame |-> decoded']
  <2>1. UNCHANGED <<slots, allocated, head, tail, size, maxSize>>
    BY <1>4 DEF ring
  <2>2. RingConsistent' /\ NoLostWakeup'
    BY <1>1, <1>4, <2>1, FrameQueueAssumption, WakeupFrame DEF RingConsistent
  <2>3. TypeOK'
    BY <1>1, <1>2, <1>4, <2>1, SMTT(60) DEF TypeOK
  <2>4. SlotInv'
    BY <1>1, <1>2, <1>4, <2>1 DEF SlotInv, HoldsSlot
  <2> QED
    BY <2>2, <2>3, <2>4 DEF IInv
<1> QED
  BY <1>3, <1>4 DEF push

\* A decoder that wakes up tests its predicate again before it takes a slot.
LEMMA WriterWokenInv == IInv /\ WriterWoken => IInv'
<1> SUFFICES ASSUME TypeOK, RingConsistent, NoLostWakeup, SlotInv, WriterWoken
             PROVE  IInv'
  BY DEF IInv
<1>1. UNCHANGED <<aborted, reading, ctl, clearReads, running, gone, decoded>>
  BY DEF WriterWoken, control
<1>2. /\ running /\ writer.pc \in {"waitSlot", "waitPush"} /\ Writer \notin asleep
      /\ writer.frame \in 0..MaxFrames /\ decoded' \in 0..MaxFrames
  BY <1>1 DEF WriterWoken, SlotInv, TypeOK
<1>3. CASE hasSpace /\ TakeSlot(writer.frame) /\ UNCHANGED <<ring, asleep>>
  <2>1. UNCHANGED <<slots, allocated, head, tail, size, maxSize, asleep>>
    BY <1>3 DEF ring
  <2>2. RingConsistent' /\ NoLostWakeup'
    BY <1>1, <2>1, WakeupFrame, SMTT(60) DEF RingConsistent
  <2>3. TypeOK'
    BY <1>1, <1>2, <1>3, <2>1, TakeSlotInv, SMTT(60) DEF TypeOK
  <2>4. SlotInv'
    BY <1>1, <1>2, <1>3, <2>1, TakeSlotInv DEF SlotInv, HoldsSlot
  <2> QED
    BY <2>2, <2>3, <2>4 DEF IInv
<1>4. CASE hasSpace /\ PushFrame(writer.frame)
  BY <1>1, <1>2, <1>4, PushFrameInv
<1>5. CASE ~hasSpace /\ asleep' = asleep \cup {Writer} /\ UNCHANGED <<ring, writer>>
  <2>1. UNCHANGED <<slots, allocated, head, tail, size, maxSize, writer>>
    BY <1>5 DEF ring
  <2>2. RingConsistent' /\ NoLostWakeup'
    BY <1>1, <1>5, <2>1, FrameQueueAssumption, WakeupFrame DEF RingConsistent
  <2>3. TypeOK' /\ SlotInv'
    BY <1>1, <1>2, <1>5, <2>1 DEF TypeOK, SlotInv, HoldsSlot
  <2> QED
    BY <2>2, <2>3 DEF IInv
<1> QED
  BY <1>3, <1>4, <1>5 DEF WriterWoken
-----------------------------------------------------------------------------
(* The readers' steps. *)

\* pop once its wait is over.
LEMMA PopFrameInv ==
    ASSUME TypeOK, RingConsistent, NoLostWakeup, SlotInv, NEW r \in Readers,
           PopFrame(r),
           UNCHANGED <<aborted, writer, ctl, clearReads, running, decoded, gone>>
    PROVE  IInv'
<1>1. reading' \in [Readers -> {"no", "forever", "timed"}]
  BY DEF PopFrame, TypeOK
<1>2. CASE asleep' = asleep \ {r} /\ UNCHANGED <<slots, allocated, head, tail, size, maxSize>>
  <2>1. TypeOK'
    BY <1>1, <1>2 DEF TypeOK
  <2>2. RingConsistent' /\ NoLostWakeup'
    BY <1>2, WakeupFrame DEF RingConsistent
  <2>3. SlotInv'
    BY <1>2 DEF SlotInv, HoldsSlot
  <2> QED
    BY <2>1, <2>2, <2>3 DEF IInv
<1>3. CASE /\ canPop /\ slots' = [slots EXCEPT ![head] = 0] /\ head' = (head + 1) % maxSize
           /\ size' = size - 1 /\ asleep' = {} /\ UNCHANGED <<allocated, tail, maxSize>>
  <2>1. size > 0
    BY <1>3, Bounds DEF canPop
  <2>2. RingConsistent' /\ head' \in 0..(maxSize - 1) /\ size' \in 0..maxSize
    BY <1>3, <2>1, RemoveRing
  <2>3. TypeOK'
    BY <1>1, <1>3, <2>2, FrameQueueAssumption, SMTT(60) DEF TypeOK
  <2>4. NoLostWakeup'
    BY <1>3 DEF NoLostWakeup
  <2>5. HoldsSlot' => size' = 0 \/ (writer'.slot = tail' /\ size' < maxSize')
    BY <1>3, <2>1, Bounds DEF SlotInv, HoldsSlot
  <2>6. SlotInv'
    BY <1>3, <2>5 DEF SlotInv, HoldsSlot
  <2> QED
    BY <2>2, <2>3, <2>4, <2>6 DEF IInv
<1> QED
  BY <1>2, <1>3 DEF PopFrame, ring, notifyWaiters

\* A pop that goes to sleep, or gives up, leaves the ring alone.
LEMMA WaitInv ==
    ASSUME TypeOK, RingConsistent, NoLostWakeup, SlotInv, NEW r \in Readers,
           reading' \in [Readers -> {"no", "forever", "timed"}],
           asleep' = asleep \ {r} \/ (~hasData /\ asleep' = asleep \cup {r}),
           UNCHANGED ring,
           UNCHANGED <<aborted, writer, ctl, clearReads, running, decoded, gone>>
    PROVE  IInv'
<1>1. UNCHANGED <<slots, allocated, head, tail, size, maxSize>>
  BY DEF ring
<1>2. TypeOK'
  BY <1>1 DEF TypeOK
<1>3. RingConsistent' /\ NoLostWakeup'
  BY <1>1, FrameQueueAssumption, WakeupFrame DEF RingConsistent
<1>4. SlotInv'
  BY <1>1, FrameQueueAssumption DEF SlotInv, HoldsSlot
<1> QED
  BY <1>2, <1>3, <1>4 DEF IInv

\* A reader removes the head slot or sleeps; the decoder's slot is the tail and stays.
LEMMA ReaderInv == ASSUME NEW r \in Readers PROVE IInv /\ ReaderStep(r) => IInv'
<1> SUFFICES ASSUME TypeOK, RingConsistent, NoLostWakeup, SlotInv, ReaderStep(r)
             PROVE  IInv'
  BY DEF IInv
<1>1. ASSUME NEW mode \in {"forever", "timed"}, pop(r, mode) PROVE IInv'
  <2>1. UNCHANGED <<aborted, writer, ctl, clearReads, running, decoded, gone>>
    BY <1>1 DEF pop, control
  <2>2. CASE PopFrame(r)
    BY <2>1, <2>2, PopFrameInv
  <2>3. CASE /\ ~hasData /\ reading' = [reading EXCEPT ![r] = mode]
             /\ asleep' = asleep \cup {r} /\ UNCHANGED ring
    <3>1. reading' \in [Readers -> {"no", "forever", "timed"}]
      BY <2>3 DEF TypeOK
    <3> QED
      BY <2>1, <2>3, <3>1, WaitInv
  <2> QED
    BY <1>1, <2>2, <2>3 DEF pop
<1>2. ASSUME ReaderWoken(r) PROVE IInv'
  <2>1. UNCHANGED <<aborted, writer, ctl, clearReads, running, decoded, gone>>
    BY <1>2 DEF ReaderWoken, control
  <2>2. CASE PopFrame(r)
    BY <2>1, <2>2, PopFrameInv
  <2>3. CASE ~hasData /\ asleep' = asleep \cup {r} /\ UNCHANGED <<ring, reading>>
    <3>1. reading' \in [Readers -> {"no", "forever", "timed"}]
      BY <2>3 DEF TypeOK
    <3> QED
      BY <2>1, <2>3, <3>1, WaitInv
  <2> QED
    BY <1>2, <2>2, <2>3 DEF ReaderWoken
<1>3. ASSUME PopTimeout(r) PROVE IInv'
  <2>1. UNCHANGED <<aborted, writer, ctl, clearReads, running, decoded, gone>>
    BY <1>3 DEF PopTimeout, control
  <2>2. CASE PopFrame(r)
    BY <2>1, <2>2, PopFrameInv
  <2>3. CASE /\ reading' = [reading EXCEPT ![r] = "no"] /\ asleep' = asleep \ {r}
             /\ UNCHANGED ring
    <3>1. reading' \in [Readers -> {"no", "forever", "timed"}]
      BY <2>3 DEF TypeOK
    <3> QED
      BY <2>1, <2>3, <3>1, WaitInv
  <2> QED
    BY <1>3, <2>2, <2>3 DEF PopTimeout
<1> QED
  BY <1>1, <1>2, <1>3 DEF ReaderStep
-----------------------------------------------------------------------------
(* The controller's steps. *)

\* start, stop and the steps of clear() outside mutex_ leave the ring alone.
LEMMA FlagsInv ==
    IInv /\ (start \/ stop \/ Join \/ clear \/ \E what \in {"indices", "size"} : ClearCheck(what))
      => IInv'
<1> SUFFICES ASSUME TypeOK, RingConsistent, NoLostWakeup, SlotInv,
                    start \/ stop \/ Join \/ clear \/ \E what \in {"indices", "size"} : ClearCheck(what)
             PROVE  IInv'
  BY SMTT(60) DEF IInv
<1>1. UNCHANGED <<slots, allocated, head, tail, size, maxSize, asleep, writer, reading, decoded>>
  BY DEF start, stop, Join, clear, ClearCheck, ring
<1>2. RingConsistent'
  BY <1>1 DEF RingConsistent
<1>3. NoLostWakeup'
  BY <1>1 DEF NoLostWakeup, hasSpace, hasData, canPop, start, stop, Join, clear, ClearCheck
<1>4. (writer.pc # "idle" => running)'
  BY <1>1 DEF SlotInv, start, stop, Join, clear, ClearCheck
<1>5. SlotInv'
  BY <1>1, <1>4 DEF SlotInv, HoldsSlot
<1>6. aborted' \in BOOLEAN /\ running' \in BOOLEAN
  BY Zenon DEF TypeOK, start, stop, Join, clear, ClearCheck
<1>7. ctl' \in {"idle", "notify", "join", "clear"} /\ clearReads' \subseteq {"indices", "size"}
  BY ZenonT(60) DEF TypeOK, start, stop, Join, clear, ClearCheck
<1>8. gone' \subseteq 0..MaxFrames
  <2>1. CASE clear
    <3>1. \A i \in Poppable : slots[i] \in 0..MaxFrames
      <4> SUFFICES ASSUME NEW j \in 0..(size - 1)
                   PROVE  slots[(head + j) % maxSize] \in 0..MaxFrames
        BY DEF Poppable, At
      <4>1. maxSize \in Nat \ {0} /\ head \in 0..(maxSize - 1) /\ j \in 0..maxSize
        BY Bounds
      <4>2. (head + j) % maxSize \in 0..(maxSize - 1)
        BY <4>1, ModLap
      <4> QED
        BY <4>2 DEF TypeOK
    <3> QED
      BY <2>1, <3>1 DEF clear
  <2>2. CASE ~clear
    BY <2>2, ZenonT(60) DEF TypeOK, start, stop, Join, ClearCheck
  <2> QED
    BY <2>1, <2>2
<1>9. TypeOK'
  BY <1>1, <1>6, <1>7, <1>8 DEF TypeOK
<1> QED
  BY <1>2, <1>3, <1>5, <1>9 DEF IInv

\* The notification of setAbortStatus leaves nobody asleep.
LEMMA AbortNotifyInv == IInv /\ AbortNotify => IInv'
<1> SUFFICES ASSUME TypeOK, RingConsistent, NoLostWakeup, SlotInv, AbortNotify
             PROVE  IInv'
  BY DEF IInv
<1>1. /\ UNCHANGED <<slots, allocated, head, tail, size, maxSize, aborted, writer, reading,
                     clearReads, running, decoded, gone>>
      /\ asleep' = {} /\ ctl' = "join"
  BY DEF AbortNotify, ring, notifyWaiters
<1>2. TypeOK'
  BY <1>1 DEF TypeOK
<1>3. RingConsistent' /\ NoLostWakeup' /\ SlotInv'
  BY <1>1 DEF RingConsistent, NoLostWakeup, SlotInv, HoldsSlot
<1> QED
  BY <1>2, <1>3 DEF IInv

\* clear() under mutex_: the decoder may hold a slot, but the ring is empty.
LEMMA ClearBodyInv == IInv /\ ClearBody => IInv'
<1> SUFFICES ASSUME TypeOK, RingConsistent, NoLostWakeup, SlotInv, ClearBody
             PROVE  IInv'
  BY DEF IInv
<1>1. /\ UNCHANGED <<allocated, maxSize, aborted, writer, reading, clearReads, running, decoded, gone>>
      /\ head' = 0 /\ tail' = 0 /\ size' = 0 /\ asleep' = {} /\ ctl' = "idle"
  BY DEF ClearBody, notifyWaiters
<1>2. slots' \in [0..(maxSize - 1) -> 0..MaxFrames]
  BY FrameQueueAssumption DEF ClearBody, TypeOK
<1>3. /\ RingConsistent' /\ head' \in 0..(maxSize - 1) /\ tail' \in 0..(maxSize - 1)
      /\ size' \in 0..maxSize
  BY <1>1, ResetRing
<1>4. TypeOK'
  BY <1>1, <1>2, <1>3 DEF TypeOK
<1>5. NoLostWakeup' /\ SlotInv'
  BY <1>1 DEF NoLostWakeup, SlotInv, HoldsSlot
<1> QED
  BY <1>3, <1>4, <1>5 DEF IInv

\* A resize refills the ring from its first slot and keeps the indices consistent.
LEMMA setMaxCountInv == ASSUME NEW n \in Sizes PROVE IInv /\ setMaxCount(n) => IInv'
<1> SUFFICES ASSUME TypeOK, RingConsistent, NoLostWakeup, SlotInv, setMaxCount(n)
             PROVE  IInv'
  BY DEF IInv
<1> DEFINE kept == IF size <= n THEN size ELSE n
<1>1. /\ UNCHANGED <<aborted, writer, reading, decoded, ctl, clearReads, running, gone>>
      /\ slots' = [i \in 0..(n - 1) |-> IF i < kept THEN slots[(head + i) % maxSize] ELSE 0]
      /\ head' = 0 /\ tail' = kept % n /\ size' = kept /\ maxSize' = n
      /\ allocated' = TRUE /\ asleep' = {} /\ ~running
  BY DEF setMaxCount, control, notifyWaiters, At
<1>2. /\ n \in Nat \ {0} /\ kept \in 0..n /\ kept <= size
      /\ maxSize \in Nat \ {0} /\ head \in 0..(maxSize - 1) /\ size \in 0..maxSize
  BY Bounds, FrameQueueAssumption
<1>3. (0 + kept) % n = IF 0 + kept < n THEN 0 + kept ELSE 0 + kept - n
  BY <1>2, 0 \in 0..(n - 1), ModLap, ZenonT(60)
<1>4. kept % n = (0 + kept) % n /\ kept % n \in 0..(n - 1)
  BY <1>2, <1>3
<1>5. RingConsistent'
  BY <1>1, <1>4 DEF RingConsistent
<1>6. slots' \in [0..(n - 1) -> 0..MaxFrames]
  <2> SUFFICES ASSUME NEW i \in 0..(n - 1)
               PROVE  (IF i < kept THEN slots[(head + i) % maxSize] ELSE 0) \in 0..MaxFrames
    BY <1>1
  <2>1. CASE i < kept
    <3>1. i \in 0..maxSize
      BY <1>2, <2>1
    <3>2. (head + i) % maxSize \in 0..(maxSize - 1)
      BY <1>2, <3>1, ModLap
    <3> QED
      BY <2>1, <3>2 DEF TypeOK
  <2>2. CASE ~(i < kept)
    BY <2>2, FrameQueueAssumption
  <2> QED
    BY <2>1, <2>2
<1>7. allocated' \in BOOLEAN
  BY <1>1, Zenon
<1>8. head' \in 0..(n - 1) /\ tail' \in 0..(n - 1) /\ size' \in 0..n
  BY <1>1, <1>2, <1>4, SMTT(60)
<1>9. TypeOK'
  <2> HIDE DEF kept
  <2> QED
    BY <1>1, <1>6, <1>7, <1>8, SMTT(60) DEF TypeOK
<1>10. writer.pc = "idle"
  BY <1>1 DEF SlotInv
<1>11. NoLostWakeup' /\ SlotInv'
  BY <1>1, <1>10 DEF NoLostWakeup, SlotInv, HoldsSlot
<1> QED
  BY <1>5, <1>9, <1>11 DEF IInv

\* uninit and init run without a decoder thread; a reader that they do not
\* notify was asleep on an empty ring already.
LEMMA ReleaseInv == IInv /\ (uninit \/ init) => IInv'
<1> SUFFICES ASSUME TypeOK, RingConsistent, NoLostWakeup, SlotInv, uninit \/ init
             PROVE  IInv'
  BY DEF IInv
<1>1. /\ UNCHANGED <<maxSize, aborted, writer, reading, ctl, clearReads, running, decoded, gone>>
      /\ head' = 0 /\ tail' = 0 /\ size' = 0 /\ slots' = EmptyRing(maxSize)
      /\ ctl = "idle" /\ ~running /\ (asleep' = {} \/ asleep' = asleep)
  BY DEF uninit, init, control, notifyWaiters
<1>2. allocated' \in BOOLEAN
  BY Zenon DEF uninit, init
<1>3. slots' \in [0..(maxSize - 1) -> 0..MaxFrames]
  BY <1>1, FrameQueueAssumption DEF EmptyRing
<1>4. /\ RingConsistent' /\ head' \in 0..(maxSize - 1) /\ tail' \in 0..(maxSize - 1)
      /\ size' \in 0..maxSize
  BY <1>1, ResetRing, SMTT(60)
<1>5. TypeOK'
  BY <1>1, <1>2, <1>3, <1>4 DEF TypeOK
<1>6. SlotInv'
  BY <1>1 DEF SlotInv, HoldsSlot
<1>7. Writer \notin asleep'
  BY <1>1 DEF SlotInv
<1>8. ~canPop'
  BY <1>1 DEF canPop
<1>9. NoLostWakeup'
  BY <1>1, <1>7, <1>8 DEF NoLostWakeup, hasData
<1> QED
  BY <1>4, <1>5, <1>6, <1>9 DEF IInv
-----------------------------------------------------------------------------
\* Every step preserves the invariant.
LEMMA InvNext == IInv /\ [Next]_vars => IInv'
<1> SUFFICES ASSUME IInv, [Next]_vars PROVE IInv'
  OBVIOUS
<1>1. CASE WriterStep
  BY <1>1, getWritableFrameInv, WriteFrameInv, DropFrameInv, commitFrameInv, pushInv,
     WriterWokenInv DEF WriterStep
<1>2. CASE \E r \in Readers : ReaderStep(r)
  BY <1>2, ReaderInv
<1>3. CASE ControllerStep
  BY <1>3, FlagsInv, AbortNotifyInv, ClearBodyInv, setMaxCountInv, ReleaseInv, SMTT(60) DEF ControllerStep
<1>4. CASE UNCHANGED vars
  BY <1>4 DEF vars, IInv, TypeOK, RingConsistent, NoLostWakeup, SlotInv, HoldsSlot,
     hasSpace, hasData, canPop
<1> QED
  BY <1>1, <1>2, <1>3, <1>4 DEF Next

\* The inductive invariant holds in every reachable state.
THEOREM Invariance == Spec => []IInv
  BY InitInv, InvNext, PTL DEF Spec

\* Every member of FrameQueue keeps its type: in particular size_ never exceeds
\* the capacity although commitFrame increments it unchecked.
THEOREM TypeCorrect == Spec => []TypeOK
<1>1. IInv => TypeOK
  BY DEF IInv
<1> QED
  BY <1>1, Invariance, PTL

\* head_, tail_ and size_ agree after every interleaving of commit, pop, clear,
\* resize, init and uninit.
THEOREM RingCorrect == Spec => []RingConsistent
<1>1. IInv => RingConsistent
  BY DEF IInv
<1> QED
  BY <1>1, Invariance, PTL

\* The decoder's unlocked write through getWritableFrame's pointer never
\* touches a slot that pop can return.
THEOREM SlotExclusive == Spec => []WriterOwnsSlot
<1>1. IInv => WriterOwnsSlot
  BY SlotIsOutside DEF IInv
<1> QED
  BY <1>1, Invariance, PTL

\* With one condition variable for writer and readers, nobody sleeps through
\* the notification it waits for.
THEOREM NoLostWakeups == Spec => []NoLostWakeup
<1>1. IInv => NoLostWakeup
  BY DEF IInv
<1> QED
  BY <1>1, Invariance, PTL
-----------------------------------------------------------------------------
(* What clear() removes. *)

\* No slot, or no slot outside the poppable part, holds a frame that was in the
\* queue when clear() was last called.
Clean == \A i \in DOMAIN slots : slots[i] \in gone => slots[i] = 0
CleanOutside == \A i \in DOMAIN slots \ Poppable : slots[i] \in gone => slots[i] = 0

\* Frames are numbered in the order of decoding, and no frame is in two slots.
FramesDistinct ==
    /\ gone \subseteq 0..decoded
    /\ \A i \in DOMAIN slots : slots[i] <= decoded
    /\ \A i, j \in DOMAIN slots : slots[i] = slots[j] /\ i # j => slots[i] = 0

\* The decoder's frame is the youngest one, and is in no slot but the decoder's.
FrameFresh ==
    writer.pc # "idle" =>
      /\ decoded > 0 /\ writer.frame = decoded /\ decoded \notin gone
      /\ \A i \in DOMAIN slots : slots[i] = decoded <=> writer.pc = "written" /\ i = writer.slot

\* How far a clear() has come, its two unlocked reads included: once size_ was
\* seen to be 0 the older frames are gone, whatever is committed after it.
ClearProgress ==
    /\ ctl # "clear" => Clean
    /\ ctl = "clear" => CleanOutside /\ (clearReads = {"indices"} => Clean)

FrameInv == FramesDistinct /\ FrameFresh /\ ClearProgress

\* The poppable slots are slots of the ring; head_ is the first of them.
LEMMA PoppableSlots ==
    ASSUME TypeOK
    PROVE  /\ DOMAIN slots = 0..(maxSize - 1)
           /\ \A i \in 0..(size - 1) : At(i) \in 0..(maxSize - 1)
           /\ Poppable \subseteq 0..(maxSize - 1)
           /\ size = 0 => Poppable = {}
           /\ At(0) = head
           /\ size > 0 => head \in Poppable
<1>0. /\ maxSize \in Nat \ {0} /\ head \in 0..(maxSize - 1) /\ size \in 0..maxSize
  BY Bounds
<1>1. DOMAIN slots = 0..(maxSize - 1)
  BY DEF TypeOK
<1>2. ASSUME NEW i \in 0..(size - 1)
      PROVE  At(i) \in 0..(maxSize - 1)
  <2>1. i \in 0..maxSize
    BY <1>0
  <2> QED
    BY <1>0, <2>1, ModLap DEF At
<1>3. At(0) = head
  BY <1>0, 0 \in 0..maxSize, ModLap DEF At
<1>4. size > 0 => head \in Poppable
  BY <1>0, <1>3 DEF Poppable
<1> QED
  BY <1>0, <1>1, <1>2, <1>3, <1>4 DEF Poppable

\* Two places of the queue are two slots.
LEMMA AtInjective ==
    ASSUME TypeOK, NEW i \in 0..(size - 1), NEW j \in 0..(size - 1), At(i) = At(j)
    PROVE  i = j
<1>0. /\ maxSize \in Nat \ {0} /\ head \in 0..(maxSize - 1) /\ size \in 0..maxSize
      /\ i \in 0..maxSize /\ j \in 0..maxSize
  BY Bounds
<1>1. (head + i) % maxSize = IF head + i < maxSize THEN head + i ELSE head + i - maxSize
  BY <1>0, ModLap, Zenon
<1>2. (head + j) % maxSize = IF head + j < maxSize THEN head + j ELSE head + j - maxSize
  BY <1>0, ModLap, Zenon
<1>3. i < maxSize /\ j < maxSize
  BY <1>0
<1>4. (IF head + i < maxSize THEN head + i ELSE head + i - maxSize)
        = (IF head + j < maxSize THEN head + j ELSE head + j - maxSize)
  BY <1>1, <1>2 DEF At
<1> QED
  BY <1>0, <1>3, <1>4, SMT

\* The poppable slots after a commit and after a pop.
LEMMA PoppableGrows ==
    ASSUME TypeOK, size' = size + 1, UNCHANGED <<head, maxSize>>
    PROVE  Poppable \subseteq Poppable'
<1>1. 0..(size - 1) \subseteq 0..(size' - 1)
  BY Bounds
<1> QED
  BY <1>1 DEF Poppable, At

\* A pop takes the slot at head_ from the poppable ones and moves the others up.
LEMMA PoppableShrinks ==
    ASSUME TypeOK, size > 0, head' = (head + 1) % maxSize, size' = size - 1, UNCHANGED maxSize
    PROVE  /\ Poppable \subseteq Poppable' \cup {head}
           /\ \A i \in 0..(size' - 1) : At(i)' = At(i + 1)
<1>0. /\ maxSize \in Nat \ {0} /\ head \in 0..(maxSize - 1) /\ size \in 1..maxSize
  BY Bounds
<1>1. head' = IF head + 1 < maxSize THEN head + 1 ELSE head + 1 - maxSize
  BY <1>0, 1 \in 0..maxSize, ModLap, Zenon
<1>2. head' \in 0..(maxSize - 1)
  BY <1>0, <1>1
<1>3. ASSUME NEW i \in 0..(size' - 1)
      PROVE  At(i)' = At(i + 1)
  <2>1. i \in 0..maxSize /\ i + 1 \in 0..maxSize
    BY <1>0
  <2>2. (head' + i) % maxSize = IF head' + i < maxSize THEN head' + i ELSE head' + i - maxSize
    BY <1>0, <1>2, <2>1, ModLap, Zenon
  <2>3. (head + (i + 1)) % maxSize
          = IF head + (i + 1) < maxSize THEN head + (i + 1) ELSE head + (i + 1) - maxSize
    BY <1>0, <2>1, ModLap, Zenon
  <2>4. (head' + i) % maxSize = (head + (i + 1)) % maxSize
    BY <1>0, <1>1, <2>1, <2>2, <2>3
  <2> QED
    BY <2>4 DEF At
<1>4. ASSUME NEW j \in 0..(size - 1)
      PROVE  At(j) \in Poppable' \cup {head}
  <2>1. CASE j = 0
    <3>1. At(0) = head
      BY <1>0, 0 \in 0..maxSize, ModLap DEF At
    <3> QED
      BY <2>1, <3>1
  <2>2. CASE j # 0
    <3>1. j - 1 \in 0..(size' - 1) /\ j = (j - 1) + 1
      BY <1>0, <2>2
    <3>2. At(j) = At(j - 1)'
      BY <1>3, <3>1, SMTT(60)
    <3> QED
      BY <3>1, <3>2 DEF Poppable
  <2> QED
    BY <2>1, <2>2
<1> QED
  BY <1>3, <1>4 DEF Poppable
-----------------------------------------------------------------------------
\* Nothing is poppable, committed or cleared initially.
LEMMA InitFrames == Init => FrameInv
<1> SUFFICES ASSUME Init PROVE FrameInv
  OBVIOUS
<1>1. DOMAIN slots = 0..(maxSize - 1) /\ \A i \in DOMAIN slots : slots[i] = 0
  BY DEF Init, EmptyRing
<1> QED
  BY <1>1 DEF Init, FrameInv, FramesDistinct, FrameFresh, ClearProgress, Clean, CleanOutside,
     WriterIdle

\* A step that leaves the slots, the decoder and the controller alone, and takes
\* nothing out of the poppable part.
LEMMA FramesKept ==
    ASSUME FrameInv, UNCHANGED <<slots, gone, decoded, ctl, clearReads>>,
           writer' = writer \/ writer'.pc = "idle", Poppable \subseteq Poppable'
    PROVE  FrameInv'
<1>1. FramesDistinct'
  BY DEF FrameInv, FramesDistinct
<1>2. FrameFresh'
  BY DEF FrameInv, FrameFresh
<1>3. ClearProgress'
  BY DEF FrameInv, ClearProgress, Clean, CleanOutside
<1> QED
  BY <1>1, <1>2, <1>3 DEF FrameInv

\* The next frame is decoded; it is in no slot yet.
LEMMA FrameDecoded ==
    ASSUME TypeOK, FrameInv, decoded' = decoded + 1,
           UNCHANGED <<slots, gone, ctl, clearReads, head, size, maxSize>>,
           writer'.pc = "idle" \/ (writer'.pc # "written" /\ writer'.frame = decoded')
    PROVE  FrameInv'
<1>0. decoded \in Nat /\ Poppable' = Poppable /\ \A i \in DOMAIN slots : slots[i] \in Nat
  BY FrameQueueAssumption DEF TypeOK, Poppable, At
<1>1. FramesDistinct'
  BY <1>0 DEF FrameInv, FramesDistinct
<1>2. FrameFresh'
  BY <1>0 DEF FrameInv, FrameFresh, FramesDistinct
<1>3. ClearProgress'
  BY <1>0 DEF FrameInv, ClearProgress, Clean, CleanOutside
<1> QED
  BY <1>1, <1>2, <1>3 DEF FrameInv

\* The decoder's frame is put in a slot outside the poppable part, by the
\* unlocked write or by push.
LEMMA FrameStored ==
    ASSUME TypeOK, NEW f \in Nat \ {0}, NEW k,
           FramesDistinct, ClearProgress, f \notin gone, f <= decoded',
           \A i \in DOMAIN slots : slots[i] # f,
           decoded' \in Nat, decoded <= decoded',
           slots' = [slots EXCEPT ![k] = f], Poppable \subseteq Poppable',
           UNCHANGED <<gone, ctl, clearReads>>
    PROVE  FramesDistinct' /\ ClearProgress'
<1>0. /\ decoded \in Nat /\ DOMAIN slots' = DOMAIN slots
      /\ \A i \in DOMAIN slots : slots[i] \in Nat
      /\ \A i \in DOMAIN slots : slots'[i] = IF i = k THEN f ELSE slots[i]
  BY FrameQueueAssumption DEF TypeOK
<1>1. FramesDistinct'
  BY <1>0 DEF FramesDistinct
<1>2. (Clean => Clean') /\ (CleanOutside => CleanOutside')
  BY <1>0 DEF Clean, CleanOutside
<1>3. ClearProgress'
  BY <1>2 DEF ClearProgress
<1> QED
  BY <1>1, <1>3

\* The decoder's side: decoding, the unlocked write, drop, commit and push.
LEMMA WriterFrames == IInv /\ FrameInv /\ WriterStep => FrameInv'
<1> SUFFICES ASSUME TypeOK, SlotInv, FrameInv, WriterStep
             PROVE  FrameInv'
  BY DEF IInv
<1>1. CASE getWritableFrame
  <2>1. /\ decoded' = decoded + 1
        /\ UNCHANGED <<slots, gone, ctl, clearReads, head, size, maxSize>>
    BY <1>1, SMTT(60) DEF getWritableFrame, ring, control
  <2>2. writer'.pc = "idle" \/ (writer'.pc # "written" /\ writer'.frame = decoded')
    BY <1>1 DEF getWritableFrame, TakeSlot, WriterIdle
  <2> QED
    BY <2>1, <2>2, FrameDecoded, SMTT(60)
<1>2. CASE WriteFrame
  <2>1. /\ writer.pc = "writing" /\ slots' = [slots EXCEPT ![writer.slot] = writer.frame]
        /\ writer' = [writer EXCEPT !.pc = "written"]
        /\ UNCHANGED <<gone, ctl, clearReads, head, size, maxSize, decoded>>
    BY <1>2 DEF WriteFrame, control
  <2>2. /\ decoded \in Nat \ {0} /\ writer.frame = decoded /\ decoded \notin gone
        /\ \A i \in DOMAIN slots : slots[i] # decoded
    BY <2>1 DEF FrameInv, FrameFresh, TypeOK
  <2>3. Poppable' = Poppable
    BY <2>1 DEF Poppable, At
  <2>4. FramesDistinct' /\ ClearProgress'
    <3>1. /\ decoded' \in Nat /\ decoded <= decoded' /\ decoded <= decoded' /\ decoded' = decoded
          /\ slots' = [slots EXCEPT ![writer.slot] = decoded] /\ Poppable \subseteq Poppable'
          /\ UNCHANGED <<gone, ctl, clearReads>> /\ FramesDistinct /\ ClearProgress
      BY <2>1, <2>2, <2>3 DEF FrameInv
    <3> QED
      BY <2>2, <3>1, FrameStored, Zenon
  <2>5. /\ writer'.pc = "written" /\ writer'.slot = writer.slot /\ writer'.frame = writer.frame
        /\ DOMAIN slots' = DOMAIN slots
        /\ \A i \in DOMAIN slots : slots'[i] = IF i = writer.slot THEN decoded ELSE slots[i]
    BY <2>1, <2>2 DEF TypeOK
  <2>6. FrameFresh'
    BY <2>1, <2>2, <2>5 DEF FrameFresh
  <2> QED
    BY <2>4, <2>6 DEF FrameInv
<1>3. CASE DropFrame
  <2>1. UNCHANGED <<slots, gone, decoded, ctl, clearReads, head, size, maxSize>> /\ writer'.pc = "idle"
    BY <1>3 DEF DropFrame, ring, control, WriterIdle
  <2>2. Poppable' = Poppable
    BY <2>1 DEF Poppable, At
  <2> QED
    BY <2>1, <2>2, FramesKept
<1>4. CASE commitFrame
  <2>1. /\ UNCHANGED <<slots, gone, decoded, ctl, clearReads, head, maxSize>> /\ size' = size + 1
        /\ writer'.pc = "idle"
    BY <1>4, SMTT(60) DEF commitFrame, control, WriterIdle
  <2> QED
    BY <2>1, PoppableGrows, FramesKept
<1>5. ASSUME NEW f \in Nat \ {0}, PushFrame(f), f \notin gone, f = decoded', decoded <= decoded',
             \A i \in DOMAIN slots : slots[i] # f, UNCHANGED <<gone, ctl, clearReads>>
      PROVE  FrameInv'
  <2>0. writer'.pc = "idle"
    BY <1>5 DEF PushFrame, WriterIdle
  <2>1. CASE UNCHANGED ring
    <3>1. UNCHANGED <<slots, head, size, maxSize>>
      BY <2>1 DEF ring
    <3>2. Poppable' = Poppable
      BY <3>1 DEF Poppable, At
    <3>3. decoded \in Nat /\ \A i \in DOMAIN slots : slots[i] \in Nat
      BY FrameQueueAssumption DEF TypeOK
    <3>4. FramesDistinct'
      BY <1>5, <3>1, <3>3, SMTT(60) DEF FrameInv, FramesDistinct
    <3>5. FrameFresh' /\ ClearProgress'
      BY <1>5, <2>0, <3>1, <3>2 DEF FrameInv, FrameFresh, ClearProgress, Clean, CleanOutside
    <3> QED
      BY <3>4, <3>5 DEF FrameInv
  <2>2. CASE slots' = [slots EXCEPT ![tail] = f] /\ size' = size + 1 /\ UNCHANGED <<head, maxSize>>
    <3>1. /\ FramesDistinct /\ ClearProgress /\ Poppable \subseteq Poppable'
          /\ decoded' \in Nat /\ f <= decoded'
      BY <1>5, <2>2, PoppableGrows DEF FrameInv
    <3>2. FramesDistinct' /\ ClearProgress'
      BY <1>5, <2>2, <3>1, FrameStored, Zenon
    <3>3. FrameFresh'
      BY <2>0 DEF FrameFresh
    <3> QED
      BY <3>2, <3>3 DEF FrameInv
  <2> QED
    BY <1>5, <2>1, <2>2, SMTT(60) DEF PushFrame, ring
<1>6. CASE push
  <2>1. decoded' = decoded + 1 /\ decoded \in Nat /\ UNCHANGED <<gone, ctl, clearReads>>
    BY <1>6 DEF push, control, TypeOK
  <2>2. CASE PushFrame(decoded')
    <3>1. decoded' \in Nat \ {0} /\ decoded' \notin gone /\ decoded <= decoded'
      BY <2>1 DEF FrameInv, FramesDistinct
    <3>2. \A i \in DOMAIN slots : slots[i] # decoded'
      BY <2>1, FrameQueueAssumption, SMTT(60) DEF FrameInv, FramesDistinct, TypeOK
    <3> QED
      BY <1>5, <2>1, <2>2, <3>1, <3>2
  <2>3. CASE UNCHANGED ring /\ writer' = [pc |-> "waitPush", slot |-> 0, frame |-> decoded']
    <3>1. UNCHANGED <<slots, head, size, maxSize>>
      BY <2>3 DEF ring
    <3> QED
      BY <2>1, <2>3, <3>1, FrameDecoded
  <2> QED
    BY <1>6, <2>2, <2>3, SMTT(60) DEF push
<1>7. CASE WriterWoken
  <2>1. writer.pc \in {"waitSlot", "waitPush"} /\ UNCHANGED <<gone, ctl, clearReads, decoded>>
    BY <1>7 DEF WriterWoken, control
  <2>2. /\ decoded \in Nat \ {0} /\ writer.frame = decoded /\ decoded \notin gone
        /\ \A i \in DOMAIN slots : slots[i] # decoded
    BY <2>1 DEF FrameInv, FrameFresh, TypeOK
  <2>3. CASE PushFrame(writer.frame)
    BY <1>5, <2>1, <2>2, <2>3
  <2>4. CASE UNCHANGED ring /\ (TakeSlot(writer.frame) \/ UNCHANGED writer)
    <3>1. UNCHANGED <<slots, head, size, maxSize>>
      BY <2>4 DEF ring
    <3>2. Poppable' = Poppable
      BY <3>1, SMTT(60) DEF Poppable, At
    <3>3. FramesDistinct' /\ ClearProgress'
      BY <2>1, <3>1, <3>2, SMTT(60) DEF FrameInv, FramesDistinct, ClearProgress, Clean, CleanOutside
    <3>4. writer'.pc = "idle" \/ (writer'.pc # "written" /\ writer'.frame = writer.frame)
      BY <2>1, <2>4 DEF TakeSlot, WriterIdle
    <3>5. FrameFresh'
      BY <2>1, <2>2, <3>1, <3>4, SMTT(60) DEF FrameFresh
    <3> QED
      BY <3>3, <3>5 DEF FrameInv
  <2> QED
    BY <1>7, <2>3, <2>4 DEF WriterWoken, ring
<1> QED
  BY <1>1, <1>2, <1>3, <1>4, <1>6, <1>7 DEF WriterStep

\* A pop empties the head slot and takes it out of the poppable part.
LEMMA ReaderFrames == ASSUME NEW r \in Readers PROVE IInv /\ FrameInv /\ ReaderStep(r) => FrameInv'
<1> SUFFICES ASSUME TypeOK, RingConsistent, SlotInv, FrameInv, ReaderStep(r)
             PROVE  FrameInv'
  BY SMTT(60) DEF IInv
<1>1. UNCHANGED <<writer, gone, ctl, clearReads, decoded>> /\ (PopFrame(r) \/ UNCHANGED ring)
  BY DEF ReaderStep, pop, ReaderWoken, PopTimeout, control, ring
<1>2. CASE UNCHANGED ring
  <2>1. UNCHANGED <<slots, head, size, maxSize>>
    BY <1>2 DEF ring
  <2>2. Poppable' = Poppable
    BY <2>1 DEF Poppable, At
  <2> QED
    BY <1>1, <2>1, <2>2, FramesKept
<1>3. CASE canPop /\ slots' = [slots EXCEPT ![head] = 0] /\ head' = (head + 1) % maxSize
           /\ size' = size - 1 /\ UNCHANGED <<tail, maxSize>>
  <2>0. size > 0
    BY <1>3, Bounds, SMTT(60) DEF canPop
  <2>1. /\ DOMAIN slots' = DOMAIN slots /\ decoded \in Nat
        /\ \A i \in DOMAIN slots : slots'[i] = IF i = head THEN 0 ELSE slots[i]
        /\ \A i \in DOMAIN slots : slots[i] \in Nat
    BY <1>3, FrameQueueAssumption DEF TypeOK
  <2>2. Poppable \subseteq Poppable' \cup {head}
    BY <1>3, <2>0, PoppableShrinks, SMTT(60)
  <2>3. FramesDistinct'
    <3>1. FramesDistinct
      BY DEF FrameInv
    <3>2. \A i \in DOMAIN slots : slots'[i] <= decoded
      BY <2>1, <3>1 DEF FramesDistinct
    <3>3. \A i, j \in DOMAIN slots : slots'[i] = slots'[j] /\ i # j => slots'[i] = 0
      BY <2>1, <3>1 DEF FramesDistinct
    <3> QED
      BY <1>1, <2>1, <3>1, <3>2, <3>3 DEF FramesDistinct
  <2>4. HoldsSlot => writer.slot # head
    <3>1. size \in Nat
      BY DEF TypeOK
    <3>2. head \in Poppable
      BY <2>0, <3>1, PoppableSlots DEF Poppable
    <3> QED
      BY <3>2, SlotIsOutside, Zenon DEF WriterOwnsSlot
  <2>5. FrameFresh'
    BY <1>1, <2>1, <2>4, SMTT(60) DEF FrameInv, FrameFresh, HoldsSlot
  <2>6. (Clean => Clean') /\ (CleanOutside => CleanOutside')
    BY <1>1, <2>1, <2>2 DEF Clean, CleanOutside
  <2>7. ClearProgress'
    BY <1>1, <2>6 DEF FrameInv, ClearProgress
  <2> QED
    BY <2>3, <2>5, <2>7 DEF FrameInv
<1> QED
  BY <1>1, <1>2, <1>3 DEF PopFrame

\* A resize moves the oldest frames to the front, each of them once.
LEMMA ResizeFrames ==
    ASSUME NEW n \in Sizes
    PROVE  IInv /\ FrameInv /\ setMaxCount(n) => FrameInv'
<1> SUFFICES ASSUME TypeOK, SlotInv, FrameInv, setMaxCount(n)
             PROVE  FrameInv'
  BY DEF IInv
<1> DEFINE kept == IF size <= n THEN size ELSE n
<1>1. /\ UNCHANGED <<writer, decoded, ctl, clearReads, gone>> /\ ~running /\ ctl = "idle"
      /\ slots' = [i \in 0..(n - 1) |-> IF i < kept THEN slots[At(i)] ELSE 0]
  BY SMTT(60) DEF setMaxCount, control
<1>2. /\ n \in Nat \ {0} /\ kept \in 0..n /\ kept <= size /\ decoded \in Nat
      /\ maxSize \in Nat \ {0} /\ head \in 0..(maxSize - 1) /\ size \in 0..maxSize
  BY Bounds, FrameQueueAssumption, SMTT(60) DEF TypeOK
<1>3. /\ DOMAIN slots' = 0..(n - 1) /\ DOMAIN slots = 0..(maxSize - 1)
      /\ \A i \in 0..(n - 1) : slots'[i] = IF i < kept THEN slots[At(i)] ELSE 0
  BY <1>1, PoppableSlots
<1>4. \A i \in 0..(n - 1) : i < kept => At(i) \in DOMAIN slots
  BY <1>2, <1>3, PoppableSlots
<1>5. ASSUME NEW i \in 0..(n - 1), NEW j \in 0..(n - 1), i < kept, j < kept, At(i) = At(j)
      PROVE  i = j
  <2>1. i \in 0..(size - 1) /\ j \in 0..(size - 1)
    BY <1>2, <1>5
  <2> QED
    BY <1>5, <2>1, AtInjective
<1> HIDE DEF kept
<1>6. FramesDistinct'
  <2>1. gone' \subseteq 0..decoded'
    BY <1>1, SMTT(60) DEF FrameInv, FramesDistinct
  <2>2. \A i \in DOMAIN slots' : slots'[i] <= decoded'
    BY <1>1, <1>2, <1>3, <1>4, SMTT(60) DEF FrameInv, FramesDistinct
  <2>3. ASSUME NEW i \in DOMAIN slots', NEW j \in DOMAIN slots', slots'[i] = slots'[j], i # j
        PROVE  slots'[i] = 0
    <3>1. i < kept /\ j < kept => At(i) # At(j)
      BY <1>3, <1>5, <2>3
    <3> QED
      BY <1>3, <1>4, <2>3, <3>1, SMTT(60) DEF FrameInv, FramesDistinct
  <2> QED
    BY <2>1, <2>2, <2>3 DEF FramesDistinct
<1>7. FrameFresh'
  BY <1>1, SMTT(60) DEF SlotInv, FrameFresh
<1>8. ClearProgress'
  BY <1>1, <1>3, <1>4 DEF FrameInv, ClearProgress, Clean
<1> QED
  BY <1>6, <1>7, <1>8 DEF FrameInv

\* The controller's other steps: what a clear() sees and does.
LEMMA ControllerFrames == IInv /\ FrameInv /\ ControllerStep => FrameInv'
<1> SUFFICES ASSUME IInv, TypeOK, RingConsistent, SlotInv, FrameInv, ControllerStep
             PROVE  FrameInv'
  BY SMTT(60) DEF IInv
<1>1. CASE start \/ stop \/ AbortNotify \/ Join
  <2>1. /\ UNCHANGED <<slots, head, size, maxSize, writer, decoded, gone, clearReads>>
        /\ ctl # "clear" /\ ctl' # "clear"
    BY <1>1, SMTT(60) DEF start, stop, AbortNotify, Join, ring
  <2> QED
    BY <2>1, SMTT(60) DEF FrameInv, FramesDistinct, FrameFresh, ClearProgress, Clean
<1>2. CASE clear
  <2>1. /\ UNCHANGED <<slots, head, size, maxSize, writer, decoded>>
        /\ ctl' = "clear" /\ clearReads' = {"indices", "size"}
        /\ gone' = {slots[i] : i \in Poppable}
    BY <1>2, ZenonT(60) DEF clear, ring
  <2>2. Poppable' = Poppable /\ Poppable \subseteq DOMAIN slots
    BY <2>1, PoppableSlots DEF Poppable, At
  <2>3. decoded \in Nat /\ \A i \in DOMAIN slots : slots[i] \in Nat
    BY FrameQueueAssumption, SMTT(60) DEF TypeOK
  <2>4. FramesDistinct'
    BY <2>1, <2>2, <2>3 DEF FrameInv, FramesDistinct
  <2>5. HoldsSlot => writer.slot \notin Poppable
    BY SlotIsOutside, SMTT(60) DEF WriterOwnsSlot
  <2>6. FrameFresh'
    BY <2>1, <2>2, <2>5, SMTT(60) DEF FrameInv, FrameFresh, HoldsSlot
  <2>7. CleanOutside'
    BY <2>1, <2>2 DEF FrameInv, FramesDistinct, CleanOutside
  <2>8. clearReads' # {"indices"}
    BY <2>1
  <2> QED
    BY <2>1, <2>4, <2>6, <2>7, <2>8, SMTT(60) DEF FrameInv, ClearProgress
<1>3. ASSUME NEW what \in {"indices", "size"}, ClearCheck(what) PROVE FrameInv'
  <2>1. UNCHANGED <<slots, head, size, maxSize, writer, decoded, gone>> /\ ctl = "clear"
    BY <1>3, SMTT(60) DEF ClearCheck, ring
  <2>2. Poppable' = Poppable /\ DOMAIN slots = 0..(maxSize - 1)
    BY <2>1, PoppableSlots, SMTT(60) DEF Poppable, At
  <2>3. FramesDistinct' /\ FrameFresh' /\ (Clean => Clean') /\ CleanOutside'
    BY <2>1, <2>2 DEF FrameInv, FramesDistinct, FrameFresh, ClearProgress, Clean, CleanOutside
  <2>4. size = 0 => Clean
    BY <2>1, PoppableSlots, SMTT(60) DEF FrameInv, ClearProgress, Clean, CleanOutside
  <2>5. ctl' # "clear" => Clean
    BY <1>3, <2>4 DEF ClearCheck, FrameInv, ClearProgress, TypeOK
  <2>6. ctl' = "clear" /\ clearReads' = {"indices"} => Clean
    BY <1>3, <2>4 DEF ClearCheck
  <2> QED
    BY <2>3, <2>5, <2>6, SMTT(60) DEF FrameInv, ClearProgress
<1>4. CASE ClearBody
  <2>1. /\ UNCHANGED <<maxSize, writer, decoded, gone>> /\ ctl = "clear" /\ ctl' = "idle"
        /\ DOMAIN slots' = DOMAIN slots
        /\ \A i \in DOMAIN slots : slots'[i] = IF i \in Poppable THEN 0 ELSE slots[i]
    BY <1>4, SMTT(60) DEF ClearBody
  <2>2. decoded \in Nat /\ \A i \in DOMAIN slots : slots[i] \in Nat
    BY FrameQueueAssumption DEF TypeOK
  <2>3. FramesDistinct'
    BY <2>1, <2>2, SMTT(60) DEF FrameInv, FramesDistinct
  <2>4. HoldsSlot => writer.slot \notin Poppable
    BY SlotIsOutside DEF WriterOwnsSlot
  <2>5. FrameFresh'
    BY <2>1, <2>4, SMTT(60) DEF FrameInv, FrameFresh, HoldsSlot
  <2>6. Clean'
    BY <2>1, SMTT(60) DEF FrameInv, ClearProgress, Clean, CleanOutside
  <2> QED
    BY <2>1, <2>3, <2>5, <2>6 DEF FrameInv, ClearProgress
<1>5. CASE uninit \/ init
  <2>1. /\ UNCHANGED <<writer, decoded, gone, ctl, clearReads>> /\ ~running /\ ctl = "idle"
        /\ \A i \in DOMAIN slots' : slots'[i] = 0
    BY <1>5, ZenonT(60) DEF uninit, init, control, EmptyRing
  <2>2. decoded \in Nat /\ writer.pc = "idle"
    BY <2>1 DEF TypeOK, SlotInv
  <2> QED
    BY <2>1, <2>2, SMTT(60) DEF FrameInv, FramesDistinct, FrameFresh, ClearProgress, Clean
<1> QED
  BY <1>1, <1>2, <1>3, <1>4, <1>5, ResizeFrames DEF ControllerStep

\* The invariant about frames holds in every reachable state.
THEOREM FrameInvariance == Spec => []FrameInv
<1>1. IInv /\ FrameInv /\ [Next]_vars => FrameInv'
  <2> SUFFICES ASSUME IInv, FrameInv, [Next]_vars PROVE FrameInv'
    OBVIOUS
  <2>1. CASE UNCHANGED vars
    <3>1. UNCHANGED <<slots, gone, decoded, ctl, clearReads, writer>> /\ Poppable' = Poppable
      BY <2>1 DEF vars, Poppable, At
    <3> QED
      BY <3>1, FramesKept
  <2> QED
    BY <2>1, WriterFrames, ReaderFrames, ControllerFrames DEF Next
<1> QED
  BY <1>1, InitFrames, Invariance, PTL DEF Spec

\* clear() keeps its promise although its early return reads size_ and the two
\* indices without mutex_: when it has returned, none of the frames that were in
\* the queue at the call can be popped any more.
THEOREM ClearIsComplete == Spec => []ClearRemovesOlder
<1>1. IInv /\ FrameInv => ClearRemovesOlder
  BY PoppableSlots DEF IInv, FrameInv, ClearProgress, Clean, ClearRemovesOlder
<1> QED
  BY <1>1, Invariance, FrameInvariance, PTL
-----------------------------------------------------------------------------
(* Refinement of FrameChannel. *)

\* A function on 1..n is a sequence of length n.
LEMMA FunctionIsSeq ==
    ASSUME NEW S, NEW n \in Nat, NEW f \in [1..n -> S]
    PROVE  f \in Seq(S) /\ Len(f) = n
<1>1. Seq(S) = UNION {[1..m -> S] : m \in Nat}
  OBVIOUS
<1>2. f \in Seq(S)
  BY <1>1
<1>3. DOMAIN f = 1..n /\ DOMAIN f = 1..Len(f) /\ Len(f) \in Nat
  BY <1>2
<1> QED
  BY <1>2, <1>3

\* Sequences of one length that agree everywhere are equal.
LEMMA SeqEqual ==
    ASSUME NEW S, NEW s \in Seq(S), NEW t \in Seq(S), Len(s) = Len(t),
           \A i \in 1..Len(s) : s[i] = t[i]
    PROVE  s = t
OBVIOUS

\* The elements of a sequence without its first one.
LEMMA TailSeq ==
    ASSUME NEW S, NEW s \in Seq(S), s # <<>>
    PROVE  /\ Tail(s) \in Seq(S) /\ Len(Tail(s)) = Len(s) - 1
           /\ \A i \in 1..Len(Tail(s)) : Tail(s)[i] = s[i + 1]
OBVIOUS

\* The first n elements of a sequence.
LEMMA FrontSeq ==
    ASSUME NEW S, NEW s \in Seq(S), NEW n \in 0..Len(s)
    PROVE  /\ SubSeq(s, 1, n) \in Seq(S) /\ Len(SubSeq(s, 1, n)) = n
           /\ \A i \in 1..n : SubSeq(s, 1, n)[i] = s[i]
OBVIOUS

\* The frames of the ring, oldest first, are a sequence of size_ frames.
ItemsOK ==
    /\ Items \in Seq(0..MaxFrames) /\ Len(Items) = size
    /\ \A i \in 1..size : Items[i] = slots[At(i - 1)]
    /\ size = 0 <=> Items = <<>>

\* That holds where the types do,
LEMMA ItemsSeq == TypeOK => ItemsOK
<1> SUFFICES ASSUME TypeOK PROVE ItemsOK
  OBVIOUS
<1>1. size \in Nat
  BY Bounds
<1>2. \A i \in 1..size : i - 1 \in 0..(size - 1)
  BY <1>1, SMTT(60)
<1>3. \A i \in 1..size : slots[At(i - 1)] \in 0..MaxFrames
  BY <1>2, PoppableSlots, SMTT(60) DEF TypeOK
<1>4. Items \in [1..size -> 0..MaxFrames]
  BY <1>3 DEF Items
<1>5. Items \in Seq(0..MaxFrames) /\ Len(Items) = size
  BY <1>1, <1>4, FunctionIsSeq, Zenon
<1>6. \A i \in 1..size : Items[i] = slots[At(i - 1)]
  BY DEF Items
<1> QED
  BY <1>5, <1>6 DEF ItemsOK

\* and after a step that keeps them.
LEMMA ItemsSeqNext == TypeOK' => ItemsOK'
  BY ItemsSeq, PTL

\* The frames do not change when only slots outside the poppable part do.
LEMMA ItemsKept ==
    ASSUME TypeOK, UNCHANGED <<head, size, maxSize>>, \A i \in Poppable : slots'[i] = slots[i]
    PROVE  UNCHANGED Channel!vars
<1>1. \A i \in 1..size : At(i - 1)' = At(i - 1) /\ At(i - 1) \in Poppable
  <2>1. \A i \in 1..size : i - 1 \in 0..(size - 1)
    BY Bounds
  <2> QED
    BY <2>1 DEF Poppable, At
<1>2. Items' = Items
  BY <1>1 DEF Items
<1> QED
  BY <1>2 DEF Channel!vars

\* A commit appends the frame in the tail slot.
LEMMA ItemsAppended ==
    ASSUME TypeOK, TypeOK', RingConsistent, size < maxSize, size' = size + 1,
           UNCHANGED <<head, maxSize>>, \A i \in Poppable : slots'[i] = slots[i],
           slots'[tail] \in Written
    PROVE  Channel!Next
<1>0. size \in Nat /\ size' = size + 1 /\ slots'[tail] \in 0..MaxFrames
  BY Bounds, ZenonT(60) DEF TypeOK
<1>1. /\ Items \in Seq(0..MaxFrames) /\ Len(Items) = size
      /\ \A i \in 1..size : Items[i] = slots[At(i - 1)]
  BY ItemsSeq DEF ItemsOK
<1>2. /\ Items' \in Seq(0..MaxFrames) /\ Len(Items') = size'
      /\ \A i \in 1..size' : Items'[i] = slots'[At(i - 1)]
  BY ItemsSeqNext DEF ItemsOK, At
<1>3. \A i \in 1..size : slots'[At(i - 1)] = slots[At(i - 1)]
  <2>1. \A i \in 1..size : i - 1 \in 0..(size - 1)
    BY <1>0
  <2> QED
    BY <2>1 DEF Poppable, At
<1>4. At(size) = tail
  BY DEF At, RingConsistent
<1> DEFINE s == Append(Items, slots'[tail])
<1>5. /\ s \in Seq(0..MaxFrames) /\ Len(s) = size + 1
      /\ \A i \in 1..(size + 1) : s[i] = IF i <= size THEN Items[i] ELSE slots'[tail]
  BY <1>0, <1>1
<1> HIDE DEF s
<1>6. ASSUME NEW i \in 1..(size + 1) PROVE Items'[i] = s[i]
  <2>1. CASE i \in 1..size
    <3>1. Items'[i] = slots'[At(i - 1)] /\ i <= size
      BY <1>0, <1>2, <2>1
    <3> QED
      BY <1>1, <1>3, <1>5, <2>1, <3>1, Zenon
  <2>2. CASE i = size'
    <3>1. i - 1 = size /\ ~(i <= size) /\ i \in 1..size'
      BY <1>0, <2>2, SMTT(60)
    <3> QED
      BY <1>2, <1>4, <1>5, <3>1, Zenon
  <2> QED
    BY <1>0, <2>1, <2>2
<1>7. Items' = s
  BY <1>0, <1>2, <1>5, <1>6, SeqEqual, SMTT(60)
<1> QED
  BY <1>1, <1>7 DEF Channel!Next, Channel!Publish, s

\* A pop takes the oldest frame.
LEMMA ItemsTaken ==
    ASSUME TypeOK, TypeOK', size > 0, head' = (head + 1) % maxSize, size' = size - 1,
           UNCHANGED maxSize, \A i \in DOMAIN slots : i # head => slots'[i] = slots[i]
    PROVE  Channel!Next
<1>0. size \in Nat \ {0} /\ size' \in Nat /\ maxSize \in Nat /\ head \in Nat
  BY Bounds, SMTT(60)
<1>1. /\ Items \in Seq(0..MaxFrames) /\ Len(Items) = size /\ Items # <<>>
      /\ \A i \in 1..size : Items[i] = slots[At(i - 1)]
  BY <1>0, ItemsSeq, SMTT(60) DEF ItemsOK
<1>2. /\ Items' \in Seq(0..MaxFrames) /\ Len(Items') = size'
      /\ \A i \in 1..size' : Items'[i] = slots'[At(i - 1)']
  BY ItemsSeqNext, SMTT(60) DEF ItemsOK, At
<1>3. /\ Tail(Items) \in Seq(0..MaxFrames) /\ Len(Tail(Items)) = size'
      /\ \A i \in 1..size' : Tail(Items)[i] = Items[i + 1]
  BY <1>1, TailSeq
<1>4. At(0) = head
  BY PoppableSlots, SMTT(60)
<1>5. ASSUME NEW i \in 1..size' PROVE Items'[i] = Tail(Items)[i]
  <2>1. i - 1 \in 0..(size' - 1) /\ i \in 0..(size - 1) /\ 0 \in 0..(size - 1) /\ (i - 1) + 1 = i
        /\ i + 1 \in 1..size /\ (i + 1) - 1 = i /\ i # 0
    BY <1>0, SMTT(60)
  <2>2. At(i - 1)' = At(i)
    BY <2>1, PoppableShrinks, SMTT(60)
  <2>3. At(i) \in DOMAIN slots /\ At(i) # head
    BY <1>0, <1>4, <2>1, PoppableSlots, AtInjective, SMTT(60)
  <2>4. Items'[i] = slots[At(i)]
    BY <1>2, <2>2, <2>3, SMTT(60)
  <2> QED
    BY <1>1, <1>3, <2>1, <2>4, SMTT(60)
<1>6. Items' = Tail(Items)
  BY <1>2, <1>3, <1>5, SeqEqual
<1> QED
  BY <1>1, <1>6 DEF Channel!Next, Channel!Take

\* A reset of the ring empties the channel.
LEMMA ItemsEmptied ==
    ASSUME TypeOK', size' = 0, UNCHANGED maxSize
    PROVE  Channel!Next
<1>1. Items' = <<>>
  BY ItemsSeqNext DEF ItemsOK
<1> QED
  BY <1>1 DEF Channel!Next, Channel!Empty

\* A resize keeps the oldest frames that fit.
LEMMA ItemsResized ==
    ASSUME TypeOK, TypeOK', NEW n \in Sizes, setMaxCount(n)
    PROVE  Channel!Next
<1> DEFINE kept == IF size <= n THEN size ELSE n
<1>1. /\ slots' = [i \in 0..(n - 1) |-> IF i < kept THEN slots[At(i)] ELSE 0]
      /\ head' = 0 /\ size' = kept /\ maxSize' = n
  BY DEF setMaxCount
<1>2. /\ n \in Nat \ {0} /\ kept \in 0..n /\ kept <= size /\ size \in Nat
  BY Bounds, FrameQueueAssumption
<1>3. /\ Items \in Seq(0..MaxFrames) /\ Len(Items) = size
      /\ \A i \in 1..size : Items[i] = slots[At(i - 1)]
  BY ItemsSeq, SMTT(60) DEF ItemsOK
<1> HIDE DEF kept
<1>4. /\ Items' \in Seq(0..MaxFrames) /\ Len(Items') = kept
      /\ \A i \in 1..kept : Items'[i] = slots'[(0 + (i - 1)) % n]
  BY <1>1, ItemsSeqNext DEF ItemsOK, At
<1>5. \A i \in 1..kept : i \in 1..size /\ i - 1 \in 0..(n - 1) /\ i - 1 < kept /\ i - 1 \in 0..n
  BY <1>2
<1>6. /\ SubSeq(Items, 1, kept) \in Seq(0..MaxFrames) /\ Len(SubSeq(Items, 1, kept)) = kept
      /\ \A i \in 1..kept : SubSeq(Items, 1, kept)[i] = Items[i]
  <2>1. kept \in 0..Len(Items)
    BY <1>2, <1>3
  <2> QED
    BY <1>3, <2>1, FrontSeq, Zenon
<1>7. ASSUME NEW i \in 1..kept PROVE Items'[i] = SubSeq(Items, 1, kept)[i]
  <2>1. (0 + (i - 1)) % n = i - 1
    <3>1. 0 \in 0..(n - 1) /\ i - 1 \in 0..n
      BY <1>2, <1>5
    <3>2. (0 + (i - 1)) % n = IF 0 + (i - 1) < n THEN 0 + (i - 1) ELSE 0 + (i - 1) - n
      BY <1>2, <3>1, ModLap, Zenon
    <3> QED
      BY <1>2, <1>5, <3>2
  <2>2. slots'[i - 1] = slots[At(i - 1)]
    BY <1>1, <1>5, SMTT(60)
  <2> QED
    BY <1>3, <1>4, <1>5, <1>6, <2>1, <2>2, Zenon
<1>8. Items' = SubSeq(Items, 1, kept)
  BY <1>4, <1>6, <1>7, SeqEqual, SMTT(60)
<1> QED
  BY <1>1, <1>3, <1>8, SMTT(60) DEF Channel!Next, Channel!Resize, kept

\* Every step of FrameQueue is a step of the channel, or none.
LEMMA StepRefines ==
    ASSUME IInv, IInv', FrameInv, Next
    PROVE  [Channel!Next]_(Channel!vars)
<1>0. TypeOK /\ TypeOK' /\ RingConsistent /\ SlotInv /\ tail \in DOMAIN slots
  BY ZenonT(60) DEF IInv, TypeOK
<1>1. ASSUME UNCHANGED ring PROVE UNCHANGED Channel!vars
  <2>1. UNCHANGED <<slots, head, size, maxSize>>
    BY <1>1 DEF ring
  <2> QED
    BY <1>0, <2>1, ItemsKept
<1>2. ASSUME NEW f, Written = {f}, hasSpace, PushFrame(f)
      PROVE  [Channel!Next]_(Channel!vars)
  <2>1. CASE ~aborted /\ slots' = [slots EXCEPT ![tail] = f] /\ size' = size + 1 /\ UNCHANGED <<head, maxSize>>
    <3>1. size < maxSize
      BY <1>2, <2>1 DEF hasSpace
    <3>2. slots'[tail] = f /\ \A i \in DOMAIN slots \ {tail} : slots'[i] = slots[i]
      BY <1>0, <2>1
    <3>3. tail \notin Poppable /\ Poppable \subseteq DOMAIN slots
      BY <1>0, <3>1, TailIsOutside, PoppableSlots
    <3>4. \A i \in Poppable : slots'[i] = slots[i]
      BY <3>2, <3>3, SMTT(60)
    <3> QED
      BY <1>0, <1>2, <2>1, <3>1, <3>2, <3>4, ItemsAppended
  <2> QED
    BY <1>1, <1>2, <2>1 DEF PushFrame
<1>3. CASE getWritableFrame \/ DropFrame
  BY <1>1, <1>3 DEF getWritableFrame, DropFrame
<1>4. CASE WriteFrame
  <2>1. /\ writer.pc = "writing" /\ slots' = [slots EXCEPT ![writer.slot] = writer.frame]
        /\ UNCHANGED <<head, size, maxSize>>
    BY <1>4 DEF WriteFrame
  <2>2. writer.slot \notin Poppable
    BY <1>0, <2>1, SlotIsOutside DEF WriterOwnsSlot, HoldsSlot
  <2>3. \A i \in Poppable : slots'[i] = slots[i]
    BY <1>0, <2>1, <2>2, PoppableSlots, SMTT(60)
  <2> QED
    BY <1>0, <2>1, <2>3, ItemsKept
<1>5. CASE commitFrame
  <2>1. /\ writer.pc = "written" /\ size' = size + 1 /\ UNCHANGED <<slots, head, maxSize>>
    BY <1>5 DEF commitFrame
  <2>2. size < maxSize
    BY <1>0, <2>1, Bounds, SMTT(60) DEF SlotInv, HoldsSlot
  <2>3. writer.slot = tail => slots[tail] = writer.frame
    BY <1>0, <2>1, SMTT(60) DEF FrameInv, FrameFresh
  <2>4. slots'[tail] \in Written
    BY <1>0, <2>1, <2>3, SMTT(60) DEF Written, TypeOK
  <2> QED
    BY <1>0, <2>1, <2>2, <2>4, ItemsAppended
<1>6. CASE push
  <2>1. (hasSpace /\ PushFrame(decoded + 1)) \/ UNCHANGED ring
    BY <1>6, SMTT(60) DEF push
  <2>2. Written = {decoded + 1}
    BY <1>6 DEF push, Written
  <2> QED
    BY <1>1, <1>2, <2>1, <2>2
<1>7. CASE WriterWoken
  <2>1. (writer.pc = "waitPush" /\ hasSpace /\ PushFrame(writer.frame)) \/ UNCHANGED ring
    BY <1>7 DEF WriterWoken, ring
  <2>2. writer.pc = "waitPush" => Written = {writer.frame}
    BY SMTT(60) DEF Written
  <2> QED
    BY <1>1, <1>2, <2>1, <2>2, SMTT(60)
<1>8. ASSUME NEW r \in Readers, ReaderStep(r)
      PROVE  [Channel!Next]_(Channel!vars)
  <2>1. PopFrame(r) \/ UNCHANGED ring
    BY <1>8 DEF ReaderStep, pop, ReaderWoken, PopTimeout, ring
  <2>2. CASE /\ canPop /\ slots' = [slots EXCEPT ![head] = 0] /\ head' = (head + 1) % maxSize
             /\ size' = size - 1 /\ UNCHANGED maxSize
    <3>1. size > 0
      BY <1>0, <2>2, Bounds DEF canPop
    <3>2. \A i \in DOMAIN slots : i # head => slots'[i] = slots[i]
      BY <2>2, SMTT(60)
    <3> QED
      BY <1>0, <2>2, <3>1, <3>2, ItemsTaken, SMTT(60)
  <2> QED
    BY <1>1, <2>1, <2>2, SMTT(60) DEF PopFrame
<1>9. CASE start \/ stop \/ AbortNotify \/ Join \/ clear \/ \E what \in {"indices", "size"} : ClearCheck(what)
  BY <1>1, <1>9, SMTT(60) DEF start, stop, AbortNotify, Join, clear, ClearCheck
<1>10. CASE ClearBody \/ uninit \/ init
  BY <1>0, <1>10, ItemsEmptied DEF ClearBody, uninit, init
<1>11. ASSUME NEW n \in Sizes, setMaxCount(n) PROVE [Channel!Next]_(Channel!vars)
  BY <1>0, <1>11, ItemsResized
<1> QED
  BY <1>3, <1>4, <1>5, <1>6, <1>7, <1>8, <1>9, <1>10, <1>11, SMTT(60) DEF Next, WriterStep, ControllerStep

\* FrameQueue implements FrameChannel, the bounded FIFO of committed frames, for
\* every capacity, number of readers and number of frames: the ring's index
\* arithmetic, the unlocked write, wake-ups, clear and resize are invisible.
THEOREM Refinement == Spec => ImplementsChannel
<1>1. Init => Channel!Init
  <2> SUFFICES ASSUME Init PROVE Channel!Init
    OBVIOUS
  <2>1. TypeOK /\ size = 0 /\ maxSize \in Sizes
    BY InitInv DEF Init, IInv
  <2>2. Items = <<>>
    BY <2>1, ItemsSeq DEF ItemsOK
  <2> QED
    BY <2>1, <2>2 DEF Channel!Init
<1>2. IInv /\ IInv' /\ FrameInv /\ [Next]_vars => [Channel!Next]_(Channel!vars)
  <2>1. ASSUME IInv, UNCHANGED vars PROVE UNCHANGED Channel!vars
    <3>1. UNCHANGED <<slots, head, size, maxSize>>
      BY <2>1 DEF vars
    <3> QED
      BY <2>1, <3>1, ItemsKept DEF IInv
  <2> QED
    BY <2>1, StepRefines
<1> QED
  BY <1>1, <1>2, Invariance, FrameInvariance, PTL DEF Spec, ImplementsChannel, Channel!Spec
=============================================================================
