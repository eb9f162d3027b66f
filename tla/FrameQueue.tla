----------------------------- MODULE FrameQueue -----------------------------
(***************************************************************************)
(* base/frame_queue.cpp: the ring of decoded frames between a decoder      *)
(* thread (the writer), the application's threads (the readers) and the    *)
(* controller, which clears, aborts, initialises and resizes it.           *)
(*                                                                         *)
(* The writer does not hold mutex_ while it fills a frame: it gets a       *)
(* pointer to a slot (getWritableFrame), writes through it, may drop the   *)
(* frame again (the decoder does when it is late) and commits it           *)
(* (commitFrame).  setAbortStatus and clear touch shared members before    *)
(* they take mutex_; those accesses are steps of their own.  Everything    *)
(* else is one critical section.                                           *)
(*                                                                         *)
(* A frame is a number, in the order of decoding; 0 is a slot without      *)
(* picture (unref'd, moved from, or freshly allocated).  asleep is the set *)
(* of threads on cond_, which is always notified with notify_all.          *)
(* pendingWriteIndex_ is written and never read, and is left out.          *)
(***************************************************************************)
EXTENDS Integers, Sequences, FiniteSets

CONSTANTS
    Readers,            \* application threads that pop
    Writer,             \* the decoder thread
    Sizes,              \* capacities given to the constructor and setMaxCount
    KeepLast,           \* the constructor's keepLast
    MaxFrames           \* bound on the number of frames decoded

ASSUME FrameQueueAssumption ==
    /\ Writer \notin Readers
    /\ Sizes \subseteq Nat \ {0}
    /\ KeepLast \in BOOLEAN
    /\ MaxFrames \in Nat

VARIABLES
    slots,       \* queue_: 0..maxSize-1 -> frame
    allocated,   \* ~queue_.empty()
    head, tail, size, maxSize,
    aborted,     \* aborted_
    asleep,      \* threads asleep on cond_
    writer,      \* the decoder thread: pc, the slot it points to, its frame
    reading,     \* readers with an open pop: "no", "forever" or "timed"
    ctl,         \* what the controller's thread is inside of
    clearReads,  \* the unlocked reads clear() has still to make
    running,     \* is there a decoder thread?
    decoded,     \* number of frames decoded so far
    gone         \* frames committed before the last clear() was called

ring == <<slots, allocated, head, tail, size, maxSize>>
control == <<ctl, clearReads, running, gone>>
vars == <<slots, allocated, head, tail, size, maxSize, aborted, asleep, writer,
          reading, ctl, clearReads, running, decoded, gone>>

WriterIdle == [pc |-> "idle", slot |-> 0, frame |-> 0]
EmptyRing(n) == [i \in 0..(n - 1) |-> 0]

\* The slots that pop would return, oldest first, as offsets from head_.
At(i) == (head + i) % maxSize
Poppable == {At(i) : i \in 0..(size - 1)}

Init ==
    /\ maxSize \in Sizes
    /\ slots = EmptyRing(maxSize)
    /\ allocated = FALSE
    /\ head = 0 /\ tail = 0 /\ size = 0
    /\ aborted = FALSE
    /\ asleep = {}
    /\ writer = WriterIdle
    /\ reading = [r \in Readers |-> "no"]
    /\ ctl = "idle"
    /\ clearReads = {}
    /\ running = FALSE
    /\ decoded = 0
    /\ gone = {}
-----------------------------------------------------------------------------
hasSpace == size < maxSize \/ aborted
canPop == IF KeepLast THEN size > 1 ELSE size > 0
hasData == canPop \/ aborted
notifyWaiters == asleep' = {}
-----------------------------------------------------------------------------
(* The writer. *)

\* Seeded bug: the slot before tail_, the one committed last.
TakeSlotBehind(f) ==
    IF aborted \/ size >= maxSize \/ ~allocated
    THEN writer' = WriterIdle
    ELSE writer' = [pc |-> "writing", slot |-> (tail + maxSize - 1) % maxSize, frame |-> f]

\* getWritableFrame once the wait is over.
TakeSlot(f) ==
    IF aborted \/ size >= maxSize \/ ~allocated
    THEN writer' = WriterIdle
    ELSE writer' = [pc |-> "writing", slot |-> tail, frame |-> f]

getWritableFrame ==
    /\ running /\ writer.pc = "idle" /\ decoded < MaxFrames
    /\ decoded' = decoded + 1
    /\ \/ hasSpace /\ TakeSlot(decoded') /\ UNCHANGED asleep
       \/ /\ ~hasSpace
          /\ writer' = [pc |-> "waitSlot", slot |-> 0, frame |-> decoded']
          /\ asleep' = asleep \cup {Writer}
    /\ UNCHANGED <<ring, aborted, reading, control>>

\* The decoder moves its frame into the slot it was given.
WriteFrame ==
    /\ writer.pc = "writing"
    /\ slots' = [slots EXCEPT ![writer.slot] = writer.frame]
    /\ writer' = [writer EXCEPT !.pc = "written"]
    /\ UNCHANGED <<allocated, head, tail, size, maxSize, aborted, asleep, reading, control, decoded>>

\* A frame that is too late (syncDelay < 0) is left in its slot uncommitted.
DropFrame ==
    /\ writer.pc = "written"
    /\ writer' = WriterIdle
    /\ UNCHANGED <<ring, aborted, asleep, reading, control, decoded>>

\* Seeded bug: commitFrame does not wake the readers.
commitFrameSilent ==
    /\ writer.pc = "written"
    /\ tail' = (tail + 1) % maxSize
    /\ size' = size + 1
    /\ writer' = WriterIdle
    /\ UNCHANGED <<slots, allocated, head, maxSize, aborted, asleep, reading, control, decoded>>

commitFrame ==
    /\ writer.pc = "written"
    /\ tail' = (tail + 1) % maxSize
    /\ size' = size + 1
    /\ writer' = WriterIdle
    /\ notifyWaiters
    /\ UNCHANGED <<slots, allocated, head, maxSize, aborted, reading, control, decoded>>

\* push once the wait is over; its branch for a full ring cannot be reached.
PushFrame(f) ==
    /\ writer' = WriterIdle
    /\ IF aborted \/ ~allocated
       THEN UNCHANGED <<ring, asleep>>
       ELSE /\ slots' = [slots EXCEPT ![tail] = f]
            /\ tail' = (tail + 1) % maxSize
            /\ size' = size + 1
            /\ notifyWaiters
            /\ UNCHANGED <<allocated, head, maxSize>>

push ==
    /\ running /\ writer.pc = "idle" /\ decoded < MaxFrames
    /\ decoded' = decoded + 1
    /\ \/ hasSpace /\ PushFrame(decoded')
       \/ /\ ~hasSpace
          /\ writer' = [pc |-> "waitPush", slot |-> 0, frame |-> decoded']
          /\ asleep' = asleep \cup {Writer}
          /\ UNCHANGED ring
    /\ UNCHANGED <<aborted, reading, control>>

\* The writer was notified and looks at hasSpace again.
WriterWoken ==
    /\ writer.pc \in {"waitSlot", "waitPush"}
    /\ Writer \notin asleep
    /\ \/ /\ hasSpace /\ writer.pc = "waitSlot"
          /\ TakeSlot(writer.frame)
          /\ UNCHANGED <<ring, asleep>>
       \/ /\ hasSpace /\ writer.pc = "waitPush"
          /\ PushFrame(writer.frame)
       \/ /\ ~hasSpace
          /\ asleep' = asleep \cup {Writer}
          /\ UNCHANGED <<ring, writer>>
    /\ UNCHANGED <<aborted, reading, control, decoded>>
-----------------------------------------------------------------------------
(* The readers. *)

\* pop once waitForData is satisfied: nothing from an aborted or uninitialised
\* queue; with keepLast the last frame is copied and stays.
PopFrame(r) ==
    /\ reading' = [reading EXCEPT ![r] = "no"]
    /\ IF aborted \/ ~allocated \/ ~canPop
       THEN asleep' = asleep \ {r} /\ UNCHANGED ring
       ELSE /\ slots' = [slots EXCEPT ![head] = 0]
            /\ head' = (head + 1) % maxSize
            /\ size' = size - 1
            /\ notifyWaiters
            /\ UNCHANGED <<allocated, tail, maxSize>>

pop(r, mode) ==
    /\ reading[r] = "no"
    /\ \/ hasData /\ PopFrame(r)
       \/ /\ ~hasData
          /\ reading' = [reading EXCEPT ![r] = mode]
          /\ asleep' = asleep \cup {r}
          /\ UNCHANGED ring
    /\ UNCHANGED <<aborted, writer, control, decoded>>

ReaderWoken(r) ==
    /\ reading[r] # "no" /\ r \notin asleep
    /\ \/ hasData /\ PopFrame(r)
       \/ /\ ~hasData
          /\ asleep' = asleep \cup {r}
          /\ UNCHANGED <<ring, reading>>
    /\ UNCHANGED <<aborted, writer, control, decoded>>

\* wait_for expires; the predicate is evaluated once more.  A copy of the last
\* frame under keepLast changes nothing.
PopTimeout(r) ==
    /\ reading[r] = "timed" /\ r \in asleep
    /\ \/ hasData /\ PopFrame(r)
       \/ /\ ~hasData
          /\ reading' = [reading EXCEPT ![r] = "no"]
          /\ asleep' = asleep \ {r}
          /\ UNCHANGED ring
    /\ UNCHANGED <<aborted, writer, control, decoded>>
-----------------------------------------------------------------------------
(* The controller; its methods run one at a time under its own mutex.        *)
(* stop is setAbortStatus(true) followed by the join of the decoder thread.  *)

start ==
    /\ ctl = "idle" /\ ~running /\ allocated
    /\ aborted' = FALSE
    /\ running' = TRUE
    /\ UNCHANGED <<ring, asleep, writer, reading, ctl, clearReads, decoded, gone>>

stop ==
    /\ ctl = "idle" /\ running
    /\ aborted' = TRUE
    /\ ctl' = IF aborted THEN "join" ELSE "notify"
    /\ UNCHANGED <<ring, asleep, writer, reading, clearReads, running, decoded, gone>>

\* Seeded bug: aborted_ is stored, and the waiters are not notified.
AbortNotifySkipped ==
    /\ ctl = "notify"
    /\ ctl' = "join"
    /\ UNCHANGED <<ring, aborted, asleep, writer, reading, clearReads, running, decoded, gone>>

AbortNotify ==
    /\ ctl = "notify"
    /\ notifyWaiters
    /\ ctl' = "join"
    /\ UNCHANGED <<ring, aborted, writer, reading, clearReads, running, decoded, gone>>

Join ==
    /\ ctl = "join" /\ writer.pc = "idle"
    /\ ctl' = "idle"
    /\ running' = FALSE
    /\ UNCHANGED <<ring, aborted, asleep, writer, reading, clearReads, decoded, gone>>

clear ==
    /\ ctl = "idle" /\ allocated
    /\ ctl' = "clear"
    /\ clearReads' = {"indices", "size"}
    /\ gone' = {slots[i] : i \in Poppable}
    /\ UNCHANGED <<ring, aborted, asleep, writer, reading, running, decoded>>

\* Seeded bug: "empty" is judged by the two indices alone.
ClearCheckIndices(what) ==
    /\ ctl = "clear" /\ what \in clearReads
    /\ clearReads' = {}
    /\ ctl' = IF head = tail THEN "idle" ELSE "clear"
    /\ UNCHANGED <<ring, aborted, asleep, writer, reading, running, decoded, gone>>

\* The early return reads head_ and tail_, and size_, without mutex_: the two
\* comparisons may see two different states, in either order.
ClearCheck(what) ==
    /\ ctl = "clear" /\ what \in clearReads
    /\ IF IF what = "indices" THEN head = tail ELSE size = 0
       THEN /\ clearReads' = clearReads \ {what}
            /\ ctl' = IF clearReads' = {} THEN "idle" ELSE "clear"
       ELSE clearReads' = {} /\ UNCHANGED ctl
    /\ UNCHANGED <<ring, aborted, asleep, writer, reading, running, decoded, gone>>

ClearBody ==
    /\ ctl = "clear" /\ clearReads = {}
    /\ slots' = [i \in DOMAIN slots |-> IF i \in Poppable THEN 0 ELSE slots[i]]
    /\ head' = 0 /\ tail' = 0 /\ size' = 0
    /\ notifyWaiters
    /\ ctl' = "idle"
    /\ UNCHANGED <<allocated, maxSize, aborted, writer, reading, clearReads, running, decoded, gone>>

\* Seeded bug: the frames are moved out from index 0 on, not from head_ on.
setMaxCountFromZero(n) ==
    /\ ctl = "idle" /\ ~running /\ n # maxSize
    /\ LET kept == IF size <= n THEN size ELSE n
       IN  /\ slots' = [i \in 0..(n - 1) |-> IF i < kept THEN slots[i] ELSE 0]
           /\ head' = 0 /\ tail' = kept % n /\ size' = kept
    /\ maxSize' = n /\ allocated' = TRUE
    /\ notifyWaiters
    /\ UNCHANGED <<aborted, writer, reading, decoded, control>>

\* No caller changes the capacity of a running decoder.
setMaxCount(n) ==
    /\ ctl = "idle" /\ ~running /\ n # maxSize
    /\ LET kept == IF size <= n THEN size ELSE n
       IN  /\ slots' = [i \in 0..(n - 1) |-> IF i < kept THEN slots[At(i)] ELSE 0]
           /\ head' = 0 /\ tail' = kept % n /\ size' = kept
    /\ maxSize' = n /\ allocated' = TRUE
    /\ notifyWaiters
    /\ UNCHANGED <<aborted, writer, reading, decoded, control>>

\* uninit does not notify when there is nothing to release.
uninit ==
    /\ ctl = "idle" /\ ~running
    /\ head' = 0 /\ tail' = 0 /\ size' = 0
    /\ slots' = EmptyRing(maxSize) /\ allocated' = FALSE
    /\ IF allocated THEN notifyWaiters ELSE UNCHANGED asleep
    /\ UNCHANGED <<maxSize, aborted, writer, reading, control, decoded>>

\* init is uninit and an allocation: a reader that runs in between finds
\* nothing to pop, as it does after either of them.
init ==
    /\ ctl = "idle" /\ ~running
    /\ head' = 0 /\ tail' = 0 /\ size' = 0
    /\ slots' = EmptyRing(maxSize) /\ allocated' = TRUE
    /\ IF allocated THEN notifyWaiters ELSE UNCHANGED asleep
    /\ UNCHANGED <<maxSize, aborted, writer, reading, control, decoded>>
-----------------------------------------------------------------------------
WriterStep == getWritableFrame \/ WriteFrame \/ DropFrame \/ commitFrame \/ push \/ WriterWoken
ReaderStep(r) ==
    \/ \E mode \in {"forever", "timed"} : pop(r, mode)
    \/ ReaderWoken(r)
    \/ PopTimeout(r)
ControllerStep ==
    \/ start \/ stop \/ AbortNotify \/ Join
    \/ clear \/ (\E what \in {"indices", "size"} : ClearCheck(what)) \/ ClearBody
    \/ (\E n \in Sizes : setMaxCount(n)) \/ uninit \/ init

Next == WriterStep \/ (\E r \in Readers : ReaderStep(r)) \/ ControllerStep

Spec == Init /\ [][Next]_vars

\* Threads that hold no lock keep running, and a method that has begun goes on;
\* nobody has to call pop, stop or clear.
Fairness ==
    /\ WF_vars(WriteFrame) /\ WF_vars(commitFrame \/ DropFrame) /\ WF_vars(WriterWoken)
    /\ WF_vars(AbortNotify) /\ WF_vars(Join)
    /\ \A r \in Readers : WF_vars(ReaderWoken(r))

FairSpec == Spec /\ Fairness
-----------------------------------------------------------------------------
\* Types of the members and of the threads' states.
TypeOK ==
    /\ maxSize \in Sizes
    /\ slots \in [0..(maxSize - 1) -> 0..MaxFrames]
    /\ allocated \in BOOLEAN /\ aborted \in BOOLEAN /\ running \in BOOLEAN
    /\ head \in 0..(maxSize - 1) /\ tail \in 0..(maxSize - 1) /\ size \in 0..maxSize
    /\ asleep \subseteq Readers \cup {Writer}
    /\ writer \in [pc : {"idle", "waitSlot", "waitPush", "writing", "written"},
                   slot : Nat, frame : 0..MaxFrames]
    /\ reading \in [Readers -> {"no", "forever", "timed"}]
    /\ ctl \in {"idle", "notify", "join", "clear"}
    /\ clearReads \subseteq {"indices", "size"}
    /\ decoded \in 0..MaxFrames
    /\ gone \subseteq 0..MaxFrames

\* The three indices of the ring always agree, whatever clear, commit, resize
\* and pop do to them in whatever order: tail_ is size_ places after head_.
RingConsistent == tail = (head + size) % maxSize

HoldsSlot == writer.pc \in {"writing", "written"}

\* While the decoder writes through the pointer that getWritableFrame returned,
\* without mutex_, no reader can be handed that slot: the unlocked write of
\* video_decoder.cpp:718 does not race with pop, even across a clear().
WriterOwnsSlot == HoldsSlot => writer.slot \notin Poppable

\* One condition variable serves writer and readers: nobody sleeps on it while
\* its predicate holds, except between the store of aborted_ and the
\* notification that setAbortStatus sends under mutex_.
NoLostWakeup ==
    /\ Writer \in asleep => ~hasSpace \/ ctl = "notify"
    /\ \A r \in Readers \cap asleep : ~hasData \/ ctl = "notify"

\* When clear() has returned, through the unlocked early return or not, no frame
\* that was in the queue when it was called can still be popped.
ClearRemovesOlder ==
    ctl = "idle" => \A i \in Poppable : slots[i] \in gone => slots[i] = 0

\* FrameQueue implements the bounded FIFO of the frames the decoder committed,
\* through every wrap-around, resize, clear and re-initialisation.  Only a frame
\* whose slot a clear() has taken out of the tail's place may be replaced.
Items == [i \in 1..size |-> slots[At(i - 1)]]
Written ==
    IF writer.pc = "written" THEN IF writer.slot = tail THEN {writer.frame} ELSE 0..MaxFrames
    ELSE IF writer.pc = "waitPush" THEN {writer.frame}
    ELSE IF writer.pc = "idle" /\ decoded < MaxFrames THEN {decoded + 1} ELSE {}
Channel == INSTANCE FrameChannel WITH items <- Items, capacity <- maxSize, written <- Written
ImplementsChannel == Channel!Spec

\* stop() terminates: setAbortStatus(true) gets a decoder thread out of
\* getWritableFrame(-1) whatever the readers do, so that the join returns.
StopTerminates == ctl = "notify" ~> ctl = "idle"
=============================================================================
