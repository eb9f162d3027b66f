-------------------------- MODULE RenderBufferQueue -------------------------
(***************************************************************************)
(* The triple buffer of a VideoRender: RenderBufferQueue, filled by the    *)
(* render thread (VideoRender::render) and shown by the UI thread          *)
(* (VideoRender::draw).  Every method of the queue runs under mutex_ and   *)
(* is one step; the threads interleave between the methods: while a frame  *)
(* is rendered into the buffer, while render waits on bufferAvailable_     *)
(* without the mutex, between the two calls that draw makes and while it   *)
(* draws.  The GPU finishes the commands of a buffer in its own time.      *)
(*                                                                         *)
(* Clocks are abstracted to the outcome of each comparison: which ready    *)
(* buffers are too old is chosen at every test, and so is whether the      *)
(* shown one has been shown long enough.  Three things are chosen once:    *)
(* fences, whether the OpenGL driver has fences; faults, whether making    *)
(* one or waiting for one may fail, and two frames that finish during one  *)
(* scan of the fences may be seen in the wrong order; and steady, whether  *)
(* all frames last equally long, so that the older is too old earlier.     *)
(***************************************************************************)
EXTENDS Integers, FiniteSets

CONSTANTS
    BufferCount,   \* the buffers, 3 in VideoRender
    GapLimit,      \* the gap of frames that forces a switch, 5 in the code
    MaxFrames      \* bound: frames rendered by one VideoRender

ASSUME RenderBufferQueueAssumption ==
    BufferCount \in Nat \ {0} /\ GapLimit \in Nat /\ MaxFrames \in Nat

Buffers == 1 .. BufferCount
None == 0   \* the null RenderBuffer pointer

VARIABLES
    buf,          \* buffers_: the flags of each buffer, its fence and frame index;
                  \*   busy: the GPU still writes into it
    counter,      \* frameCounter_
    last,         \* lastDisplayBuffer_
    queueReady,   \* initialized_ of the queue
    valid,        \* isValid() of the VideoRender
    current,      \* currentDisplayBuffer_ of the VideoRender
    rpc, target,  \* the render thread's step, and the buffer it renders into
    woken,        \* its wait was answered by a wakeOne
    dpc, old,     \* the UI thread's step, and the buffer draw gives back
    fences, faults, steady

vars == <<buf, counter, last, queueReady, valid, current, rpc, target, woken, dpc, old, fences,
          faults, steady>>
driver == <<fences, faults, steady>>
display == <<current, dpc, old>>
-----------------------------------------------------------------------------
(* The helpers of the queue, as functions of the buffers. *)

\* RenderBuffer::reset; the index -1 of the code is 0, indices start at 1.
reset == [ready |-> FALSE, inUse |-> FALSE, displaying |-> FALSE, pendingRelease |-> FALSE,
          outdated |-> FALSE, fence |-> FALSE, frameIndex |-> 0, busy |-> FALSE]

Shown(l, bs) == IF l = None THEN 0 ELSE bs[l].frameIndex

\* Ready, and neither shown, written nor about to be released.
Waits(b) == b.ready /\ ~b.displaying /\ ~b.inUse /\ ~b.pendingRelease

\* A signalled fence makes its buffer ready; so does a wait that fails.
updateFenceStatus(bs, failed) ==
    [i \in Buffers |->
        IF bs[i].fence /\ ~bs[i].ready /\ ~bs[i].inUse /\ (~bs[i].busy \/ i \in failed)
        THEN [bs[i] EXCEPT !.ready = TRUE, !.fence = FALSE] ELSE bs[i]]

processPendingReleases(bs) ==
    [i \in Buffers |->
        IF bs[i].pendingRelease
        THEN [bs[i] EXCEPT !.fence = FALSE, !.ready = FALSE, !.displaying = FALSE,
                           !.pendingRelease = FALSE, !.outdated = FALSE]
        ELSE bs[i]]

\* Seeded bug: the last ready buffer can be marked too.
processOutdatedFramesAll(bs, aged) ==
    [i \in Buffers |-> IF i \in aged /\ Waits(bs[i]) THEN [bs[i] EXCEPT !.outdated = TRUE] ELSE bs[i]]

\* The aged buffers are marked in the order of buffers_, for as long as two
\* ready ones are left that are not marked.
processOutdatedFrames(bs, aged) ==
    LET fresh == {i \in Buffers : Waits(bs[i]) /\ ~bs[i].outdated}
    IN [i \in Buffers |->
            IF i \in aged \cap fresh /\ Cardinality(fresh \ {j \in aged : j < i}) > 1
            THEN [bs[i] EXCEPT !.outdated = TRUE] ELSE bs[i]]

dropOlderReadyFrames(bs, threshold) ==
    [i \in Buffers |->
        IF Waits(bs[i]) /\ bs[i].frameIndex < threshold
        THEN [bs[i] EXCEPT !.fence = FALSE, !.ready = FALSE, !.outdated = FALSE]
        ELSE bs[i]]

smartCleanupIfNeeded(bs, l) ==
    LET oldFrames == {i \in Buffers : Waits(bs[i]) /\ bs[i].frameIndex < Shown(l, bs)}
    IN IF Cardinality(oldFrames) > BufferCount \div 2
       THEN dropOlderReadyFrames(bs, Shown(l, bs)) ELSE bs

\* The buffers after the three checks of checkAndGetAvaliableBuffer.
checkBuffers(bs, failed, aged) ==
    processOutdatedFrames(updateFenceStatus(processPendingReleases(bs), failed), aged)

\* Seeded bug: what is ready or on display counts as free.
availableShown(bs) == {i \in Buffers : ~bs[i].inUse /\ ~bs[i].pendingRelease}

\* A buffer whose fence has not been signalled counts as free.
available(bs) ==
    {i \in Buffers : ~bs[i].inUse /\ ~bs[i].displaying /\ ~bs[i].ready /\ ~bs[i].pendingRelease}

First(S) == CHOOSE i \in S : \A j \in S : i <= j
Failable == IF faults THEN SUBSET Buffers ELSE {{}}

\* The buffers whose frames may be older than three times their duration.
AgedSets == IF steady THEN {{i \in Buffers : buf[i].frameIndex <= k} : k \in 0 .. counter}
            ELSE SUBSET Buffers
-----------------------------------------------------------------------------
Init ==
    /\ buf = [i \in Buffers |-> reset]
    /\ counter = 0 /\ last = None /\ queueReady = FALSE
    /\ valid = FALSE /\ current = None
    /\ rpc = "idle" /\ target = None /\ woken = FALSE
    /\ dpc = "idle" /\ old = None
    /\ fences \in BOOLEAN /\ faults \in BOOLEAN /\ steady \in BOOLEAN

(* The render thread. *)

\* VideoRender::initialize; a later step of it may fail after the queue is ready.
initialize ==
    /\ rpc = "idle" /\ ~valid /\ ~queueReady
    /\ queueReady' = TRUE
    /\ valid' \in BOOLEAN
    /\ UNCHANGED <<buf, counter, last, rpc, target, woken, display, driver>>

\* A framebuffer cannot be created: initialize calls cleanup, which locks the
\* mutex that initialize holds, and the render thread never comes back.
initializeFails ==
    /\ rpc = "idle" /\ ~valid /\ ~queueReady
    /\ rpc' = "selfLocked"
    /\ UNCHANGED <<buf, counter, last, queueReady, valid, target, woken, display, driver>>

\* inUse and the next index for the first available buffer.
Acquire(bs) ==
    LET b == First(available(bs))
    IN /\ counter < MaxFrames
       /\ counter' = counter + 1
       /\ buf' = [bs EXCEPT ![b].inUse = TRUE, ![b].frameIndex = counter + 1]
       /\ target' = b
       /\ rpc' = "render"

acquireForRender ==
    /\ rpc = "idle" /\ valid
    /\ woken' = FALSE
    /\ \E failed \in Failable, aged \in AgedSets :
           LET bs == checkBuffers(buf, failed, aged)
           IN IF available(bs) # {} THEN Acquire(bs)
              ELSE buf' = bs /\ rpc' \in {"wait", "idle"} /\ UNCHANGED <<counter, target>>
    /\ UNCHANGED <<last, queueReady, valid, display, driver>>

\* The one wait came back in time and the checks are made once more.
acquireAfterWait ==
    /\ rpc = "wait" /\ woken
    /\ woken' = FALSE
    /\ \E failed \in Failable, aged \in AgedSets :
           LET bs == checkBuffers(buf, failed, aged)
           IN IF available(bs) # {} THEN Acquire(bs)
              ELSE buf' = bs /\ rpc' = "idle" /\ UNCHANGED <<counter, target>>
    /\ UNCHANGED <<last, queueReady, valid, display, driver>>

\* The wait timed out: the frame is dropped.
acquireTimeout ==
    /\ rpc = "wait" /\ ~woken
    /\ rpc' = "idle"
    /\ UNCHANGED <<buf, counter, last, queueReady, valid, target, woken, display, driver>>

\* renderFrame succeeded; with a fence the buffer becomes ready when it is signalled.
markRenderFinished ==
    /\ rpc = "render"
    /\ \E fence \in IF ~fences THEN {FALSE} ELSE IF faults THEN BOOLEAN ELSE {TRUE} :
           LET bs == [buf EXCEPT ![target].fence = fence, ![target].inUse = FALSE,
                                 ![target].busy = TRUE,
                                 ![target].ready = IF fence THEN @ ELSE TRUE]
           IN buf' = IF fence THEN bs ELSE dropOlderReadyFrames(bs, bs[target].frameIndex)
    /\ target' = None
    /\ rpc' = "idle"
    /\ UNCHANGED <<counter, last, queueReady, valid, woken, display, driver>>

\* renderFrame failed: inUse is cleared without the mutex.
renderFails ==
    /\ rpc = "render"
    /\ buf' = [buf EXCEPT ![target].inUse = FALSE]
    /\ target' = None
    /\ rpc' = "idle"
    /\ UNCHANGED <<counter, last, queueReady, valid, woken, display, driver>>

\* ~VideoRender, once neither thread uses the renderer; a new one may follow.
destroy ==
    /\ rpc = "idle" /\ dpc = "idle" /\ queueReady
    /\ buf' = [i \in Buffers |-> reset]
    /\ counter' = 0 /\ last' = None /\ queueReady' = FALSE
    /\ valid' = FALSE /\ current' = None
    /\ UNCHANGED <<rpc, target, woken, dpc, old, driver>>
-----------------------------------------------------------------------------
(* The UI thread and the GPU. *)

Eligible(b, l, bs) == Waits(b) /\ ~b.outdated /\ b.frameIndex > Shown(l, bs)

candidates(bs) == {i \in Buffers : Eligible(bs[i], last, bs)}

\* The consecutive frame, or else the nearest newer one.
candidateBuffer(bs) ==
    CHOOSE i \in candidates(bs) : \A j \in candidates(bs) : bs[i].frameIndex <= bs[j].frameIndex

\* The shown buffer is given up for the candidate.
Switch(bs, c) ==
    LET released == IF last # None /\ bs[last].displaying
                    THEN [bs EXCEPT ![last].displaying = FALSE, ![last].pendingRelease = TRUE]
                    ELSE bs
        switched == [released EXCEPT ![c].displaying = TRUE, ![c].outdated = FALSE]
    IN smartCleanupIfNeeded(processPendingReleases(switched), c)

\* Whether the candidate replaces the shown buffer: tooOld is the clock's answer.
shouldSwitch(bs, c, tooOld) ==
    \/ last = None
    \/ ~bs[last].displaying
    \/ bs[c].frameIndex = Shown(last, bs) + 1
    \/ tooOld
    \/ bs[c].frameIndex - (Shown(last, bs) + 1) > GapLimit

\* A release or a fence that was signalled wakes the waiting render thread.
Wakes(bs) == woken' = (woken \/ (rpc = "wait" /\ \E i \in Buffers :
                          bs[i].ready # buf[i].ready \/ bs[i].pendingRelease # buf[i].pendingRelease))

acquireForDisplay ==
    /\ dpc = "idle" /\ valid
    /\ \E failed \in Failable, tooOld \in BOOLEAN :
           LET bs == updateFenceStatus(buf, failed)
               c == candidateBuffer(bs)
           IN IF candidates(bs) # {} /\ shouldSwitch(bs, c, tooOld)
              THEN /\ buf' = Switch(bs, c)
                   /\ last' = c
                   /\ old' = current
                   /\ current' = c
                   /\ dpc' = IF current = None THEN "draw" ELSE "release"
              ELSE /\ buf' = bs
                   /\ dpc' = IF current = None THEN "idle" ELSE "draw"
                   /\ UNCHANGED <<last, old, current>>
    /\ Wakes(buf')
    /\ UNCHANGED <<counter, queueReady, valid, rpc, target, driver>>

\* draw gives the previous buffer back; acquireForDisplay already has.
releaseDisplayBuffer ==
    /\ dpc = "release"
    /\ IF buf[old].displaying
       THEN /\ buf' = [buf EXCEPT ![old].displaying = FALSE, ![old].pendingRelease = TRUE]
            /\ last' = IF last = old THEN None ELSE last
       ELSE UNCHANGED <<buf, last>>
    /\ old' = None
    /\ dpc' = "draw"
    /\ UNCHANGED <<counter, queueReady, valid, current, rpc, target, woken, driver>>

\* drawFbo of the current buffer, or the copy that getFrameBuffer makes of it.
drawFbo ==
    /\ dpc = "draw"
    /\ dpc' = "idle"
    /\ UNCHANGED <<buf, counter, last, queueReady, valid, current, rpc, target, woken, old, driver>>

\* The commands of one OpenGL context finish in the order they were given.
GpuFinish ==
    /\ \E i \in Buffers :
           /\ buf[i].busy
           /\ faults \/ \A j \in Buffers : buf[j].busy => buf[i].frameIndex <= buf[j].frameIndex
           /\ buf' = [buf EXCEPT ![i].busy = FALSE]
    /\ UNCHANGED <<counter, last, queueReady, valid, rpc, target, woken, display, driver>>

Next ==
    \/ initialize \/ initializeFails
    \/ acquireForRender \/ acquireAfterWait \/ acquireTimeout
    \/ markRenderFinished \/ renderFails \/ destroy
    \/ acquireForDisplay \/ releaseDisplayBuffer \/ drawFbo \/ GpuFinish

Spec == Init /\ [][Next]_vars
-----------------------------------------------------------------------------
(* Properties *)

\* The buffer that the UI thread draws is ready and belongs to no writer: the
\* render thread does not hold it, it is not queued for release, and where
\* fences work the GPU has finished it.
ShownIsWhole ==
    dpc = "draw" =>
        /\ current # target
        /\ buf[current].ready /\ ~buf[current].inUse /\ ~buf[current].pendingRelease
        /\ (fences /\ ~faults) => ~buf[current].busy

\* The picture never goes back: a buffer that replaces the shown one holds a
\* later frame, whatever order the fences are signalled in.
DisplayAdvances == last' # None => Shown(last', buf') >= Shown(last, buf)

\* The buffers keep circulating: there is always one, beside the one on
\* display, that can be rendered into, is being rendered, or can be shown.
\* The marks that processOutdatedFrames sets never retire all of them.
BuffersCirculate ==
    (queueReady /\ steady /\ ~faults) =>
        \E i \in Buffers :
            /\ ~buf[i].displaying
            /\ \/ ~buf[i].ready
               \/ buf[i].pendingRelease
               \/ Eligible(buf[i], last, buf)
=============================================================================
