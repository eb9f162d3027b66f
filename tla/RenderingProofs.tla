-------------------------- MODULE RenderingProofs ---------------------------
(***************************************************************************)
(* ShownIsWhole of RenderBufferQueue, for any number of buffers and frames *)
(* and any gap, and InteropOpen of Rendering, for any finite number of     *)
(* renderers and any interop paths.                                        *)
(*                                                                         *)
(* What the UI thread draws depends on what every method leaves alone, so  *)
(* the first proof goes method by method: each helper keeps a buffer sound *)
(* and changes neither its writer nor whether it is shown, and the buffer  *)
(* on display is always the one the queue and VideoRender both remember.   *)
(*                                                                         *)
(* InteropOpen says that the device is open while someone refers to it;    *)
(* what makes it inductive is the arithmetic behind it, the count in the   *)
(* control block is the number of references that exist, and the promise a *)
(* constructor relies on between reading the manager's reference and       *)
(* counting its own: the manager still has one.                            *)
(***************************************************************************)
EXTENDS Rendering, FiniteSetTheorems, WellFoundedInduction, TLAPS

-----------------------------------------------------------------------------
(* The buffers of RenderBufferQueue. *)

RenderBuffer == [ready : BOOLEAN, inUse : BOOLEAN, displaying : BOOLEAN,
                 pendingRelease : BOOLEAN, outdated : BOOLEAN, fence : BOOLEAN,
                 frameIndex : Nat, busy : BOOLEAN]

\* What is shown is ready and free of writers, what is written is not ready,
\* and where fences work the GPU has finished what is ready.
Sound(b) ==
    /\ b.displaying => b.ready /\ ~b.inUse /\ ~b.pendingRelease
    /\ b.inUse => ~b.ready /\ ~b.pendingRelease
    /\ (fences /\ ~faults) => (b.ready => ~b.busy)

AllSound(bs) == bs \in [Buffers -> RenderBuffer] /\ \A i \in Buffers : Sound(bs[i])

\* The buffers keep their writer and whether they are shown.
Same(bs, cs) == \A i \in Buffers : cs[i].displaying = bs[i].displaying /\
   cs[i].inUse = bs[i].inUse

\* The inductive invariant: the render thread's buffer is the only one in use,
\* and the shown one is the one remembered on both sides.
IInv ==
    /\ AllSound(buf)
    /\ counter \in Nat
    /\ target \in Buffers \union {None} /\ last \in Buffers \union {None}
    /\ rpc = "render" => target # None
    /\ \A i \in Buffers : buf[i].inUse <=> (rpc = "render" /\ i = target)
    /\ rpc # "render" => target = None
    /\ current = last
    /\ \A i \in Buffers : buf[i].displaying <=> i = last
    /\ dpc \in {"idle", "release", "draw"}
    /\ dpc # "idle" => current # None
    /\ dpc = "release" => old \in Buffers /\ old # last

-----------------------------------------------------------------------------
\* A nonempty set of natural numbers has a least element.
LEMMA Least ==
    ASSUME NEW T \in SUBSET Nat, T # {}
    PROVE  \E x \in T : \A y \in T : x <= y
<1> DEFINE R == {ss \in Nat \X Nat : ss[1] < ss[2]}
<1>1. IsWellFoundedOn(R, Nat)
    BY NatLessThanWellFounded DEF OpToRel
<1>2. \A x, y \in Nat : y < x => <<y, x>> \in R
    OBVIOUS
<1> HIDE DEF R
<1>3. PICK x \in T : \A y \in T : ~ (<<y, x>> \in R)
    BY <1>1, WFMin, Zenon
<1>4. \A y \in T : ~(y < x)
    BY <1>2, <1>3, Zenon
<1>5. x \in Nat /\ \A y \in T : y \in Nat
    OBVIOUS
<1>6. \A y \in T : x <= y
    BY <1>4, <1>5
<1>. QED
    BY <1>6

\* The first of a nonempty set of buffers is one of them.
LEMMA FirstIn ==
    ASSUME NEW S \in SUBSET Buffers, S # {}
    PROVE  First(S) \in S
<1>1. S \in SUBSET Nat
    BY DEF Buffers
<1>2. \E i \in S : \A j \in S : i <= j
    BY <1>1, Least
<1>. QED
    BY <1>2 DEF First

\* A buffer is chosen for display among those that may be shown.
LEMMA CandidateIn ==
    ASSUME NEW bs \in [Buffers -> RenderBuffer], candidates(bs) # {}
    PROVE  candidateBuffer(bs) \in candidates(bs)
<1> DEFINE T == {bs[i].frameIndex : i \in candidates(bs)}
<1>1. T \in SUBSET Nat /\ T # {}
    BY DEF candidates, RenderBuffer
<1>2. PICK x \in T : \A y \in T : x <= y
    BY <1>1, Least, Zenon
<1>3. PICK i \in candidates(bs) : bs[i].frameIndex = x
    OBVIOUS
<1>4. \A j \in candidates(bs) : bs[i].frameIndex <= bs[j].frameIndex
    BY <1>2, <1>3
<1>. QED
    BY <1>4 DEF candidateBuffer

-----------------------------------------------------------------------------
(* The helpers of the queue. *)

\* A release takes a buffer from no writer and from no display.
LEMMA PendingKeeps ==
    ASSUME NEW bs, AllSound(bs)
    PROVE  AllSound(processPendingReleases(bs)) /\ Same(bs, processPendingReleases(bs))
<1> DEFINE cs == processPendingReleases(bs)
<1>1. cs \in [Buffers -> RenderBuffer]
    BY ZenonT(60) DEF AllSound, RenderBuffer, processPendingReleases
<1>2. ASSUME NEW i \in Buffers
      PROVE  Sound(cs[i]) /\ cs[i].displaying = bs[i].displaying /\ cs[i].inUse = bs[i].inUse
    <2>1. bs[i] \in RenderBuffer /\ Sound(bs[i])
        BY DEF AllSound
    <2>2. CASE bs[i].pendingRelease
        <3>1. cs[i] = [bs[i] EXCEPT !.fence = FALSE, !.ready = FALSE, !.displaying = FALSE,
                                    !.pendingRelease = FALSE, !.outdated = FALSE]
            BY <2>2 DEF processPendingReleases
        <3>2. bs[i].displaying = FALSE /\ bs[i].inUse = FALSE
            BY <2>1, <2>2 DEF Sound, RenderBuffer
        <3>. QED
            BY <2>1, <3>1, <3>2, Zenon DEF Sound, RenderBuffer
    <2>3. CASE ~bs[i].pendingRelease
        BY <2>1, <2>3, Zenon DEF processPendingReleases
    <2>. QED
        BY <2>2, <2>3
<1>. QED
    BY <1>1, <1>2 DEF AllSound, Same

\* A buffer becomes ready when nobody writes it, and where fences work only
\* when the GPU has finished it.
LEMMA FenceKeeps ==
    ASSUME NEW bs, AllSound(bs), NEW failed \in Failable
    PROVE  AllSound(updateFenceStatus(bs, failed)) /\ Same(bs, updateFenceStatus(bs, failed))
<1>1. (fences /\ ~faults) => failed = {}
    BY DEF Failable
<1> DEFINE cs == updateFenceStatus(bs, failed)
<1>2. cs \in [Buffers -> RenderBuffer]
    BY ZenonT(60) DEF AllSound, RenderBuffer, updateFenceStatus
<1>3. ASSUME NEW i \in Buffers
      PROVE  Sound(cs[i]) /\ cs[i].displaying = bs[i].displaying /\ cs[i].inUse = bs[i].inUse
    <2>1. bs[i] \in RenderBuffer /\ Sound(bs[i])
        BY DEF AllSound
    <2>2. CASE bs[i].fence /\ ~bs[i].ready /\ ~bs[i].inUse /\ (~bs[i].busy \/ i \in failed)
        <3>1. cs[i] = [bs[i] EXCEPT !.ready = TRUE, !.fence = FALSE]
            BY <2>2 DEF updateFenceStatus
        <3>2. bs[i].displaying = FALSE /\ bs[i].inUse = FALSE
            BY <2>1, <2>2 DEF Sound, RenderBuffer
        <3>. QED
            BY <1>1, <2>1, <2>2, <3>1, <3>2 DEF Sound, RenderBuffer
    <2>3. CASE ~(bs[i].fence /\ ~bs[i].ready /\ ~bs[i].inUse /\ (~bs[i].busy \/ i \in failed))
        BY <2>1, <2>3 DEF updateFenceStatus
    <2>. QED
        BY <2>2, <2>3
<1>. QED
    BY <1>2, <1>3 DEF AllSound, Same

\* A mark is only a mark.
LEMMA OutdatedKeeps ==
    ASSUME NEW bs, AllSound(bs), NEW aged
    PROVE  AllSound(processOutdatedFrames(bs, aged)) /\ Same(bs, processOutdatedFrames(bs, aged))
BY ZenonT(60) DEF AllSound, Sound, Same, RenderBuffer, processOutdatedFrames

\* Frames are dropped from buffers that are neither shown nor written.
LEMMA DropKeeps ==
    ASSUME NEW bs, AllSound(bs), NEW n
    PROVE  AllSound(dropOlderReadyFrames(bs, n)) /\ Same(bs, dropOlderReadyFrames(bs, n))
BY ZenonT(60) DEF AllSound, Sound, Same, RenderBuffer, dropOlderReadyFrames, Waits

\* So are they by the smart cleanup.
LEMMA SmartKeeps ==
    ASSUME NEW bs, AllSound(bs), NEW l
    PROVE  AllSound(smartCleanupIfNeeded(bs, l)) /\ Same(bs, smartCleanupIfNeeded(bs, l))
<1>1. Same(bs, bs)
    BY DEF Same
<1>. QED
    BY <1>1, DropKeeps DEF smartCleanupIfNeeded

\* The checks made before a buffer is looked for.
LEMMA ChecksKeep ==
    ASSUME NEW bs, AllSound(bs), NEW failed \in Failable, NEW aged
    PROVE  AllSound(checkBuffers(bs, failed, aged)) /\ Same(bs, checkBuffers(bs, failed, aged))
<1> DEFINE p == processPendingReleases(bs)
           u == updateFenceStatus(p, failed)
<1>1. AllSound(p) /\ Same(bs, p)
    BY PendingKeeps
<1>2. AllSound(u) /\ Same(p, u)
    BY <1>1, FenceKeeps
<1>3. AllSound(processOutdatedFrames(u, aged)) /\ Same(u, processOutdatedFrames(u, aged))
    BY <1>2, OutdatedKeeps
<1> HIDE DEF p, u
<1>4. Same(bs, processOutdatedFrames(u, aged))
    BY <1>1, <1>2, <1>3 DEF Same
<1>. QED
    BY <1>3, <1>4 DEF checkBuffers, p, u

\* After a switch the new buffer is the one on display, and no writer changed.
LEMMA SwitchKeeps ==
    ASSUME NEW bs, AllSound(bs), NEW c \in Buffers, Waits(bs[c]),
           last \in Buffers \union {None},
           \A i \in Buffers : bs[i].displaying <=> i = last
    PROVE  /\ AllSound(Switch(bs, c))
           /\ \A i \in Buffers : /\ Switch(bs, c)[i].displaying <=> i = c
                                 /\ Switch(bs, c)[i].inUse = bs[i].inUse
<1> DEFINE rs == IF last # None /\ bs[last].displaying
                 THEN [bs EXCEPT ![last].displaying = FALSE, ![last].pendingRelease = TRUE]
                 ELSE bs
           ss == [rs EXCEPT ![c].displaying = TRUE, ![c].outdated = FALSE]
           ps == processPendingReleases(ss)
<1>1. c # last
    BY DEF Waits
<1>2. /\ rs \in [Buffers -> RenderBuffer] /\ rs[c] = bs[c]
      /\ \A i \in Buffers : /\ Sound(rs[i]) /\ ~rs[i].displaying
                            /\ rs[i].inUse = bs[i].inUse
    <2>1. CASE last = None
        BY <2>1 DEF AllSound, Buffers, None
    <2>2. CASE last \in Buffers
        <3>1. rs = [bs EXCEPT ![last].displaying = FALSE, ![last].pendingRelease = TRUE]
            BY <2>2 DEF Buffers, None
        <3>2. rs \in [Buffers -> RenderBuffer] /\ \A i \in Buffers : i # last => rs[i] = bs[i]
            BY <3>1, ZenonT(60) DEF AllSound, RenderBuffer
        <3>3. /\ rs[last] = [bs[last] EXCEPT !.displaying = FALSE, !.pendingRelease = TRUE]
              /\ bs[last] \in RenderBuffer /\ Sound(bs[last]) /\ bs[last].displaying
            BY <2>2, <3>1 DEF AllSound, RenderBuffer
        <3>4. Sound(rs[last]) /\ ~rs[last].displaying /\ rs[last].inUse = bs[last].inUse
            BY <3>3, ZenonT(60) DEF Sound, RenderBuffer
        <3>. QED
            BY <1>1, <3>2, <3>4, Zenon DEF AllSound
    <2>. QED
        BY <2>1, <2>2, Zenon
<1>3. /\ AllSound(ss)
      /\ \A i \in Buffers : (ss[i].displaying <=> i = c) /\ ss[i].inUse = bs[i].inUse
    <2> HIDE DEF rs
    <2>1. [rs[c] EXCEPT !.displaying = TRUE, !.outdated = FALSE] \in RenderBuffer
        BY <1>2, ZenonT(60) DEF RenderBuffer
    <2>2. /\ ss \in [Buffers -> RenderBuffer] /\ \A i \in Buffers : i # c => ss[i] = rs[i]
          /\ ss[c] = [rs[c] EXCEPT !.displaying = TRUE, !.outdated = FALSE]
          /\ rs[c] \in RenderBuffer
        BY <1>2, <2>1
    <2> HIDE DEF ss
    <2>3. Sound(ss[c]) /\ ss[c].displaying /\ ss[c].inUse = bs[c].inUse
        <3>1. /\ bs[c].ready /\ ~bs[c].inUse /\ ~bs[c].pendingRelease
              /\ rs[c] = bs[c] /\ Sound(bs[c])
            BY <1>2 DEF Waits, AllSound
        <3>2. /\ ss[c].displaying /\ ss[c].ready = bs[c].ready /\ ss[c].inUse = bs[c].inUse
              /\ ss[c].pendingRelease = bs[c].pendingRelease /\ ss[c].busy = bs[c].busy
            BY <2>2, <3>1, ZenonT(60) DEF RenderBuffer
        <3>. QED
            BY <3>1, <3>2 DEF Sound
    <2>. QED
        BY <1>2, <2>2, <2>3, Zenon DEF AllSound
<1> HIDE DEF ss
<1>4. AllSound(ps) /\ Same(ss, ps)
    BY <1>3, PendingKeeps
<1> HIDE DEF ps
<1>5. AllSound(smartCleanupIfNeeded(ps, c)) /\ Same(ps, smartCleanupIfNeeded(ps, c))
    BY <1>4, SmartKeeps
<1>6. Switch(bs, c) = smartCleanupIfNeeded(ps, c)
    BY DEF Switch, ps, ss
<1>. QED
    BY <1>3, <1>4, <1>5, <1>6 DEF Same

-----------------------------------------------------------------------------
\* A new renderer satisfies the invariant.
LEMMA InitIInv == Init => IInv
BY DEF Init, IInv, AllSound, Sound, RenderBuffer, reset, Buffers, None

\* The first available buffer becomes the render thread's.
LEMMA AcquireKeeps ==
    ASSUME IInv, NEW bs, AllSound(bs), Same(buf, bs), available(bs) # {}, Acquire(bs),
           rpc # "render", UNCHANGED <<last, display, driver>>
    PROVE  IInv'
<1>1. PICK b \in available(bs) : b = First(available(bs))
    BY FirstIn, Zenon DEF available
<1>2. b \in Buffers /\ ~bs[b].inUse /\ ~bs[b].displaying /\ ~bs[b].ready /\ ~bs[b].pendingRelease
    BY DEF available
<1>3. /\ buf' = [bs EXCEPT ![b].inUse = TRUE, ![b].frameIndex = counter + 1]
      /\ target' = b /\ rpc' = "render" /\ counter' = counter + 1
    BY <1>1 DEF Acquire
<1>4. counter + 1 \in Nat /\ bs \in [Buffers -> RenderBuffer]
    BY DEF IInv, AllSound
<1>5. /\ buf'[b] = [bs[b] EXCEPT !.inUse = TRUE, !.frameIndex = counter + 1]
      /\ bs[b] \in RenderBuffer /\ Sound(bs[b])
    BY <1>2, <1>3, <1>4 DEF AllSound
<1>6. buf'[b] \in RenderBuffer
    BY <1>4, <1>5, Zenon DEF RenderBuffer
<1>7. \A i \in Buffers : i # b => buf'[i] = bs[i]
    BY <1>3, <1>4
<1>8. buf' \in [Buffers -> RenderBuffer]
    BY <1>3, <1>4, <1>5, <1>6, ZenonT(60)
<1>9. UNCHANGED <<fences, faults>>
    BY DEF driver
<1>10. Sound(buf[b])' /\ buf'[b].inUse /\ ~buf'[b].displaying
    BY <1>2, <1>5, <1>9 DEF Sound, RenderBuffer
<1>11. AllSound(buf)'
    <2>1. \A i \in Buffers : i # b => Sound(buf[i])'
        BY <1>7, <1>9 DEF AllSound, Sound
    <2>. QED
        BY <1>8, <1>10, <2>1 DEF AllSound
<1>12. \A i \in Buffers : /\ buf'[i].inUse <=> i = b
                          /\ buf'[i].displaying <=> i = last
    <2>1. \A i \in Buffers : i # b =>
            buf'[i].inUse = buf[i].inUse /\ buf'[i].displaying = buf[i].displaying
        BY <1>7 DEF Same
    <2>2. buf[b].displaying = bs[b].displaying
        BY <1>2 DEF Same
    <2>3. \A i \in Buffers : ~buf[i].inUse /\ (buf[i].displaying <=> i = last)
        BY DEF IInv
    <2>. QED
        BY <1>2, <1>10, <2>1, <2>2, <2>3
<1>13. b # None
    BY <1>2 DEF Buffers, None
<1>14. UNCHANGED <<last, current, dpc, old>>
    BY DEF display
<1>15. counter' \in Nat
    BY <1>3, <1>4
<1>. QED
    BY <1>2, <1>3, <1>11, <1>12, <1>13, <1>14, <1>15, Zenon DEF IInv

\* Checks that find no free buffer leave the threads where they are.
LEMMA ChecksOnly ==
    ASSUME IInv, AllSound(buf)', Same(buf, buf'), rpc # "render", rpc' # "render",
           UNCHANGED <<counter, target, last, current, dpc, old>>
    PROVE  IInv'
<1>1. \A i \in Buffers : /\ buf'[i].inUse <=> buf[i].inUse
                         /\ buf'[i].displaying <=> buf[i].displaying
    BY DEF Same
<1>. QED
    BY <1>1 DEF IInv

\* A sound array of buffers is sound after the step, whose driver is the same.
LEMMA SoundAfter ==
    ASSUME NEW bs, AllSound(bs), buf' = bs, UNCHANGED <<fences, faults>>
    PROVE  AllSound(buf)'
BY DEF AllSound, Sound

\* Every step of the two threads and of the GPU keeps the invariant.
LEMMA NextIInv == IInv /\ [Next]_vars => IInv'
<1> SUFFICES ASSUME IInv, [Next]_vars PROVE IInv'
    OBVIOUS
<1>0. AllSound(buf)
    BY DEF IInv
<1>1. CASE UNCHANGED vars
    BY <1>1 DEF IInv, AllSound, Sound, vars
<1>2. CASE initialize \/ initializeFails \/ acquireTimeout
    <2>1. /\ UNCHANGED <<buf, counter, last, target, current, dpc, old, fences, faults>>
          /\ rpc # "render" /\ rpc' # "render"
        BY <1>2 DEF initialize, initializeFails, acquireTimeout, display, driver
    <2>2. AllSound(buf)'
        BY <1>0, <2>1, SoundAfter
    <2>. QED
        BY <2>1, <2>2 DEF IInv
<1>3. CASE acquireForRender \/ acquireAfterWait
    <2>1. rpc # "render" /\ UNCHANGED <<last, display, driver>>
        BY <1>3 DEF acquireForRender, acquireAfterWait
    <2>2. PICK failed \in Failable, aged \in AgedSets :
            LET bs == checkBuffers(buf, failed, aged)
            IN \/ available(bs) # {} /\ Acquire(bs)
               \/ buf' = bs /\ rpc' # "render" /\ UNCHANGED <<counter, target>>
        <3>1. CASE acquireForRender
            BY <3>1 DEF acquireForRender
        <3>2. CASE acquireAfterWait
            BY <3>2 DEF acquireAfterWait
        <3>. QED
            BY <1>3, <3>1, <3>2
    <2>3. PICK bs : bs = checkBuffers(buf, failed, aged)
        OBVIOUS
    <2>4. AllSound(bs) /\ Same(buf, bs)
        BY <1>0, <2>3, ChecksKeep
    <2>5. CASE available(bs) # {} /\ Acquire(bs)
        BY <2>1, <2>4, <2>5, AcquireKeeps
    <2>6. CASE buf' = bs /\ rpc' # "render" /\ UNCHANGED <<counter, target>>
        <3>1. UNCHANGED <<last, current, dpc, old, fences, faults>>
            BY <2>1 DEF display, driver
        <3>2. AllSound(buf)' /\ Same(buf, buf')
            BY <2>4, <2>6, <3>1, SoundAfter, SMTT(60)
        <3>. QED
            BY <2>1, <2>6, <3>1, <3>2, ChecksOnly, SMTT(60)
    <2>. QED
        BY <2>2, <2>3, <2>5, <2>6
<1>4. CASE markRenderFinished
    <2>1. /\ rpc = "render" /\ target' = None /\ rpc' = "idle"
          /\ UNCHANGED <<counter, last, current, dpc, old, fences, faults>>
        BY <1>4 DEF markRenderFinished, display, driver
    <2>2. /\ target \in Buffers /\ buf[target] \in RenderBuffer
          /\ buf[target].inUse /\ ~buf[target].ready /\ ~buf[target].displaying
          /\ ~buf[target].pendingRelease
        BY <2>1, SMTT(60) DEF IInv, AllSound, Sound
    <2>3. PICK fence \in BOOLEAN :
            LET bs == [buf EXCEPT ![target].fence = fence, ![target].inUse = FALSE,
                                  ![target].busy = TRUE,
                                  ![target].ready = IF fence THEN @ ELSE TRUE]
            IN /\ fences /\ ~faults => fence
               /\ buf' = IF fence THEN bs ELSE dropOlderReadyFrames(bs, bs[target].frameIndex)
        BY <1>4, ZenonT(60) DEF markRenderFinished
    <2>4. PICK bs : bs = [buf EXCEPT ![target].fence = fence, ![target].inUse = FALSE,
                                     ![target].busy = TRUE,
                                     ![target].ready = IF fence THEN @ ELSE TRUE]
        BY Zenon
    <2>5. /\ bs[target] = [buf[target] EXCEPT !.fence = fence, !.inUse = FALSE, !.busy = TRUE,
                                              !.ready = IF fence THEN @ ELSE TRUE]
          /\ \A i \in Buffers : i # target => bs[i] = buf[i]
          /\ DOMAIN bs = Buffers /\ bs = [i \in Buffers |-> bs[i]]
        BY <1>0, <2>2, <2>4, Zenon DEF AllSound
    <2>6. bs[target] \in RenderBuffer
        BY <2>2, <2>5, ZenonT(60) DEF RenderBuffer
    <2>7. /\ ~bs[target].inUse /\ ~bs[target].displaying /\ ~bs[target].pendingRelease
          /\ fence => ~bs[target].ready
        BY <2>2, <2>5 DEF RenderBuffer
    <2>8. Sound(bs[target])
        BY <2>3, <2>7 DEF Sound
    <2>9. AllSound(bs)
        BY <1>0, <2>5, <2>6, <2>8 DEF AllSound
    <2>10. \A i \in Buffers : ~bs[i].inUse /\ (bs[i].displaying <=> i = last)
        BY <2>1, <2>2, <2>5, <2>7, ZenonT(60) DEF IInv
    <2>11. PICK cs : /\ cs \in {bs, dropOlderReadyFrames(bs, bs[target].frameIndex)}
                     /\ buf' = cs
        BY <2>3, <2>4, Zenon
    <2>12. AllSound(cs) /\ Same(bs, cs)
        BY <2>9, <2>11, DropKeeps DEF Same
    <2>13. AllSound(buf)'
        BY <2>1, <2>11, <2>12, SoundAfter
    <2>14. \A i \in Buffers : ~buf'[i].inUse /\ (buf'[i].displaying <=> i = last)
        BY <2>10, <2>11, <2>12 DEF Same
    <2>. QED
        BY <2>1, <2>13, <2>14, SMTT(60) DEF IInv
<1>5. CASE renderFails
    <2>1. /\ rpc = "render" /\ target' = None /\ rpc' = "idle"
          /\ UNCHANGED <<counter, last, current, dpc, old, fences, faults>>
          /\ buf' = [buf EXCEPT ![target].inUse = FALSE]
        BY <1>5 DEF renderFails, display, driver
    <2>2. target \in Buffers /\ buf[target] \in RenderBuffer /\ Sound(buf[target])
        BY <2>1 DEF IInv, AllSound
    <2>3. /\ buf'[target] = [buf[target] EXCEPT !.inUse = FALSE]
          /\ \A i \in Buffers : i # target => buf'[i] = buf[i]
        BY <1>0, <2>1, <2>2 DEF AllSound
    <2>4. /\ buf'[target] \in RenderBuffer /\ ~buf'[target].inUse
          /\ buf'[target].displaying = buf[target].displaying
        BY <2>2, <2>3, ZenonT(60) DEF RenderBuffer
    <2>6. \A i \in Buffers : Sound(buf[i])'
        <3>1. \A i \in Buffers : i # target => Sound(buf[i])'
            BY <1>0, <2>1, <2>3 DEF AllSound, Sound
        <3>2. PICK t \in Buffers : t = target
            BY <2>2
        <3>3. Sound(buf[t])'
            BY <2>1, <2>2, <2>3, <3>2 DEF Sound, RenderBuffer
        <3>. QED
            BY <3>1, <3>2, <3>3
    <2>7. buf' \in [Buffers -> RenderBuffer]
        BY <1>0, <2>1, <2>2, <2>3, <2>4 DEF AllSound
    <2>8. \A i \in Buffers : ~buf'[i].inUse /\ (buf'[i].displaying <=> i = last)
        BY <2>1, <2>2, <2>3, <2>4, SMTT(60) DEF IInv
    <2>. QED
        BY <2>1, <2>6, <2>7, <2>8, Zenon DEF IInv, AllSound
<1>6. CASE destroy
    <2>1. /\ buf' = [i \in Buffers |-> reset] /\ counter' = 0 /\ last' = None /\ current' = None
          /\ UNCHANGED <<rpc, target, dpc, old>> /\ rpc # "render" /\ dpc = "idle"
        BY <1>6 DEF destroy
    <2>2. AllSound(buf)'
        BY <2>1 DEF AllSound, Sound, RenderBuffer, reset
    <2>3. \A i \in Buffers : ~buf'[i].inUse /\ ~buf'[i].displaying /\ i # None
        BY <2>1 DEF reset, Buffers, None
    <2>. QED
        BY <2>1, <2>2, <2>3, SMTT(60) DEF IInv
<1>7. CASE acquireForDisplay
    <2>1. dpc = "idle" /\ UNCHANGED <<counter, rpc, target, fences, faults>>
        BY <1>7 DEF acquireForDisplay, driver
    <2>2. PICK failed \in Failable, tooOld \in BOOLEAN :
            LET bs == updateFenceStatus(buf, failed)
                c == candidateBuffer(bs)
            IN IF candidates(bs) # {} /\ shouldSwitch(bs, c, tooOld)
               THEN /\ buf' = Switch(bs, c) /\ last' = c
                    /\ old' = current /\ current' = c
                    /\ dpc' = IF current = None THEN "draw" ELSE "release"
               ELSE /\ buf' = bs
                    /\ dpc' = IF current = None THEN "idle" ELSE "draw"
                    /\ UNCHANGED <<last, old, current>>
        BY <1>7 DEF acquireForDisplay
    <2>3. PICK bs : bs = updateFenceStatus(buf, failed)
        OBVIOUS
    <2>4. AllSound(bs) /\ Same(buf, bs)
        BY <1>0, <2>3, FenceKeeps
    <2>5. \A i \in Buffers : /\ bs[i].inUse <=> (rpc = "render" /\ i = target)
                             /\ bs[i].displaying <=> i = last
        BY <2>4 DEF IInv, Same
    <2>6. CASE /\ buf' = bs
               /\ dpc' = IF current = None THEN "idle" ELSE "draw"
               /\ UNCHANGED <<last, old, current>>
        <3>1. AllSound(buf)'
            BY <2>1, <2>4, <2>6, SoundAfter, SMTT(60)
        <3>. QED
            BY <2>1, <2>5, <2>6, <3>1 DEF IInv
    <2>7. ASSUME NEW c, c = candidateBuffer(bs), candidates(bs) # {},
                 buf' = Switch(bs, c), last' = c, old' = current, current' = c,
                 dpc' = IF current = None THEN "draw" ELSE "release"
          PROVE  IInv'
        <3>1. c \in candidates(bs)
            BY <2>4, <2>7, CandidateIn DEF AllSound
        <3>2. c \in Buffers /\ Waits(bs[c]) /\ c # None
            BY <3>1 DEF candidates, Eligible, Buffers, None
        <3>3. c # last
            BY <2>5, <3>2 DEF Waits
        <3>4. last \in Buffers \union {None} /\ current = last
            BY DEF IInv
        <3>5. PICK cs : cs = Switch(bs, c)
            OBVIOUS
        <3>6. /\ AllSound(cs)
              /\ \A i \in Buffers : /\ cs[i].displaying <=> i = c
                                    /\ cs[i].inUse = bs[i].inUse
            BY <2>4, <2>5, <3>2, <3>4, <3>5, SwitchKeeps, SMTT(60)
        <3>7. AllSound(buf)'
            BY <2>1, <2>7, <3>5, <3>6, SoundAfter, SMTT(60)
        <3>8. \A i \in Buffers : /\ buf'[i].inUse <=> (rpc' = "render" /\ i = target')
                                 /\ buf'[i].displaying <=> i = last'
            BY <2>1, <2>5, <2>7, <3>5, <3>6, SMTT(60)
        <3>. QED
            BY <2>1, <2>7, <3>2, <3>3, <3>4, <3>7, <3>8, SMTT(60) DEF IInv
    <2>. QED
        BY <2>2, <2>3, <2>6, <2>7, SMTT(60)
<1>8. CASE releaseDisplayBuffer
    <2>1. dpc = "release" /\ old \in Buffers /\ ~buf[old].displaying
        BY <1>8 DEF releaseDisplayBuffer, IInv
    <2>2. /\ UNCHANGED <<buf, counter, last, rpc, target, current, fences, faults>>
          /\ dpc' = "draw"
        BY <1>8, <2>1 DEF releaseDisplayBuffer, driver
    <2>3. AllSound(buf)'
        BY <1>0, <2>2, SoundAfter, SMTT(60)
    <2>. QED
        BY <2>1, <2>2, <2>3 DEF IInv
<1>9. CASE drawFbo
    <2>1. /\ UNCHANGED <<buf, counter, last, rpc, target, current, old, fences, faults>>
          /\ dpc' = "idle"
        BY <1>9 DEF drawFbo, driver
    <2>2. AllSound(buf)'
        BY <1>0, <2>1, SoundAfter, SMTT(60)
    <2>. QED
        BY <2>1, <2>2 DEF IInv
<1>10. CASE GpuFinish
    <2>1. UNCHANGED <<counter, last, rpc, target, current, dpc, old, fences, faults>>
        BY <1>10 DEF GpuFinish, display, driver
    <2>2. PICK g \in Buffers : buf' = [buf EXCEPT ![g].busy = FALSE]
        BY <1>10, Zenon DEF GpuFinish
    <2>3. /\ buf[g] \in RenderBuffer /\ Sound(buf[g])
          /\ buf'[g] = [buf[g] EXCEPT !.busy = FALSE]
          /\ \A i \in Buffers : i # g => buf'[i] = buf[i]
        BY <1>0, <2>2 DEF AllSound
    <2>4. /\ buf'[g] \in RenderBuffer
          /\ buf'[g].inUse = buf[g].inUse /\ buf'[g].displaying = buf[g].displaying
        BY <2>3, ZenonT(60) DEF RenderBuffer
    <2>5. \A i \in Buffers : Sound(buf[i])'
        BY <1>0, <2>1, <2>3 DEF AllSound, Sound, RenderBuffer
    <2>6. buf' \in [Buffers -> RenderBuffer]
        BY <1>0, <2>2, <2>3, <2>4 DEF AllSound
    <2>7. \A i \in Buffers : /\ buf'[i].inUse <=> buf[i].inUse
                             /\ buf'[i].displaying <=> buf[i].displaying
        BY <2>3, <2>4, Zenon
    <2>. QED
        BY <2>1, <2>5, <2>6, <2>7 DEF IInv, AllSound
<1>. QED
    BY <1>1, <1>2, <1>3, <1>4, <1>5, <1>6, <1>7, <1>8, <1>9, <1>10, SMTT(60) DEF Next

\* The picture on the screen is whole: for every number of buffers, whatever
\* the order of the fences, of the drops and of the two threads, the buffer
\* that the UI thread draws has been rendered and has no writer.
THEOREM DrawsWhole == Spec => []ShownIsWhole
<1>1. IInv => ShownIsWhole
    <2> SUFFICES ASSUME IInv, dpc = "draw"
                 PROVE  /\ current # target
                        /\ buf[current].ready /\ ~buf[current].inUse
                        /\ ~buf[current].pendingRelease
                        /\ (fences /\ ~faults) => ~buf[current].busy
        BY DEF ShownIsWhole
    <2>1. current \in Buffers /\ buf[current].displaying
        BY DEF IInv
    <2>2. Sound(buf[current])
        BY <2>1 DEF IInv, AllSound
    <2>3. current # target
        BY <2>1, <2>2, SMTT(60) DEF IInv, Sound
    <2>. QED
        BY <2>1, <2>2, <2>3 DEF Sound
<1>. QED
    BY InitIInv, NextIInv, <1>1, PTL DEF Spec

-----------------------------------------------------------------------------
(* The devices of the interop. *)

\* The count is the number of references, and an open device has one.
Counted(k) ==
    /\ dControl[k].refCount = Cardinality(Interop!Holders(k)) + IF dManager[k].wgl THEN 1 ELSE 0
    /\ dControl[k].open <=> dControl[k].refCount > 0
    /\ dManager[k].wgl => dManager[k].initWglFlag

\* A renderer has a reference from the constructor to the destructor; while
\* it is not counted yet the manager has one too; a texture is registered
\* through the reference.
Orderly(r) ==
    /\ dRenderer[r].wgl => /\ dRenderer[r].pc \in {"counting", "made", "ready"}
                           /\ dManager[dRenderer[r].kind].initWglFlag
    /\ dRenderer[r].wgl /\ dRenderer[r].pc = "counting" => dManager[dRenderer[r].kind].wgl
    /\ dRenderer[r].handle => dRenderer[r].pc = "ready" /\ dRenderer[r].wgl

\* The inductive invariant, of the runs in which main() waits.
InteropInv ==
    dQuiet => /\ Interop!TypeOK
              /\ \A k \in DeviceKinds : Counted(k)
              /\ \A r \in Renderers : Orderly(r)

-----------------------------------------------------------------------------
\* A kind keeps its count when its block, the manager's reference and the
\* renderers that hold one are the same.
LEMMA CountKept ==
    ASSUME NEW k \in DeviceKinds, Counted(k), dControl'[k] = dControl[k],
           dManager'[k].wgl = dManager[k].wgl,
           dManager[k].initWglFlag => dManager'[k].initWglFlag,
           Interop!Holders(k)' = Interop!Holders(k)
    PROVE  Counted(k)'
BY DEF Counted

\* The renderers are finitely many, and so are those that hold a reference.
LEMMA HoldersFinite ==
    ASSUME IsFiniteSet(Renderers), NEW k
    PROVE  /\ IsFiniteSet(Interop!Holders(k)) /\ Cardinality(Interop!Holders(k)) \in Nat
           /\ Cardinality(Interop!Holders(k)) = 0 <=> Interop!Holders(k) = {}
<1>1. Interop!Holders(k) \subseteq Renderers
    BY DEF Interop!Holders
<1>. QED
    BY <1>1, FS_Subset, FS_CardinalityType, FS_EmptySet, SMTT(60)

RendererType == [pc : {"none", "wgl", "counting", "made", "ready", "gone"}, kind : DeviceKinds,
             device : BOOLEAN, wgl : BOOLEAN, processor : BOOLEAN, target : BOOLEAN,
             handle : BOOLEAN, locked : BOOLEAN]
ManagerType == [initFlag : BOOLEAN, initWglFlag : BOOLEAN, device : BOOLEAN, wgl : BOOLEAN]

\* getDevice() has nothing to do with the reference to the WGL device.
LEMMA DeviceOnly ==
    ASSUME NEW m \in ManagerType, NEW made \in BOOLEAN
    PROVE  /\ Interop!getDevice(m, made) \in ManagerType
           /\ Interop!getDevice(m, made).wgl = m.wgl
           /\ Interop!getDevice(m, made).initWglFlag = m.initWglFlag
<1>1. CASE m.initFlag
    BY <1>1 DEF Interop!getDevice
<1>2. CASE ~m.initFlag
    <2>1. Interop!getDevice(m, made) = [m EXCEPT !.initFlag = TRUE, !.device = made]
        BY <1>2, SMTT(60) DEF Interop!getDevice
    <2>. QED
        BY <2>1, ZenonT(60) DEF ManagerType
<1>. QED
    BY <1>1, <1>2

\* Before the first renderer nothing is referred to.
LEMMA InteropInit ==
    ASSUME IsFiniteSet(Renderers), DeviceKinds # {}
    PROVE  Interop!Init => InteropInv
<1> SUFFICES ASSUME Interop!Init PROVE InteropInv
    BY SMTT(60)
<1>1. Interop!TypeOK
    BY SMTT(60) DEF Interop!Init, Interop!TypeOK, Interop!NoRenderer
<1>2. \A r \in Renderers : ~dRenderer[r].wgl /\ ~dRenderer[r].handle
    BY DEF Interop!Init, Interop!NoRenderer
<1>3. \A k \in DeviceKinds : Interop!Holders(k) = {}
    BY <1>2 DEF Interop!Holders
<1>4. \A k \in DeviceKinds : Cardinality(Interop!Holders(k)) = 0
    BY <1>3, FS_EmptySet
<1>5. \A k \in DeviceKinds : Counted(k)
    BY <1>4 DEF Interop!Init, Counted
<1>. QED
    BY <1>1, <1>2, <1>5 DEF InteropInv, Orderly

\* A constructor that has not got its reference holds none.
LEMMA ConstructKeeps ==
    ASSUME InteropInv, dQuiet, NEW r \in Renderers, NEW k \in DeviceKinds, Interop!construct(r, k)
    PROVE  InteropInv'
<1>1. Interop!TypeOK /\ (\A q \in DeviceKinds : Counted(q)) /\ (\A q \in Renderers : Orderly(q))
    BY DEF InteropInv
<1>2. PICK made \in BOOLEAN :
        /\ dManager' = [dManager EXCEPT ![k] = Interop!getDevice(dManager[k], made)]
        /\ dRenderer' = [dRenderer EXCEPT ![r] =
             [Interop!NoRenderer EXCEPT !.pc = "wgl", !.kind = k,
                                !.device = Interop!getDevice(dManager[k], made).device]]
    BY Zenon DEF Interop!construct
<1>3. UNCHANGED <<dTable, dControl, dQuiet>> /\ dRenderer[r].pc = "none"
    BY DEF Interop!construct
<1>4. /\ Interop!getDevice(dManager[k], made) \in ManagerType
      /\ Interop!getDevice(dManager[k], made).wgl = dManager[k].wgl
      /\ Interop!getDevice(dManager[k], made).initWglFlag = dManager[k].initWglFlag
    <2>1. dManager[k] \in ManagerType
        BY <1>1 DEF Interop!TypeOK, ManagerType
    <2>. QED
        BY <2>1, DeviceOnly
<1>5. \A q \in DeviceKinds : /\ dManager'[q].wgl = dManager[q].wgl
                             /\ dManager'[q].initWglFlag = dManager[q].initWglFlag
    BY <1>1, <1>2, <1>4 DEF Interop!TypeOK
<1>6. /\ dRenderer'[r].pc = "wgl" /\ ~dRenderer'[r].wgl /\ ~dRenderer'[r].handle
      /\ ~dRenderer[r].wgl
      /\ \A q \in Renderers : q # r => dRenderer'[q] = dRenderer[q]
    BY <1>1, <1>2, <1>3 DEF Interop!TypeOK, Interop!NoRenderer, Orderly
<1>7. Interop!TypeOK'
    <2>1. Interop!getDevice(dManager[k], made).device \in BOOLEAN
        BY <1>4 DEF ManagerType
    <2>. QED
        BY <1>1, <1>2, <1>3, <1>4, <2>1, ZenonT(60)
           DEF Interop!TypeOK, Interop!NoRenderer, ManagerType
<1>8. \A q \in DeviceKinds : Interop!Holders(q)' = Interop!Holders(q)
    BY <1>6, SMTT(60) DEF Interop!Holders
<1>9. \A q \in DeviceKinds : Counted(q)'
    BY <1>1, <1>3, <1>5, <1>8, CountKept, SMTT(60)
<1>10. \A q \in Renderers : Orderly(q)'
    BY <1>1, <1>5, <1>6 DEF Orderly, Interop!TypeOK
<1>. QED
    BY <1>7, <1>9, <1>10 DEF InteropInv

\* The WGL device is opened with the manager's reference, when no renderer of
\* its kind can have one.
LEMMA InitializeWglKeeps ==
    ASSUME IsFiniteSet(Renderers), InteropInv, dQuiet, NEW r \in Renderers,
       Interop!initializeWgl(r)
    PROVE  InteropInv'
<1>1. Interop!TypeOK /\ (\A q \in DeviceKinds : Counted(q)) /\ (\A q \in Renderers : Orderly(q))
    BY DEF InteropInv
<1>2. PICK k \in DeviceKinds : k = dRenderer[r].kind
    BY <1>1 DEF Interop!TypeOK
<1>3. /\ ~dManager[k].initWglFlag /\ UNCHANGED <<dRenderer, dQuiet>>
      /\ dTable' \in {"no", "whole", "missing"}
    BY <1>1, <1>2 DEF Interop!initializeWgl, Interop!TypeOK
<1>4. PICK m \in ManagerType, opened \in BOOLEAN :
        /\ dManager' = [dManager EXCEPT ![k] = [m EXCEPT !.initWglFlag = TRUE, !.wgl = opened]]
        /\ dControl' = [dControl EXCEPT ![k] =
                         [refCount |-> IF opened THEN 1 ELSE 0, open |-> opened]]
    <2>1. dManager[k] \in ManagerType
        BY <1>1 DEF Interop!TypeOK, ManagerType
    <2>2. PICK made, opened \in BOOLEAN :
            LET m == IF dManager[k].device THEN dManager[k] ELSE Interop!getDevice(dManager[k],
               made)
            IN /\ dManager' = [dManager EXCEPT ![k] =
                                [m EXCEPT !.initWglFlag = TRUE, !.wgl = opened]]
               /\ dControl' = [dControl EXCEPT ![k] =
                                [refCount |-> IF opened THEN 1 ELSE 0, open |-> opened]]
        BY <1>2, ZenonT(60) DEF Interop!initializeWgl
    <2>3. Interop!getDevice(dManager[k], made) \in ManagerType
        BY <2>1, DeviceOnly
    <2>4. PICK m : m = IF dManager[k].device THEN dManager[k]
                       ELSE Interop!getDevice(dManager[k], made)
        OBVIOUS
    <2>5. m \in ManagerType
        BY <2>1, <2>3, <2>4, SMTT(60)
    <2>. QED
        BY <2>2, <2>4, <2>5, ZenonT(60)
<1>5. [m EXCEPT !.initWglFlag = TRUE, !.wgl = opened] \in ManagerType
    BY <1>4, Zenon DEF ManagerType
<1>6. /\ dManager'[k].initWglFlag /\ dManager'[k].wgl = opened
      /\ dControl'[k].refCount = IF opened THEN 1 ELSE 0
      /\ dControl'[k].open = opened
      /\ \A q \in DeviceKinds : q # k => dManager'[q] = dManager[q] /\ dControl'[q] = dControl[q]
    BY <1>1, <1>4, SMTT(60) DEF Interop!TypeOK, ManagerType
<1>7. Interop!TypeOK'
    BY <1>1, <1>3, <1>4, <1>5, SMTT(60) DEF Interop!TypeOK, ManagerType
<1>8. \A q \in DeviceKinds : Interop!Holders(q)' = Interop!Holders(q)
    BY <1>3, SMTT(60) DEF Interop!Holders
<1>9. Interop!Holders(k) = {}
    BY <1>1, <1>3, SMTT(60) DEF Interop!Holders, Orderly
<1>10. Cardinality(Interop!Holders(k)') = 0
    BY <1>8, <1>9, FS_EmptySet, SMTT(60)
<1>11. Counted(k)'
    BY <1>6, <1>10, SMTT(60) DEF Counted
<1>12. \A q \in DeviceKinds : q # k => Counted(q)'
    BY <1>1, <1>6, <1>8, CountKept, SMTT(60)
<1>13. ~dManager[k].wgl
    BY <1>1, <1>3, SMTT(60) DEF Counted
<1>14. \A q \in Renderers : Orderly(q)'
    BY <1>1, <1>3, <1>6, <1>13, SMTT(60) DEF Orderly, Interop!TypeOK
<1>. QED
    BY <1>7, <1>11, <1>12, <1>14, SMTT(60) DEF InteropInv

\* Whoever reads a reference from the manager finds the manager's there.
LEMMA ReadControlKeeps ==
    ASSUME InteropInv, dQuiet, NEW r \in Renderers, Interop!readControl(r)
    PROVE  InteropInv'
<1>1. Interop!TypeOK /\ (\A q \in DeviceKinds : Counted(q)) /\ (\A q \in Renderers : Orderly(q))
    BY DEF InteropInv
<1>2. PICK k \in DeviceKinds : k = dRenderer[r].kind
    BY <1>1 DEF Interop!TypeOK
<1>3. /\ dRenderer[r].pc = "wgl" /\ dManager[k].initWglFlag
      /\ dRenderer' = [dRenderer EXCEPT ![r].wgl = dManager[k].wgl, ![r].pc = "counting"]
      /\ UNCHANGED <<dTable, dManager, dControl, dQuiet>>
    BY <1>2 DEF Interop!readControl
<1>4. Interop!TypeOK'
    BY <1>1, <1>3, SMTT(60) DEF Interop!TypeOK
<1>5. /\ dRenderer'[r].pc = "counting" /\ dRenderer'[r].kind = k
      /\ dRenderer'[r].wgl = dManager[k].wgl /\ dRenderer'[r].handle = dRenderer[r].handle
      /\ \A q \in Renderers : q # r => dRenderer'[q] = dRenderer[q]
    BY <1>1, <1>2, <1>3 DEF Interop!TypeOK
<1>6. \A q \in DeviceKinds : Interop!Holders(q)' = Interop!Holders(q)
    BY <1>3, <1>5, Zenon DEF Interop!Holders
<1>7. \A q \in DeviceKinds : Counted(q)'
    BY <1>1, <1>3, <1>6, CountKept
<1>8. \A q \in Renderers : Orderly(q)'
    BY <1>1, <1>3, <1>5, ZenonT(60) DEF Orderly
<1>. QED
    BY <1>4, <1>7, <1>8 DEF InteropInv

\* A reference that counts itself adds one holder and one to the count.
LEMMA CountReferenceKeeps ==
    ASSUME IsFiniteSet(Renderers), InteropInv, dQuiet, NEW r \in Renderers,
       Interop!countReference(r)
    PROVE  InteropInv'
<1>1. Interop!TypeOK /\ (\A q \in DeviceKinds : Counted(q)) /\ (\A q \in Renderers : Orderly(q))
    BY DEF InteropInv
<1>2. PICK k \in DeviceKinds : k = dRenderer[r].kind
    BY <1>1 DEF Interop!TypeOK
<1>3. /\ dRenderer[r].pc = "counting"
      /\ dRenderer' = [dRenderer EXCEPT ![r].pc = "made"]
      /\ UNCHANGED <<dTable, dManager, dQuiet>>
      /\ dControl' = IF dRenderer[r].wgl THEN [dControl EXCEPT ![k] = Interop!acquire(dControl[k])]
                                      ELSE dControl
    BY <1>2 DEF Interop!countReference
<1>4. /\ dRenderer'[r].pc = "made" /\ dRenderer'[r].kind = k
      /\ dRenderer'[r].wgl = dRenderer[r].wgl /\ dRenderer'[r].handle = dRenderer[r].handle
      /\ \A q \in Renderers : q # r => dRenderer'[q] = dRenderer[q]
    BY <1>1, <1>2, <1>3, SMTT(60) DEF Interop!TypeOK
<1>5. \A q \in Renderers : Orderly(q)'
    BY <1>1, <1>2, <1>3, <1>4 DEF Orderly
<1>6. \A q \in DeviceKinds : q # k => Interop!Holders(q)' = Interop!Holders(q)
    BY <1>2, <1>4 DEF Interop!Holders
<1>7. CASE ~dRenderer[r].wgl
    <2>1. Interop!Holders(k)' = Interop!Holders(k) /\ UNCHANGED dControl
        BY <1>3, <1>4, <1>7 DEF Interop!Holders
    <2>2. \A q \in DeviceKinds : Counted(q)'
        BY <1>1, <1>3, <1>6, <2>1, CountKept
    <2>3. Interop!TypeOK'
        BY <1>1, <1>3, <2>1, ZenonT(60) DEF Interop!TypeOK
    <2>. QED
        BY <1>5, <2>2, <2>3 DEF InteropInv
<1>8. CASE dRenderer[r].wgl
    <2>1. dManager[k].wgl
        BY <1>1, <1>2, <1>3, <1>8 DEF Orderly
    <2>2. dControl[k].open /\ dControl[k].refCount \in Nat
        <3>1. Counted(k) /\ Cardinality(Interop!Holders(k)) \in Nat
            BY <1>1, HoldersFinite
        <3>. QED
            BY <2>1, <3>1 DEF Counted
    <2>3. dControl' = [dControl EXCEPT ![k].refCount = @ + 1]
        BY <1>1, <1>3, <1>8, <2>2 DEF Interop!acquire, Interop!TypeOK
    <2>4. /\ dControl'[k].refCount = dControl[k].refCount + 1 /\ dControl'[k].open
          /\ \A q \in DeviceKinds : q # k => dControl'[q] = dControl[q]
        BY <1>1, <2>2, <2>3 DEF Interop!TypeOK
    <2>5. Interop!Holders(k)' = Interop!Holders(k) \union {r} /\ r \notin Interop!Holders(k)
        BY <1>2, <1>3, <1>4, <1>8 DEF Interop!Holders
    <2>6. Cardinality(Interop!Holders(k)') = Cardinality(Interop!Holders(k)) + 1
        BY <2>5, HoldersFinite, FS_AddElement, Zenon
    <2>7. Counted(k)'
        <3>1. Counted(k) /\ Cardinality(Interop!Holders(k)) \in Nat
            BY <1>1, HoldersFinite
        <3>. QED
            BY <1>3, <2>1, <2>4, <2>6, <3>1 DEF Counted
    <2>8. \A q \in DeviceKinds : q # k => Counted(q)'
        BY <1>1, <1>3, <1>6, <2>4, CountKept, SMTT(60)
    <2>9. Interop!TypeOK'
        <3>1. dControl' \in [DeviceKinds -> [refCount : Nat, open : BOOLEAN]]
            BY <1>1, <2>2, <2>3 DEF Interop!TypeOK
        <3>. QED
            BY <1>1, <1>3, <3>1, SMTT(60) DEF Interop!TypeOK
    <2>. QED
        BY <1>5, <2>7, <2>8, <2>9 DEF InteropInv
<1>. QED
    BY <1>7, <1>8

\* Registering and rendering leave the references alone, and only a renderer
\* that has one registers its texture.
LEMMA RegisterKeeps ==
    ASSUME InteropInv, dQuiet, NEW r \in Renderers,
       Interop!initInteropsResource(r) \/ Interop!renderFrame(r)
    PROVE  InteropInv'
<1>1. Interop!TypeOK /\ (\A q \in DeviceKinds : Counted(q)) /\ (\A q \in Renderers : Orderly(q))
    BY DEF InteropInv
<1>2. /\ UNCHANGED <<dTable, dManager, dControl, dQuiet>> /\ Interop!TypeOK'
      /\ dRenderer[r].pc \in {"made", "ready"} /\ dRenderer'[r].pc \in {"made", "ready"}
      /\ dRenderer'[r].kind = dRenderer[r].kind /\ dRenderer'[r].wgl = dRenderer[r].wgl
      /\ dRenderer'[r].handle => dRenderer'[r].pc = "ready" /\ dRenderer[r].wgl
      /\ \A q \in Renderers : q # r => dRenderer'[q] = dRenderer[q]
    <2>1. CASE Interop!initInteropsResource(r)
        <3>1. PICK device, processor, textured, registered \in BOOLEAN :
                /\ device => dRenderer[r].device
                /\ processor => device
                /\ textured => processor
                /\ registered => textured /\ dRenderer[r].wgl
                /\ dRenderer' = [dRenderer EXCEPT
                     ![r].processor = @ \/ processor,
                     ![r].target = IF processor THEN textured ELSE @,
                     ![r].handle = registered,
                     ![r].pc = IF registered THEN "ready" ELSE "made"]
            BY <2>1, Zenon DEF Interop!initInteropsResource
        <3>2. dRenderer[r].pc = "made" /\ UNCHANGED <<dTable, dManager, dControl, dQuiet>>
            BY <2>1, Zenon DEF Interop!initInteropsResource
        <3>3. dRenderer[r] \in RendererType /\ dRenderer \in [Renderers -> RendererType]
            BY <1>1 DEF Interop!TypeOK, RendererType
        <3>4. PICK p, t \in BOOLEAN : p = (dRenderer[r].processor \/ processor)
                                     /\ t = IF processor THEN textured ELSE dRenderer[r].target
            BY <3>3 DEF RendererType
        <3>5. dRenderer' = [dRenderer EXCEPT ![r] =
                [dRenderer[r] EXCEPT !.processor = p, !.target = t, !.handle = registered,
                                    !.pc = IF registered THEN "ready" ELSE "made"]]
            BY <3>1, <3>3, <3>4, ZenonT(60) DEF RendererType
        <3>6. [dRenderer[r] EXCEPT !.processor = p, !.target = t, !.handle = registered,
                                  !.pc = IF registered THEN "ready" ELSE "made"] \in RendererType
            BY <3>3, ZenonT(60) DEF RendererType
        <3>7. dRenderer' \in [Renderers -> RendererType]
            BY <3>3, <3>5, <3>6
        <3>8. Interop!TypeOK'
            BY <1>1, <3>2, <3>7 DEF Interop!TypeOK, RendererType
        <3>. QED
            BY <3>1, <3>2, <3>3, <3>5, <3>8, SMTT(60) DEF RendererType
    <2>2. CASE Interop!renderFrame(r)
        <3>1. dRenderer[r] \in RendererType /\ dRenderer \in [Renderers -> RendererType] /\
           Orderly(r)
            BY <1>1 DEF Interop!TypeOK, RendererType
        <3>2. /\ dRenderer' = [dRenderer EXCEPT ![r].locked = TRUE] /\ dRenderer[r].pc = "ready"
              /\ UNCHANGED <<dTable, dManager, dControl, dQuiet>>
            BY <2>2 DEF Interop!renderFrame
        <3>3. dRenderer' \in [Renderers -> RendererType]
            BY <3>1, <3>2, ZenonT(60) DEF RendererType
        <3>4. Interop!TypeOK'
            BY <1>1, <3>2, <3>3 DEF Interop!TypeOK, RendererType
        <3>5. /\ dRenderer'[r] = [dRenderer[r] EXCEPT !.locked = TRUE]
              /\ \A q \in Renderers : q # r => dRenderer'[q] = dRenderer[q]
            BY <3>1, <3>2
        <3>6. /\ dRenderer'[r].pc = "ready" /\ dRenderer'[r].kind = dRenderer[r].kind
              /\ dRenderer'[r].wgl = dRenderer[r].wgl /\
                 dRenderer'[r].handle = dRenderer[r].handle
            BY <3>1, <3>2, <3>5, SMTT(60) DEF RendererType
        <3>. QED
            BY <3>1, <3>2, <3>4, <3>5, <3>6, SMTT(60) DEF Orderly
    <2>. QED
        BY <2>1, <2>2, ZenonT(60)
<1>3. \A q \in DeviceKinds : Interop!Holders(q)' = Interop!Holders(q)
    BY <1>2, SMTT(60) DEF Interop!Holders
<1>4. \A q \in DeviceKinds : Counted(q)'
    BY <1>1, <1>2, <1>3, CountKept, SMTT(60)
<1>5. \A q \in Renderers : Orderly(q)'
    BY <1>1, <1>2, SMTT(60) DEF Orderly
<1>. QED
    BY <1>2, <1>4, <1>5 DEF InteropInv

\* What a release leaves of a control block with n + 1 references.
LEMMA ReleaseCounts ==
    ASSUME NEW c \in [refCount : Nat, open : BOOLEAN], NEW n \in Nat,
           c.refCount = n + 1, c.open
    PROVE  /\ Interop!release(c) \in [refCount : Nat, open : BOOLEAN]
           /\ Interop!release(c).refCount = n /\ (Interop!release(c).open <=> n > 0)
<1>1. CASE n = 0
    BY <1>1 DEF Interop!release
<1>2. CASE n > 0
    <2>1. Interop!release(c) = [c EXCEPT !.refCount = @ - 1]
        BY <1>2, SMTT(60) DEF Interop!release
    <2>. QED
        BY <1>2, <2>1
<1>. QED
    BY <1>1, <1>2

\* The destructor takes one holder away and one from the count.
LEMMA DestructKeeps ==
    ASSUME IsFiniteSet(Renderers), InteropInv, dQuiet, NEW r \in Renderers, Interop!destruct(r)
    PROVE  InteropInv'
<1>1. Interop!TypeOK /\ (\A q \in DeviceKinds : Counted(q)) /\ (\A q \in Renderers : Orderly(q))
    BY DEF InteropInv
<1>2. PICK k \in DeviceKinds : k = dRenderer[r].kind
    BY <1>1 DEF Interop!TypeOK
<1>3. /\ dRenderer[r].pc \in {"made", "ready"} /\ UNCHANGED <<dTable, dManager, dQuiet>>
      /\ dRenderer' = [dRenderer EXCEPT ![r] =
           [Interop!cleanup(dRenderer[r]) EXCEPT !.pc = "gone", !.device = FALSE, !.wgl = FALSE]]
      /\ dControl' = IF dRenderer[r].wgl /\ dControl[k].refCount > 0
                    THEN [dControl EXCEPT ![k] = Interop!release(dControl[k])] ELSE dControl
    BY <1>2 DEF Interop!destruct
<1>4. /\ dRenderer' \in [Renderers -> RendererType]
      /\ ~dRenderer'[r].wgl /\ (dRenderer'[r].handle => dRenderer[r].handle /\ ~dRenderer[r].wgl)
      /\ \A q \in Renderers : q # r => dRenderer'[q] = dRenderer[q]
    <2>1. dRenderer[r] \in RendererType /\ dRenderer \in [Renderers -> RendererType]
        BY <1>1 DEF Interop!TypeOK, RendererType
    <2>2. PICK h \in BOOLEAN : h = (dRenderer[r].handle /\ ~dRenderer[r].wgl)
        BY Zenon
    <2>3. PICK m : m = [dRenderer[r] EXCEPT !.handle = h, !.locked = FALSE, !.processor = FALSE,
                          !.target = FALSE, !.pc = "gone", !.device = FALSE, !.wgl = FALSE]
        OBVIOUS
    <2>4. m \in RendererType /\ m.handle = h /\ ~m.wgl
        BY <2>1, <2>3, ZenonT(60) DEF RendererType
    <2>5. dRenderer' = [dRenderer EXCEPT ![r] = m]
        BY <1>3, <2>1, <2>2, <2>3 DEF Interop!cleanup, RendererType
    <2>. QED
        BY <2>1, <2>2, <2>4, <2>5, Zenon
<1>5. \A q \in Renderers : Orderly(q)'
    BY <1>1, <1>3, <1>4, SMTT(60) DEF Orderly
<1>6. \A q \in DeviceKinds : q # k => Interop!Holders(q)' = Interop!Holders(q)
    BY <1>2, <1>4, SMTT(60) DEF Interop!Holders
<1>7. CASE ~dRenderer[r].wgl
    <2>1. Interop!Holders(k)' = Interop!Holders(k) /\ UNCHANGED dControl
        BY <1>3, <1>4, <1>7 DEF Interop!Holders
    <2>2. \A q \in DeviceKinds : Counted(q)'
        BY <1>1, <1>3, <1>6, <2>1, CountKept, SMTT(60)
    <2>3. Interop!TypeOK'
        BY <1>1, <1>3, <1>4, <2>1, SMTT(60) DEF Interop!TypeOK, RendererType
    <2>. QED
        BY <1>5, <2>2, <2>3 DEF InteropInv
<1>8. CASE dRenderer[r].wgl
    <2>1. r \in Interop!Holders(k) /\ Interop!Holders(k)' = Interop!Holders(k) \ {r}
        BY <1>2, <1>3, <1>4, <1>8, SMTT(60) DEF Interop!Holders
    <2>2. PICK h \in Nat : h = Cardinality(Interop!Holders(k)')
        <3>1. IsFiniteSet(Interop!Holders(k) \ {r})
            BY HoldersFinite, FS_RemoveElement, SMTT(60)
        <3>. QED
            BY <2>1, <3>1, FS_CardinalityType, SMTT(60)
    <2>3. Cardinality(Interop!Holders(k)) = h + 1
        <3>1. IsFiniteSet(Interop!Holders(k)) /\ Cardinality(Interop!Holders(k)) \in Nat
            BY HoldersFinite
        <3>2. Cardinality(Interop!Holders(k) \ {r}) = Cardinality(Interop!Holders(k)) - 1
            BY <2>1, <3>1, FS_RemoveElement, ZenonT(60)
        <3>. QED
            BY <2>1, <2>2, <3>1, <3>2, SMTT(60)
    <2>4. PICK n \in Nat : n = h + IF dManager[k].wgl THEN 1 ELSE 0
        BY SMTT(60)
    <2>5. dControl[k].refCount = n + 1 /\ dControl[k].open
        BY <1>1, <2>2, <2>3, <2>4, SMTT(60) DEF Counted
    <2>6. dControl' = [dControl EXCEPT ![k] = Interop!release(dControl[k])]
        BY <1>3, <1>8, <2>4, <2>5, SMTT(60)
    <2>7. dControl[k] \in [refCount : Nat, open : BOOLEAN]
        BY <1>1, SMTT(60) DEF Interop!TypeOK
    <2>8. /\ Interop!release(dControl[k]) \in [refCount : Nat, open : BOOLEAN]
          /\ Interop!release(dControl[k]).refCount = n /\
             (Interop!release(dControl[k]).open <=> n > 0)
        BY <2>5, <2>7, ReleaseCounts, SMTT(60)
    <2>9. /\ dControl' \in [DeviceKinds -> [refCount : Nat, open : BOOLEAN]]
          /\ dControl'[k] = Interop!release(dControl[k])
          /\ \A q \in DeviceKinds : q # k => dControl'[q] = dControl[q]
        BY <1>1, <2>6, <2>8, SMTT(60) DEF Interop!TypeOK
    <2>10. Counted(k)'
        BY <1>1, <1>3, <2>2, <2>4, <2>8, <2>9, SMTT(60) DEF Counted
    <2>11. \A q \in DeviceKinds : q # k => Counted(q)'
        BY <1>1, <1>3, <1>6, <2>9, CountKept, SMTT(60)
    <2>12. Interop!TypeOK'
        BY <1>1, <1>3, <1>4, <2>9, SMTT(60) DEF Interop!TypeOK, RendererType
    <2>. QED
        BY <1>5, <2>10, <2>11, <2>12, SMTT(60) DEF InteropInv
<1>. QED
    BY <1>7, <1>8

\* The managers let go: what the renderers still refer to stays open.  No
\* renderer is between reading and counting.
LEMMA ClearKeeps ==
    ASSUME IsFiniteSet(Renderers), InteropInv, dQuiet, Interop!clearGPUResource
    PROVE  InteropInv'
<1>1. Interop!TypeOK /\ (\A q \in DeviceKinds : Counted(q)) /\ (\A q \in Renderers : Orderly(q))
    BY DEF InteropInv
<1>2. /\ \A q \in Renderers : dRenderer[q].pc # "counting"
      /\ dManager' = [k \in DeviceKinds |-> [dManager[k] EXCEPT !.device = FALSE, !.wgl = FALSE]]
      /\ dControl' = [k \in DeviceKinds |-> IF dManager[k].wgl THEN Interop!release(dControl[k])
                                             ELSE dControl[k]]
      /\ UNCHANGED <<dTable, dRenderer, dQuiet>>
    BY ZenonT(60) DEF Interop!clearGPUResource
<1>3. /\ dManager' \in [DeviceKinds -> ManagerType]
      /\ \A k \in DeviceKinds : /\ ~dManager'[k].wgl
                                /\ dManager'[k].initWglFlag = dManager[k].initWglFlag
    <2>1. ASSUME NEW k \in DeviceKinds
          PROVE  /\ dManager'[k] \in ManagerType /\ ~dManager'[k].wgl
                 /\ dManager'[k].initWglFlag = dManager[k].initWglFlag
        <3>1. dManager[k] \in ManagerType
            BY <1>1 DEF Interop!TypeOK, ManagerType
        <3>2. dManager'[k] = [dManager[k] EXCEPT !.device = FALSE, !.wgl = FALSE]
            BY <1>2, Zenon
        <3>. QED
            BY <3>1, <3>2, ZenonT(60) DEF ManagerType
    <2>. QED
        BY <1>2, <2>1, ZenonT(60)
<1>4. ASSUME NEW k \in DeviceKinds
      PROVE  dControl'[k] \in [refCount : Nat, open : BOOLEAN] /\ Counted(k)'
    <2>1. Interop!Holders(k)' = Interop!Holders(k)
        BY <1>2, ZenonT(60) DEF Interop!Holders
    <2>2. PICK n \in Nat : n = Cardinality(Interop!Holders(k))
        BY HoldersFinite
    <2>3. dControl[k] \in [refCount : Nat, open : BOOLEAN] /\ Counted(k)
        BY <1>1, SMTT(60) DEF Interop!TypeOK
    <2>4. CASE dManager[k].wgl
        <3>1. dControl[k].refCount = n + 1 /\ dControl[k].open
            BY <2>2, <2>3, <2>4 DEF Counted
        <3>2. dControl'[k] = Interop!release(dControl[k])
            BY <1>2, <2>4, ZenonT(60)
        <3>3. /\ dControl'[k] \in [refCount : Nat, open : BOOLEAN]
              /\ dControl'[k].refCount = n /\ (dControl'[k].open <=> n > 0)
            BY <2>3, <3>1, <3>2, ReleaseCounts, SMTT(60)
        <3>. QED
            BY <1>3, <2>1, <2>2, <3>3, SMTT(60) DEF Counted
    <2>5. CASE ~dManager[k].wgl
        <3>1. dControl'[k] = dControl[k]
            BY <1>2, <2>5, ZenonT(60)
        <3>. QED
            BY <1>3, <2>1, <2>2, <2>3, <2>5, <3>1, SMTT(60) DEF Counted
    <2>. QED
        BY <2>4, <2>5
<1>5. Interop!TypeOK'
    <2>1. dControl' \in [DeviceKinds -> [refCount : Nat, open : BOOLEAN]]
        BY <1>2, <1>4, ZenonT(60)
    <2>. QED
        BY <1>1, <1>2, <1>3, <2>1, ZenonT(60) DEF Interop!TypeOK, ManagerType
<1>6. ASSUME NEW q \in Renderers PROVE Orderly(q)'
    <2>1. Orderly(q) /\ dRenderer[q].kind \in DeviceKinds /\ dRenderer[q].pc # "counting"
        BY <1>1, <1>2, ZenonT(60) DEF Interop!TypeOK
    <2>2. dRenderer'[q] = dRenderer[q]
        BY <1>2, ZenonT(60)
    <2>3. dManager'[dRenderer[q].kind].initWglFlag = dManager[dRenderer[q].kind].initWglFlag
        BY <1>3, <2>1
    <2>. QED
        BY <2>1, <2>2, <2>3 DEF Orderly
<1>. QED
    BY <1>4, <1>5, <1>6 DEF InteropInv

\* Every step keeps the invariant; where main() does not wait it says nothing.
LEMMA InteropStep ==
    ASSUME IsFiniteSet(Renderers), DeviceKinds # {}
    PROVE  InteropInv /\ [Interop!Next]_dVars => InteropInv'
<1> SUFFICES ASSUME InteropInv, [Interop!Next]_dVars PROVE InteropInv'
    OBVIOUS
<1>1. CASE ~dQuiet
    <2>1. dQuiet' = dQuiet
        BY ZenonT(60) DEF Interop!Next, dVars, Interop!construct, Interop!initializeWgl,
           Interop!readControl, Interop!countReference,
               Interop!initInteropsResource, Interop!renderFrame, Interop!destruct,
                  Interop!clearGPUResource
    <2>. QED
        BY <1>1, <2>1 DEF InteropInv
<1>2. CASE dQuiet /\ UNCHANGED dVars
    <2>1. UNCHANGED <<dTable, dManager, dControl, dRenderer, dQuiet>>
        BY <1>2 DEF dVars
    <2>2. Interop!TypeOK /\ (\A q \in DeviceKinds : Counted(q)) /\
       (\A q \in Renderers : Orderly(q))
        BY <1>2, SMTT(60) DEF InteropInv
    <2>3. Interop!TypeOK'
        BY <2>1, <2>2, SMTT(60) DEF Interop!TypeOK
    <2>4. \A q \in DeviceKinds : Interop!Holders(q)' = Interop!Holders(q)
        BY <2>1, SMTT(60) DEF Interop!Holders
    <2>5. \A q \in DeviceKinds : Counted(q)'
        BY <2>1, <2>2, <2>4, CountKept, SMTT(60)
    <2>6. \A q \in Renderers : Orderly(q)'
        BY <2>1, <2>2, SMTT(60) DEF Orderly
    <2>. QED
        BY <2>3, <2>5, <2>6 DEF InteropInv
<1>3. CASE dQuiet /\ Interop!Next
    BY SMTT(60), <1>3, ConstructKeeps, InitializeWglKeeps, ReadControlKeeps, CountReferenceKeeps,
       RegisterKeeps, DestructKeeps, ClearKeeps DEF Interop!Next
<1>. QED
    BY <1>1, <1>2, <1>3

\* The WGL device outlives every reference to it and no reference outlives it:
\* for any number of renderers, destroyed before or after main() clears the
\* GPU resources, the device is open exactly while someone refers to it, and a
\* texture that is registered belongs to an open device.
THEOREM DeviceOutlivesUse ==
    ASSUME IsFiniteSet(Renderers), DeviceKinds # {}
    PROVE  Interop!Spec => []InteropOpen
<1>1. InteropInv => InteropOpen
    <2> SUFFICES ASSUME InteropInv, dQuiet
                 PROVE  /\ \A k \in DeviceKinds :
                              dControl[k].open <=> dManager[k].wgl \/ Interop!Holders(k) # {}
                        /\ \A r \in Renderers : dRenderer[r].handle =>
                              /\ dRenderer[r].pc = "ready"
                              /\ dControl[dRenderer[r].kind].open
        BY SMTT(60) DEF InteropOpen, Interop!InteropOpen
    <2>1. ASSUME NEW k \in DeviceKinds
          PROVE  dControl[k].open <=> dManager[k].wgl \/ Interop!Holders(k) # {}
        <3>1. /\ Cardinality(Interop!Holders(k)) \in Nat
              /\ Cardinality(Interop!Holders(k)) = 0 <=> Interop!Holders(k) = {}
            BY HoldersFinite
        <3>2. Counted(k)
            BY SMTT(60) DEF InteropInv
        <3>. QED
            BY <3>1, <3>2 DEF Counted
    <2>2. ASSUME NEW r \in Renderers, dRenderer[r].handle
          PROVE  dRenderer[r].pc = "ready" /\ dControl[dRenderer[r].kind].open
        <3>1. dRenderer[r].pc = "ready" /\ dRenderer[r].wgl /\ dRenderer[r].kind \in DeviceKinds
            BY <2>2, SMTT(60) DEF InteropInv, Orderly, Interop!TypeOK
        <3>2. r \in Interop!Holders(dRenderer[r].kind)
            BY <3>1 DEF Interop!Holders
        <3>. QED
            BY <2>1, <3>1, <3>2, SMTT(60)
    <2>. QED
        BY <2>1, <2>2, SMTT(60)
<1>. QED
    BY InteropInit, InteropStep, <1>1, PTL DEF Interop!Spec, Interop!vars, dVars
=============================================================================
