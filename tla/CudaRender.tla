------------------------------ MODULE CudaRender ------------------------------
(****************************************************************************)
(* Nv12Render_Cuda: a frame is copied into two OpenGL textures (Y and UV)   *)
(* on two CUDA streams; a callback on each stream sets a flag and notifies  *)
(* the render thread, which waits for both flags, clears them and draws.    *)
(* The streams are processes of their own: they run their queue in order,   *)
(* each at its own pace, and a callback runs in a thread of the driver.     *)
(****************************************************************************)
EXTENDS Naturals, Sequences

CONSTANT MaxFrames      \* frames rendered (bound)

Planes == {"Y", "UV"}

VARIABLES
    pc,         \* the render thread
    frame,      \* the frame renderFrame() was called with last
    registered, \* the planes whose resource is registered
    failed,     \* resourceYRegisteredFailed_, resourceUVRegisteredFailed_
    stream,     \* [Planes -> queue of the stream: <<"copy" | "callback", n>>]
    streams,    \* the two streams have been created
    copySucced, \* copyYSucced_, copyUVSucced_
    texture,    \* [Planes -> the frame the texture holds]
    faulty      \* the driver may refuse a callback

vars == <<pc, frame, registered, failed, stream, streams, copySucced, texture,
          faulty>>

Init ==
    /\ pc = "made" /\ frame = 0
    /\ registered = {} /\ failed = {}
    /\ stream = [p \in Planes |-> <<>>]
    /\ streams = FALSE
    /\ copySucced = [p \in Planes |-> FALSE]
    /\ texture = [p \in Planes |-> 0]
    /\ faulty \in BOOLEAN

-----------------------------------------------------------------------------
(* The render thread.                                                       *)

\* initInteropsResource(): register Y, then UV, and stop at a failure; then
\* the streams and the mapping, once for all frames.
initInteropsResource ==
    /\ pc = "made"
    /\ \/ failed' = {"Y"} /\ UNCHANGED registered
       \/ failed' = failed \union {"UV"} /\ registered' = {"Y"}
       \/ registered' = Planes /\ UNCHANGED failed
    /\ streams' = (registered' = Planes)
    /\ pc' = IF streams' THEN "idle" ELSE "unusable"
    /\ UNCHANGED <<frame, stream, copySucced, texture, faulty>>

\* renderFrame() begins: early returns, then both copies are queued.
renderFrame ==
    /\ pc = "idle" /\ frame < MaxFrames
    /\ failed = {} /\ streams
    /\ frame' = frame + 1
    /\ stream' = [p \in Planes |-> Append(stream[p], <<"copy", frame'>>)]
    /\ pc' = "callbackY"
    /\ UNCHANGED <<registered, failed, streams, copySucced, texture, faulty>>

\* cuStreamAddCallback() on the stream of plane p; a refusal is only logged.
addCallback(p, here, next) ==
    /\ pc = here
    /\ \/ stream' = [stream EXCEPT ![p] = Append(@, <<"callback", frame>>)]
       \/ faulty /\ UNCHANGED stream
    /\ pc' = next
    /\ UNCHANGED <<frame, registered, failed, streams, copySucced, texture,
                   faulty>>

\* What the render thread waits for.
copied == \A p \in Planes : copySucced[p]

\* The predicate of conditional_.wait(), tested under the mutex: pass, or
\* block until a callback notifies.
testCopies ==
    /\ pc = "test"
    /\ pc' = IF copied THEN "reset" ELSE "blocked"
    /\ UNCHANGED <<frame, registered, failed, stream, streams, copySucced,
                   texture, faulty>>

\* A render thread that draws without clearing the flags.
resetFlagsNot ==
    /\ pc = "reset"
    /\ pc' = "draw"
    /\ UNCHANGED <<frame, registered, failed, stream, streams, copySucced,
                   texture, faulty>>

\* The flags are cleared, outside the mutex.
resetFlags ==
    /\ pc = "reset"
    /\ copySucced' = [p \in Planes |-> FALSE]
    /\ pc' = "draw"
    /\ UNCHANGED <<frame, registered, failed, stream, streams, texture, faulty>>

\* drawFrame() with both textures.
drawFrame ==
    /\ pc = "draw"
    /\ pc' = "idle"
    /\ UNCHANGED <<frame, registered, failed, stream, streams, copySucced,
                   texture, faulty>>

\* The destructor: unmap and unregister, destroy the streams.
destruct ==
    /\ pc \in {"made", "unusable", "idle"}
    /\ registered' = {} /\ streams' = FALSE
    /\ pc' = "gone"
    /\ UNCHANGED <<frame, failed, stream, copySucced, texture, faulty>>

-----------------------------------------------------------------------------
(* The streams, each in its own order.                                      *)

\* cuMemcpy2DAsync() is carried out.
copyDone(p) ==
    /\ stream[p] # <<>> /\ Head(stream[p])[1] = "copy"
    /\ texture' = [texture EXCEPT ![p] = Head(stream[p])[2]]
    /\ stream' = [stream EXCEPT ![p] = Tail(@)]
    /\ UNCHANGED <<pc, frame, registered, failed, streams, copySucced, faulty>>

\* The callback: set the flag and notify, under the mutex.
callback(p) ==
    /\ stream[p] # <<>> /\ Head(stream[p])[1] = "callback"
    /\ stream' = [stream EXCEPT ![p] = Tail(@)]
    /\ copySucced' = [copySucced EXCEPT ![p] = TRUE]
    /\ pc' = IF pc = "blocked" THEN "test" ELSE pc
    /\ UNCHANGED <<frame, registered, failed, streams, texture, faulty>>

RenderThread ==
    \/ addCallback("Y", "callbackY", "callbackUV")
    \/ addCallback("UV", "callbackUV", "test")
    \/ testCopies \/ resetFlags \/ drawFrame

Stream(p) == copyDone(p) \/ callback(p)

Next ==
    \/ initInteropsResource \/ renderFrame \/ destruct
    \/ RenderThread
    \/ \E p \in Planes : Stream(p)

\* A thread inside renderFrame() goes on, and so do the streams of the driver.
Fairness == WF_vars(RenderThread) /\ \A p \in Planes : WF_vars(Stream(p))

Spec == Init /\ [][Next]_vars /\ Fairness

-----------------------------------------------------------------------------
TypeOK ==
    /\ pc \in {"made", "unusable", "idle", "callbackY", "callbackUV", "test",
               "blocked", "reset", "draw", "gone"}
    /\ frame \in 0 .. MaxFrames
    /\ registered \subseteq Planes /\ failed \subseteq Planes
    /\ streams \in BOOLEAN
    /\ copySucced \in [Planes -> BOOLEAN]
    /\ texture \in [Planes -> 0 .. MaxFrames]

(* What is drawn is one frame: when drawFrame() runs both textures hold the *)
(* frame renderFrame() was called with, no plane of an earlier frame, and   *)
(* nothing is left in a stream that could still write a texture or set a    *)
(* flag for the next frame.                                                 *)
WholeFrame ==
    pc \in {"reset", "draw", "idle", "gone"} /\ frame > 0 =>
      \A p \in Planes : texture[p] = frame /\ stream[p] = <<>>

(* renderFrame() returns as long as the driver accepts the callbacks: no    *)
(* notification is lost between the test of the flags and the wait.         *)
RenderReturns ==
    ~faulty => (pc = "callbackY" ~> pc = "idle")
=============================================================================
