----------------------------- MODULE PreBuffer ------------------------------
(***************************************************************************)
(* Pre-buffering: startDecode makes the decoders wait, the demux thread    *)
(* counts queued packets and, once there are enough, calls back into the   *)
(* controller, which lets the decoders go.                                 *)
(*                                                                         *)
(* The callback, DecoderController::onPreBufferReady, runs on the demux    *)
(* thread without the controller's mutex_, so it interleaves with every    *)
(* step of the application's calls, which do hold it.  config is the       *)
(* controller's copy of the configuration and need the demuxer's, set when *)
(* the stream is opened.  The packets are counted, not told apart.         *)
(***************************************************************************)
EXTENDS Integers

CONSTANTS
    Configs,    \* the pre-buffer configurations the application opens with
    Streams,    \* the streams: which media, how many packets, live or a file
    Capacity    \* maxPacketCount of the packet queues

Media == {"video", "audio"}

\* What Config::PreBufferConfig and a stream may be.
ConfigType == [enable : BOOLEAN, auto : BOOLEAN, both : BOOLEAN, video : Nat, audio : Nat]
StreamType == [has : SUBSET Media, live : BOOLEAN, video : Nat, audio : Nat]

ASSUME PreBufferAssumption ==
    Configs \subseteq ConfigType /\ Streams \subseteq StreamType /\ Capacity \in Nat \ {0}

VARIABLES
    apc,                        \* the step of the application's call
    config, state,              \* config_.preBufferConfig, preBufferState_
    decoder, waiting, loop,     \* per medium: the object exists, waitingForPreBuffer_, its decode loop
    stream, need, ready,        \* the demuxer: open stream, pre-buffer members, preBufferReady_
    count, dpc, interrupt,      \* its queues, its thread, requestInterruption_
    popped                      \* history: media whose decoder has taken a packet of this stream

controller == <<config, state>>
demuxer == <<stream, need, ready, interrupt>>
vars == <<apc, config, state, decoder, waiting, loop, stream, need, ready, count, dpc,
          interrupt, popped>>

NoConfig == [enable |-> FALSE, auto |-> TRUE, both |-> FALSE, video |-> 0, audio |-> 0]
NoStream == [has |-> {}, live |-> FALSE, video |-> 0, audio |-> 0]

Init ==
    /\ apc = "idle"
    /\ config = NoConfig /\ state = "disabled"
    /\ decoder = [m \in Media |-> FALSE]
    /\ waiting = [m \in Media |-> FALSE]
    /\ loop = [m \in Media |-> "none"]
    /\ stream = NoStream /\ need = NoConfig /\ ready = FALSE
    /\ count = [m \in Media |-> 0] /\ dpc = "none" /\ interrupt = FALSE
    /\ popped = {}
-----------------------------------------------------------------------------
(* open(): openInternal.                                                   *)

open(c) ==
    /\ apc = "idle"
    /\ state' = "disabled" /\ config' = c
    /\ interrupt' = (dpc # "none")
    /\ apc' = "openStream"
    /\ UNCHANGED <<decoder, waiting, loop, stream, need, ready, count, dpc, popped>>

\* Demuxer::open: the demux thread of the old stream has been joined.  The
\* loops of the old decoders keep the old, aborted queues.
OpenStream(s) ==
    /\ apc = "openStream" /\ dpc = "none"
    /\ stream' = s /\ need' = config /\ ready' = FALSE /\ interrupt' = FALSE
    /\ count' = [m \in Media |-> 0] /\ popped' = {}
    /\ dpc' = "read"
    /\ loop' = [m \in Media |-> IF loop[m] = "none" THEN "none" ELSE "stale"]
    /\ apc' = "openVideo"
    /\ UNCHANGED <<controller, decoder, waiting>>

OpenFails ==
    /\ apc = "openStream" /\ dpc = "none"
    /\ stream' = NoStream /\ need' = NoConfig /\ ready' = FALSE /\ interrupt' = FALSE
    /\ count' = [m \in Media |-> 0] /\ popped' = {}
    /\ loop' = [m \in Media |-> IF loop[m] = "none" THEN "none" ELSE "stale"]
    /\ apc' = "idle"
    /\ UNCHANGED <<controller, decoder, waiting, dpc>>

\* make_shared and the destructor of the decoder that is replaced.  A decoder
\* for a medium the stream does not have is left as it is.
CreateDecoder(m, pc, next) ==
    /\ apc = pc
    /\ IF m \in stream.has
       THEN /\ decoder' = [decoder EXCEPT ![m] = TRUE]
            /\ waiting' = [waiting EXCEPT ![m] = FALSE]
            /\ loop' = [loop EXCEPT ![m] = "none"]
       ELSE UNCHANGED <<decoder, waiting, loop>>
    /\ apc' = next
    /\ UNCHANGED <<controller, demuxer, count, dpc, popped>>

OpenVideo == CreateDecoder("video", "openVideo", "openAudio")
OpenAudio == CreateDecoder("audio", "openAudio", "idle")
-----------------------------------------------------------------------------
(* startDecode.                                                            *)

\* The loops after open() of the decoders of ms: open() closes, and so stops,
\* a decoder that is open.
Reopened(ms) ==
    [m \in Media |-> IF m \in ms \cap stream.has /\ decoder[m] THEN "none" ELSE loop[m]]

\* The video decoder fails to open, or the audio decoder after it.
startDecodeFails ==
    /\ apc = "idle"
    /\ \E ms \in {{"video"}, Media} :
        /\ \E m \in ms \cap stream.has : decoder[m]
        /\ loop' = Reopened(ms)
    /\ UNCHANGED <<apc, controller, decoder, waiting, demuxer, count, dpc, popped>>

\* Seeded bug: the decoders run before they are told to wait.
startDecodeEarly ==
    /\ apc = "idle"
    /\ loop' = [m \in Media |-> IF decoder[m] /\ m \in stream.has THEN "begin" ELSE loop[m]]
    /\ IF config.enable
       THEN state' = "waiting" /\ apc' = "waitVideo"
       ELSE state' = state /\ apc' = "startVideo"
    /\ UNCHANGED <<config, decoder, waiting, demuxer, count, dpc, popped>>

startDecode ==
    /\ apc = "idle"
    /\ loop' = Reopened(Media)
    /\ IF config.enable
       THEN state' = "waiting" /\ apc' = "waitVideo"
       ELSE state' = state /\ apc' = "startVideo"
    /\ UNCHANGED <<config, decoder, waiting, demuxer, count, dpc, popped>>

SetWaiting(m, pc, next) ==
    /\ apc = pc
    /\ waiting' = [waiting EXCEPT ![m] = decoder[m]]
    /\ apc' = next
    /\ UNCHANGED <<controller, decoder, loop, demuxer, count, dpc, popped>>

WaitVideo == SetWaiting("video", "waitVideo", "waitAudio")
WaitAudio == SetWaiting("audio", "waitAudio", "startVideo")

\* DecoderBase::start: nothing to do for a started decoder or without a queue.
StartLoop(m, pc, next) ==
    /\ apc = pc
    /\ loop' = [loop EXCEPT ![m] = IF loop[m] = "none" /\ decoder[m] /\ m \in stream.has
                                   THEN "begin" ELSE loop[m]]
    /\ apc' = next
    /\ UNCHANGED <<controller, decoder, waiting, demuxer, count, dpc, popped>>

StartVideo == StartLoop("video", "startVideo", "startAudio")
StartAudio == StartLoop("audio", "startAudio", "idle")

\* Every loop ends soon after requestInterruption_, also one that waits.
stopDecode ==
    /\ apc = "idle"
    /\ loop' = [m \in Media |-> "none"]
    /\ UNCHANGED <<apc, controller, decoder, waiting, demuxer, count, dpc, popped>>
-----------------------------------------------------------------------------
(* close(): cleanupPreBufferState, stopDecode and closeInternal.           *)

close ==
    /\ apc = "idle"
    /\ state' = "disabled"
    /\ apc' = "releaseVideo"
    /\ UNCHANGED <<config, decoder, waiting, loop, demuxer, count, dpc, popped>>

Release(m, pc, next) ==
    /\ apc = pc
    /\ waiting' = [waiting EXCEPT ![m] = FALSE]
    /\ apc' = next
    /\ UNCHANGED <<controller, decoder, loop, demuxer, count, dpc, popped>>

ReleaseVideo == Release("video", "releaseVideo", "releaseAudio")
ReleaseAudio == Release("audio", "releaseAudio", "stopLoops")

CloseStopDecode ==
    /\ apc = "stopLoops"
    /\ loop' = [m \in Media |-> "none"]
    /\ apc' = "closeDecoders"
    /\ UNCHANGED <<controller, decoder, waiting, demuxer, count, dpc, popped>>

\* The decoders go first, then the demux thread is told to stop.
CloseDecoders ==
    /\ apc = "closeDecoders"
    /\ decoder' = [m \in Media |-> FALSE]
    /\ interrupt' = (dpc # "none")
    /\ apc' = "closeStream"
    /\ UNCHANGED <<controller, waiting, loop, stream, need, ready, count, dpc, popped>>

CloseStream ==
    /\ apc = "closeStream" /\ dpc = "none"
    /\ stream' = NoStream /\ need' = NoConfig /\ ready' = FALSE /\ interrupt' = FALSE
    /\ count' = [m \in Media |-> 0] /\ popped' = {}
    /\ apc' = "idle"
    /\ UNCHANGED <<controller, decoder, waiting, loop, dpc>>
-----------------------------------------------------------------------------
(* The demux thread.                                                       *)

\* A packet of medium m has been read and is about to be pushed.
Read(m) ==
    /\ dpc = "read" /\ ~interrupt
    /\ m \in stream.has /\ stream[m] > 0
    /\ stream' = [stream EXCEPT ![m] = @ - 1]
    /\ dpc' = m
    /\ UNCHANGED <<apc, controller, decoder, waiting, loop, need, ready, count, interrupt, popped>>

\* distributePacket: push blocks while the queue is full, unless it is aborted.
Push(m) ==
    /\ dpc = m
    /\ \/ ~interrupt /\ count[m] < Capacity /\ count' = [count EXCEPT ![m] = @ + 1]
       \/ interrupt /\ count' = count
    /\ dpc' = "check"
    /\ UNCHANGED <<apc, controller, decoder, waiting, loop, demuxer, popped>>

preBufferEnabled == need.enable /\ (need.video > 0 \/ need.audio > 0)

\* Seeded bug: more packets than required are needed.
BufferedMore(m) == m \in stream.has /\ need[m] > 0 /\ count[m] > need[m]

Buffered(m) == m \in stream.has /\ need[m] > 0 /\ count[m] >= need[m]

checkPreBufferStatus ==
    /\ dpc = "check"
    /\ LET enough == IF need.both THEN \A m \in Media : Buffered(m)
                                  ELSE \E m \in Media : Buffered(m)
       IN  IF preBufferEnabled /\ ~ready /\ enough
           THEN ready' = TRUE /\ dpc' = "callback"
           ELSE ready' = ready /\ dpc' = "read"
    /\ UNCHANGED <<apc, controller, decoder, waiting, loop, stream, need, count, interrupt, popped>>

onPreBufferReady ==
    /\ dpc = "callback"
    /\ state' = "ready"
    /\ dpc' = IF config.auto THEN "goVideo" ELSE "read"
    /\ UNCHANGED <<apc, config, decoder, waiting, loop, demuxer, count, popped>>

Go(m, pc, next) ==
    /\ dpc = pc
    /\ waiting' = [waiting EXCEPT ![m] = @ /\ ~decoder[m]]
    /\ dpc' = next
    /\ UNCHANGED <<apc, controller, decoder, loop, demuxer, count, popped>>

GoVideo == Go("video", "goVideo", "goAudio")
GoAudio == Go("audio", "goAudio", "read")

\* Seeded bug: the thread goes on with the next iteration.
ThreadContinues ==
    /\ dpc = "read" /\ interrupt
    /\ dpc' = "check"
    /\ UNCHANGED <<apc, controller, decoder, waiting, loop, demuxer, count, popped>>

ThreadEnds ==
    /\ dpc = "read" /\ interrupt
    /\ dpc' = "none"
    /\ UNCHANGED <<apc, controller, decoder, waiting, loop, demuxer, count, popped>>
-----------------------------------------------------------------------------
(* The decode loop of medium m.                                            *)

\* The loop of a live stream begins with a flush of its packet queue.
LoopBegin(m) ==
    /\ loop[m] = "begin"
    /\ count' = IF stream.live THEN [count EXCEPT ![m] = 0] ELSE count
    /\ loop' = [loop EXCEPT ![m] = "top"]
    /\ UNCHANGED <<apc, controller, decoder, waiting, demuxer, dpc, popped>>

LoopTop(m) ==
    /\ loop[m] = "top" /\ ~waiting[m]
    /\ loop' = [loop EXCEPT ![m] = "pop"]
    /\ UNCHANGED <<apc, controller, decoder, waiting, demuxer, count, dpc, popped>>

\* pop() waits a millisecond at most.
LoopPop(m) ==
    /\ loop[m] = "pop"
    /\ \/ count[m] > 0 /\ count' = [count EXCEPT ![m] = @ - 1] /\ popped' = popped \cup {m}
       \/ count[m] = 0 /\ UNCHANGED <<count, popped>>
    /\ loop' = [loop EXCEPT ![m] = "top"]
    /\ UNCHANGED <<apc, controller, decoder, waiting, demuxer, dpc>>
-----------------------------------------------------------------------------
App ==
    \/ \E s \in Streams : OpenStream(s)
    \/ OpenFails \/ OpenVideo \/ OpenAudio
    \/ WaitVideo \/ WaitAudio \/ StartVideo \/ StartAudio
    \/ ReleaseVideo \/ ReleaseAudio \/ CloseStopDecode \/ CloseDecoders \/ CloseStream

Demux ==
    \/ \E m \in Media : Read(m) \/ Push(m)
    \/ checkPreBufferStatus \/ onPreBufferReady \/ GoVideo \/ GoAudio \/ ThreadEnds

Decode(m) == LoopBegin(m) \/ LoopTop(m) \/ LoopPop(m)

Next ==
    \/ \E c \in Configs : open(c)
    \/ startDecode \/ startDecodeFails \/ stopDecode \/ close
    \/ App \/ Demux
    \/ \E m \in Media : Decode(m)

Spec == Init /\ [][Next]_vars

\* Threads are scheduled; the application need not call anything.
FairSpec == Spec /\ WF_vars(App) /\ WF_vars(Demux) /\ \A m \in Media : WF_vars(Decode(m))
-----------------------------------------------------------------------------
TypeOK ==
    /\ apc \in {"idle", "openStream", "openVideo", "openAudio", "waitVideo", "waitAudio",
                "startVideo", "startAudio", "releaseVideo", "releaseAudio", "stopLoops",
                "closeDecoders", "closeStream"}
    /\ config \in ConfigType /\ need \in ConfigType /\ stream \in StreamType
    /\ state \in {"disabled", "waiting", "ready"}
    /\ decoder \in [Media -> BOOLEAN] /\ waiting \in [Media -> BOOLEAN]
    /\ loop \in [Media -> {"none", "stale", "begin", "top", "pop"}]
    /\ ready \in BOOLEAN /\ interrupt \in BOOLEAN
    /\ count \in [Media -> 0 .. Capacity]
    /\ dpc \in Media \cup {"none", "read", "check", "callback", "goVideo", "goAudio"}
    /\ popped \subseteq Media

Closing == {"releaseVideo", "releaseAudio", "stopLoops", "closeDecoders", "closeStream"}

\* With pre-buffering on, no decoder takes its first packet before the demuxer
\* has found the buffer full, however often decoding is stopped and started;
\* close(), which lets the decoders go before it stops them, is the exception.
BufferedBeforeDecode ==
    need.enable /\ popped # {} /\ apc \notin Closing => ready

\* The stream at hand is certain to fill the buffer: it has the packets, and
\* no queue that is full keeps the others from filling.
Enough ==
    /\ stream.has # {} /\ need.enable
    /\ need.both => stream.has = Media
    /\ \A m \in stream.has :
        LET total == count[m] + stream[m] + (IF dpc = m THEN 1 ELSE 0)
        IN  /\ 0 < need[m] /\ need[m] <= Capacity /\ need[m] <= total
            /\ need.both => total <= Capacity

\* Decoders that wait when the buffer is not yet full are let go once it is,
\* if the stream is long enough for that and the application leaves it alone.
WaitingReleased ==
    \A m \in Media :
        /\ apc = "idle" /\ config.auto /\ Enough /\ ~ready
        /\ waiting[m] /\ \A k \in stream.has : loop[k] = "top"
        ~> ~waiting[m] \/ apc # "idle"

\* A call returns, also one that joins a demux thread blocked on a full queue
\* whose decoders wait for the other medium.
CallReturns == apc # "idle" ~> apc = "idle"

\* Both: decoders that wait for the buffer are let go, and the calls that
\* start, flush or stop them return.
WaitersReleased == WaitingReleased /\ CallReturns
=============================================================================
