--------------------------- MODULE DecoderThread ----------------------------
(***************************************************************************)
(* The life of a decoder: DecoderBase's open, start, pause, resume, stop   *)
(* and close, called by the controller under its mutex, against the decode *)
(* loop that runs in the decoder's own thread.  video, chosen once, tells  *)
(* which loop it is: the video loop waits ten milliseconds at a time while *)
(* paused, waits for key frames and can replace a hardware codec by a      *)
(* software one; the audio loop waits on pauseCv_ without a timeout.       *)
(*                                                                         *)
(* isPaused_ and requestInterruption_ are atomics that the callers write   *)
(* without pauseMutex_, so a notify_all can come between the loop's        *)
(* evaluation of the wait's predicate and its going to sleep.  Frames are  *)
(* counted (pending) and not told apart: full is whether the frame queue   *)
(* has no slot (FrameQueue has its detail), SeekPath has what the loop     *)
(* does with serials and seek positions, StreamSync the pacing.            *)
(***************************************************************************)
EXTENDS Integers

CONSTANT MaxFrames   \* the frames one packet may yield

VARIABLES
    video,                                \* a VideoDecoder, or an AudioDecoder
    isOpened, isStarted, codec,           \* codecCtx_: "none", "hw" or "sw"
    isPaused, interrupt, waiting,         \* isPaused_, requestInterruption_, waitingForPreBuffer_
    aborted, full, packetsAborted,        \* the frame queue; the packet queue's abort flag
    cpc, then,                            \* the controller's step, and where it goes after a close
    tpc,                                  \* the decode thread's step ("none": joined)
    readFirstFrame, hasKeyFrame,          \* locals of decodeLoop;
    errorStart,                           \*   errorStartTime has a value
    pending,                              \* frames the codec holds ready
    primed      \* history: the codec was given a key frame since it was opened or flushed for a serial

members == <<video, isOpened, isStarted>>
queues == <<aborted, full, packetsAborted>>
locals == <<readFirstFrame, hasKeyFrame, errorStart>>
loop == <<tpc, locals, pending, primed>>
vars == <<video, isOpened, isStarted, codec, isPaused, interrupt, waiting, aborted, full,
          packetsAborted, cpc, then, tpc, readFirstFrame, hasKeyFrame, errorStart,
          pending, primed>>

Init ==
    /\ video \in BOOLEAN
    /\ isOpened = FALSE /\ isStarted = FALSE /\ codec = "none"
    /\ isPaused = FALSE /\ interrupt = FALSE /\ waiting = FALSE
    /\ aborted = FALSE /\ full = FALSE /\ packetsAborted = FALSE
    /\ cpc = "idle" /\ then = "idle"
    /\ tpc = "none"
    /\ readFirstFrame = FALSE /\ hasKeyFrame = FALSE /\ errorStart = FALSE
    /\ pending = 0 /\ primed = FALSE
-----------------------------------------------------------------------------
(* The controller. *)

\* startDecodeInternal: open() closes a decoder that is open.
startDecode ==
    /\ cpc = "idle"
    /\ then' = "open"
    /\ cpc' = IF isOpened THEN "stop" ELSE "open"
    /\ UNCHANGED <<members, codec, isPaused, interrupt, waiting, queues, loop>>

\* stopDecodeInternal: stop() and close().
stopDecode ==
    /\ cpc = "idle"
    /\ then' = "idle"
    /\ cpc' = "stop"
    /\ UNCHANGED <<members, codec, isPaused, interrupt, waiting, queues, loop>>

\* The codecs that open() may end up with: without an accelerator, or when it
\* cannot be set up, decoding is left to the software; there is none for audio.
setupHardwareDecode == IF video THEN {"hw", "sw"} ELSE {"sw"}

\* A context that was allocated before the failure stays behind.
openFails ==
    /\ cpc = "open"
    /\ codec' \in {codec} \cup setupHardwareDecode
    /\ cpc' = "idle"
    /\ UNCHANGED <<members, isPaused, interrupt, waiting, queues, then, loop>>

\* With pre-buffering, the wait is set between open and start.
open ==
    /\ cpc = "open"
    /\ isOpened' = TRUE
    /\ codec' \in setupHardwareDecode
    /\ primed' = FALSE
    /\ waiting' \in {waiting, TRUE}
    /\ packetsAborted' = FALSE
    /\ full' = FALSE
    /\ cpc' = "start"
    /\ UNCHANGED <<video, isStarted, isPaused, interrupt, aborted, then, tpc, locals, pending>>

start ==
    /\ cpc = "start"
    /\ aborted' = packetsAborted
    /\ interrupt' = FALSE
    /\ tpc' = "begin"
    /\ isStarted' = TRUE
    /\ cpc' = "event"
    /\ UNCHANGED <<video, isOpened, codec, isPaused, waiting, full, packetsAborted, then, locals,
                   pending, primed>>

pause ==
    /\ cpc = "idle" /\ isOpened /\ isStarted /\ ~isPaused
    /\ isPaused' = TRUE
    /\ cpc' = "event"
    /\ UNCHANGED <<members, codec, interrupt, waiting, queues, then, loop>>

resume ==
    /\ cpc = "idle" /\ isOpened /\ isStarted /\ isPaused
    /\ isPaused' = FALSE
    /\ cpc' = "resumeNotify"
    /\ UNCHANGED <<members, codec, interrupt, waiting, queues, then, loop>>

\* pauseCv_.notify_all() finds the loop asleep, or does nothing.
notify_all == tpc' = IF tpc = "asleep" THEN "predicate" ELSE tpc

ResumeNotify ==
    /\ cpc = "resumeNotify"
    /\ notify_all
    /\ cpc' = "event"
    /\ UNCHANGED <<members, codec, isPaused, interrupt, waiting, queues, then, locals, pending, primed>>

\* The event at the end of start, pause, resume and stop names codecCtx_->codec.
SendEvent ==
    /\ cpc \in {"event", "stopEvent"}
    /\ cpc' = IF cpc = "event" THEN "idle" ELSE "close"
    /\ UNCHANGED <<members, codec, isPaused, interrupt, waiting, queues, then, loop>>

\* stopInternal, a store at a time.
StopPaused ==
    /\ cpc = "stop"
    /\ IF isStarted THEN isPaused' = FALSE /\ cpc' = "stopInterrupt"
                    ELSE isPaused' = isPaused /\ cpc' = "close"
    /\ UNCHANGED <<members, codec, interrupt, waiting, queues, then, loop>>

StopInterrupt ==
    /\ cpc = "stopInterrupt"
    /\ interrupt' = TRUE
    /\ cpc' = "stopAbort"
    /\ UNCHANGED <<members, codec, isPaused, waiting, queues, then, loop>>

\* Seeded bug: stop leaves the frame queue as it is.
StopAbortNothing ==
    /\ cpc = "stopAbort"
    /\ cpc' = "stopNotify"
    /\ UNCHANGED <<members, codec, isPaused, interrupt, waiting, queues, then, loop>>

StopAbort ==
    /\ cpc = "stopAbort"
    /\ aborted' = TRUE
    /\ cpc' = "stopNotify"
    /\ UNCHANGED <<members, codec, isPaused, interrupt, waiting, full, packetsAborted, then, loop>>

StopNotify ==
    /\ cpc = "stopNotify"
    /\ notify_all
    /\ cpc' = "stopJoin"
    /\ UNCHANGED <<members, codec, isPaused, interrupt, waiting, queues, then, locals, pending, primed>>

\* Seeded bug: the thread is not joined.
StopJoinSkipped ==
    /\ cpc = "stopJoin"
    /\ isStarted' = FALSE
    /\ cpc' = "stopEvent"
    /\ UNCHANGED <<video, isOpened, codec, isPaused, interrupt, waiting, queues, then, loop>>

StopJoin ==
    /\ cpc = "stopJoin" /\ tpc = "done"
    /\ tpc' = "none"
    /\ isStarted' = FALSE
    /\ cpc' = "stopEvent"
    /\ UNCHANGED <<video, isOpened, codec, isPaused, interrupt, waiting, queues, then, locals, pending,
                   primed>>

close ==
    /\ cpc = "close"
    /\ isOpened' = FALSE
    /\ codec' = IF isOpened THEN "none" ELSE codec
    /\ cpc' = then
    /\ UNCHANGED <<video, isStarted, isPaused, interrupt, waiting, queues, then, loop>>
-----------------------------------------------------------------------------
(* The demuxer and the thread that pops frames. *)

\* onPreBufferReady, or cleanupPreBufferState.
PreBufferReady ==
    /\ waiting
    /\ waiting' = FALSE
    /\ UNCHANGED <<members, codec, isPaused, interrupt, queues, cpc, then, loop>>

AbortPackets ==
    /\ ~packetsAborted /\ isOpened
    /\ packetsAborted' = TRUE
    /\ UNCHANGED <<members, codec, isPaused, interrupt, waiting, aborted, full, cpc, then, loop>>

PopFrame ==
    /\ full
    /\ full' = FALSE
    /\ UNCHANGED <<members, codec, isPaused, interrupt, waiting, aborted, packetsAborted, cpc, then, loop>>
-----------------------------------------------------------------------------
(* The decode loop. *)

ThreadFrame == UNCHANGED <<members, isPaused, interrupt, waiting, aborted, packetsAborted, cpc, then>>

\* The demuxer may have dropped the packet queue by now.
Begin ==
    /\ tpc = "begin"
    /\ tpc' \in {"top"} \cup IF packetsAborted THEN {"done"} ELSE {}
    /\ readFirstFrame' = FALSE /\ hasKeyFrame' = FALSE /\ errorStart' = FALSE
    /\ pending' = 0
    /\ ThreadFrame /\ UNCHANGED <<codec, full, primed>>

Top ==
    /\ tpc = "top"
    /\ tpc' = IF interrupt THEN "done"
              ELSE IF waiting THEN "top"
              ELSE IF isPaused THEN "predicate" ELSE "serial"
    /\ ThreadFrame /\ UNCHANGED <<codec, full, locals, pending, primed>>

\* pauseCv_.wait: the predicate, the sleep, and again.
Predicate ==
    /\ tpc = "predicate"
    /\ tpc' = IF ~isPaused \/ interrupt THEN "woken" ELSE "falling"
    /\ ThreadFrame /\ UNCHANGED <<codec, full, locals, pending, primed>>

FallAsleep ==
    /\ tpc = "falling"
    /\ tpc' = "asleep"
    /\ ThreadFrame /\ UNCHANGED <<codec, full, locals, pending, primed>>

Timeout ==
    /\ tpc = "asleep" /\ video
    /\ tpc' = "woken"
    /\ ThreadFrame /\ UNCHANGED <<codec, full, locals, pending, primed>>

SpuriousWakeup ==
    /\ tpc = "asleep"
    /\ tpc' = "predicate"
    /\ ThreadFrame /\ UNCHANGED <<codec, full, locals, pending, primed>>

\* After the wait; the video loop forgets that it had a first frame.
Woken ==
    /\ tpc = "woken"
    /\ tpc' = IF interrupt THEN "done" ELSE "top"
    /\ readFirstFrame' = (readFirstFrame /\ (~video \/ isPaused \/ interrupt))
    /\ ThreadFrame /\ UNCHANGED <<codec, full, hasKeyFrame, errorStart, pending, primed>>

\* A new serial: the codec is flushed and waits for a key frame.
checkAndUpdateSerial(changed) ==
    /\ tpc = "serial"
    /\ hasKeyFrame' = (hasKeyFrame /\ ~changed)
    /\ primed' = (primed /\ ~changed)
    /\ pending' = IF changed THEN 0 ELSE pending
    /\ tpc' = "pop"
    /\ ThreadFrame /\ UNCHANGED <<codec, full, readFirstFrame, errorStart>>

\* No packet, one of another serial, or one before the first key frame.
NoPacket ==
    /\ tpc = "pop"
    /\ tpc' \in {"top"} \cup IF packetsAborted THEN {"done"} ELSE {}
    /\ ThreadFrame /\ UNCHANGED <<codec, full, locals, pending, primed>>

\* The codec takes the packet, or refuses it.
SendPacket(key) ==
    /\ tpc = "pop"
    /\ video => hasKeyFrame \/ key
    /\ hasKeyFrame' = video
    /\ primed' = (primed \/ key)
    /\ \/ tpc' = "receive" /\ pending' \in 0 .. MaxFrames
       \/ tpc' = "refused" /\ pending' = pending
    /\ ThreadFrame /\ UNCHANGED <<codec, full, readFirstFrame, errorStart>>

\* shouldFallbackToSoftware, but for the configuration and the error's code.
CanFallBack == video /\ codec = "hw" /\ ~readFirstFrame

\* The first of the errors that count is timed; the packet is given up.
SendError ==
    /\ tpc = "refused"
    /\ errorStart' \in {errorStart, errorStart \/ CanFallBack}
    /\ tpc' = "top"
    /\ ThreadFrame /\ UNCHANGED <<codec, full, readFirstFrame, hasKeyFrame, pending, primed>>

\* The errors have lasted long enough: reinitializeWithSoftwareDecoder frees
\* codecCtx_ and opens another.
Fallback ==
    /\ tpc = "refused" /\ CanFallBack /\ errorStart
    /\ codec' = "none" /\ pending' = 0
    /\ tpc' = "reinitialize"
    /\ ThreadFrame /\ UNCHANGED <<full, locals, primed>>

\* Seeded bug: the loop does not wait for a key frame again.
ReinitializeOnly ==
    /\ tpc = "reinitialize"
    /\ primed' = FALSE
    /\ \/ codec' = "sw" /\ tpc' = "top" /\ errorStart' = FALSE
       \/ codec' = "none" /\ tpc' = "done" /\ UNCHANGED errorStart
    /\ ThreadFrame /\ UNCHANGED <<full, readFirstFrame, hasKeyFrame, pending>>

Reinitialize ==
    /\ tpc = "reinitialize"
    /\ primed' = FALSE
    /\ \/ codec' = "sw" /\ tpc' = "top" /\ hasKeyFrame' = FALSE /\ errorStart' = FALSE
       \/ codec' = "none" /\ tpc' = "done" /\ UNCHANGED <<hasKeyFrame, errorStart>>
    /\ ThreadFrame /\ UNCHANGED <<full, readFirstFrame, pending>>

\* avcodec_receive_frame: the codec needs another packet (or is at its end).
NoFrame ==
    /\ tpc = "receive" /\ pending = 0
    /\ tpc' = "top"
    /\ ThreadFrame /\ UNCHANGED <<codec, full, locals, pending, primed>>

\* handleDecodeError flushes the codec.  (occuredError only decides about events.)
DecodeError ==
    /\ tpc = "receive"
    /\ pending' = 0
    /\ tpc' = "top"
    /\ ThreadFrame /\ UNCHANGED <<codec, full, readFirstFrame, hasKeyFrame, errorStart, primed>>

\* A frame before the seek position.
SkipFrame ==
    /\ tpc = "receive" /\ pending > 0
    /\ pending' = pending - 1
    /\ ThreadFrame /\ UNCHANGED <<tpc, codec, full, locals, primed>>

\* resampleFrame has no result: the frames left are dropped.
ResampleFails ==
    /\ tpc = "receive" /\ pending > 0 /\ ~video
    /\ pending' = 0
    /\ ThreadFrame /\ UNCHANGED <<tpc, codec, full, locals, primed>>

\* A picture to show.
ReceiveFrame ==
    /\ tpc = "receive" /\ pending > 0 /\ video
    /\ pending' = pending - 1
    /\ readFirstFrame' = TRUE /\ errorStart' = (errorStart /\ readFirstFrame)
    /\ tpc' = "convert"
    /\ ThreadFrame /\ UNCHANGED <<codec, full, hasKeyFrame, primed>>

\* Sound to play: a change of the sample format that fails is only logged.
ReceiveSound ==
    /\ tpc = "receive" /\ pending > 0 /\ ~video
    /\ pending' = pending - 1
    /\ readFirstFrame' = TRUE
    /\ tpc' = "write"
    /\ ThreadFrame /\ UNCHANGED <<codec, full, hasKeyFrame, errorStart, primed>>

\* Where a transfer or a conversion fails, handleDecodeError flushes the codec.
processFrameConversion ==
    /\ tpc = "convert"
    /\ \/ tpc' = "write" /\ pending' = pending
       \/ tpc' = "receive" /\ pending' = 0
    /\ ThreadFrame /\ UNCHANGED <<codec, full, locals, primed>>

\* getWritableFrame waits while the queue is full and not aborted; a frame that
\* comes too late is not committed.
WriteFrame ==
    /\ tpc = "write"
    /\ \/ aborted /\ UNCHANGED full /\ tpc' = "top"
       \/ ~aborted /\ ~full /\ full' \in BOOLEAN /\ tpc' = "receive"
    /\ ThreadFrame /\ UNCHANGED <<codec, locals, pending, primed>>
-----------------------------------------------------------------------------
Call == startDecode \/ stopDecode \/ pause \/ resume
CallStep ==
    \/ openFails \/ open \/ start \/ ResumeNotify \/ SendEvent
    \/ StopPaused \/ StopInterrupt \/ StopAbort \/ StopNotify \/ StopJoin \/ close
ThreadStep ==
    \/ Begin \/ Top \/ Predicate \/ FallAsleep \/ Timeout \/ Woken
    \/ (\E changed \in BOOLEAN : checkAndUpdateSerial(changed))
    \/ NoPacket \/ (\E key \in BOOLEAN : SendPacket(key)) \/ SendError \/ Fallback \/ Reinitialize
    \/ NoFrame \/ DecodeError \/ SkipFrame \/ ResampleFails
    \/ ReceiveFrame \/ ReceiveSound \/ processFrameConversion \/ WriteFrame

Next == Call \/ CallStep \/ PreBufferReady \/ AbortPackets \/ PopFrame \/ SpuriousWakeup \/ ThreadStep

Spec == Init /\ [][Next]_vars

\* The two threads run; nobody has to pop frames.
FairSpec == Spec /\ WF_vars(CallStep) /\ WF_vars(ThreadStep)
-----------------------------------------------------------------------------
\* The decode loop uses codecCtx_ without a lock: while it runs, the decoder is
\* open and started, and codecCtx_ is missing only inside the loop's own
\* fallback.  close() and a second startDecode() have to wait for the loop.
LoopHasCodec ==
    tpc \notin {"none", "done"} =>
        /\ isOpened
        /\ codec = "none" => tpc = "reinitialize"
        /\ isStarted

\* No video codec is given a packet before it was given a key frame: not one
\* that was just opened, not one that was flushed for a new serial, and not the
\* software codec that replaces a hardware codec in the middle of a stream.
KeyFrameFirst == video /\ tpc \in {"receive", "refused"} => primed

\* stop() returns: it reaches a loop that is paused, one that waits for space
\* in the frame queue, one that waits for the pre-buffer.  "唤醒暂停的线程"
\* (decoder_base.cpp:442).  The audio loop may fall asleep after the
\* notification, so for it this is claimed only while it is not paused.
StopReturns ==
    /\ cpc = "stop"
    /\ video \/ (~isPaused /\ tpc \notin {"predicate", "falling", "asleep"})
    ~> cpc \in {"idle", "open"}
=============================================================================
