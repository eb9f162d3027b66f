------------------------------ MODULE Demuxer ------------------------------
(***************************************************************************)
(* demuxer/demuxer.cpp: the demux thread (demuxLoop and what it calls) and *)
(* the methods the controller calls on it under mutex_.                    *)
(*                                                                         *)
(* The controller serialises its calls, so one variable, ctl, says which   *)
(* method is in progress.  requestInterruption_, isPaused_ and seekMsPos_  *)
(* are atomics that the demux thread reads and writes without a lock: each *)
(* access that another thread can overtake is a step of its own.           *)
(*                                                                         *)
(* A packet is its position in the file; FileEnd is the empty packet that  *)
(* handleEndOfFile sends.  A live stream has no positions.  The queues are *)
(* the bounded FIFOs that PacketQueue implements.  Serials are kept as the *)
(* one bit a decoder gets out of them: whether a packet carries the serial *)
(* its queue has now.  The recorder and the pre-buffer check, which the    *)
(* demux thread also feeds, are left out: they change nothing here.        *)
(***************************************************************************)
EXTENDS Integers, Sequences, FiniteSets

CONSTANTS
    Capacity,    \* of the packet queues (1000 in the code)
    FileEnd,     \* number of packets of a file
    Seeks,       \* positions that seek() is called with
    Kinds,       \* what open() is called with: "file", "live"
    LoopModes,   \* what setLoopMode is called with: records mode, max
    LoopBound    \* bound on currentLoopCount_

VARIABLES
    opened,     \* isOpened_ (isStarted_ is the same: openInternal starts, stop precedes the reset)
    context,    \* formatContext_ # nullptr
    kind,       \* isRealTime_: "file" or "live"
    paused,     \* isPaused_
    interrupt,  \* requestInterruption_
    seekMs,     \* seekMsPos_
    queue,      \* the two packet queues
    ctl,        \* the step of the controller's call in progress
    reopen,     \* what the open() in progress will open, or "no"
    pc,         \* where the demux thread is
    pkt,        \* its packet
    target,     \* the position handleSeekRequest has loaded
    flushing,   \* queues handleSeekRequest has still to flush
    looping,    \* handleSeekRequest was called by handleLoopPlayback
    eof,        \* isEof
    readPos,    \* position of the input
    loop, loops,   \* loopMode_ and maxLoops_, currentLoopCount_
    landed,     \* history: where the last av_seek_frame of this stream landed
    pausedReads \* history: file packets read since the last pause(), counted to 2

calls == <<opened, context, kind, ctl, reopen>>
locals == <<pkt, target, flushing, looping, eof>>
vars == <<opened, context, kind, paused, interrupt, seekMs, queue, ctl, reopen, pc, pkt,
          target, flushing, looping, eof, readPos, loop, loops, landed, pausedReads>>

None == -1
Media == {"video", "audio"}
EmptyPacket == [medium |-> "video", pos |-> None, current |-> FALSE]
EmptyQueue == [items |-> <<>>, aborted |-> FALSE]

Init ==
    /\ opened = FALSE /\ context = FALSE /\ kind = "file"
    /\ paused = FALSE /\ interrupt = FALSE /\ seekMs = None
    /\ queue = [m \in Media |-> EmptyQueue]
    /\ ctl = "idle" /\ reopen = "no"
    /\ pc = "none" /\ pkt = EmptyPacket /\ target = None
    /\ flushing = {} /\ looping = FALSE /\ eof = FALSE /\ readPos = 0
    /\ loop = [mode |-> "none", max |-> -1] /\ loops = 0
    /\ landed = 0 /\ pausedReads = 0
-----------------------------------------------------------------------------
(* The packet queues (PacketQueue::push, flush). *)

canPush(m) == Len(queue[m].items) < Capacity \/ queue[m].aborted

\* PacketQueue::push that does not wait.
Pushed(q, p) ==
    IF q.aborted \/ Len(q.items) >= Capacity THEN q ELSE [q EXCEPT !.items = Append(@, p)]
Flushed(q) == [q EXCEPT !.items = <<>>]

\* A decoder takes the next packet.
Consume(m) ==
    /\ queue[m].items # <<>>
    /\ queue' = [queue EXCEPT ![m].items = Tail(@)]
    /\ UNCHANGED <<calls, paused, interrupt, seekMs, pc, locals, readPos, loop, loops, landed, pausedReads>>
-----------------------------------------------------------------------------
(* The demux thread: handleSeekRequest. *)

Top ==
    /\ pc = "top"
    /\ \/ /\ interrupt
          /\ pc' = "done" /\ UNCHANGED <<target, seekMs>>
       \/ /\ ~interrupt /\ kind = "live"
          /\ pc' = "read" /\ UNCHANGED target
          /\ seekMs' = IF seekMs > 0 THEN None ELSE seekMs
       \/ /\ ~interrupt /\ kind = "file"
          /\ target' = seekMs
          /\ pc' = IF seekMs < 0 THEN "pause" ELSE "clearSeek"
          /\ UNCHANGED seekMs
    /\ UNCHANGED <<calls, paused, interrupt, queue, pkt, flushing, looping, eof, readPos, loop,
                   loops, landed, pausedReads>>

\* The request is cleared after it was loaded: a seek() in between is erased.
ClearSeek ==
    /\ pc = "clearSeek"
    /\ seekMs' = None
    /\ pc' = "seek"
    /\ UNCHANGED <<calls, paused, interrupt, queue, locals, readPos, loop, loops, landed, pausedReads>>

SeekFrame ==
    /\ pc = "seek"
    /\ readPos' = target /\ landed' = target
    /\ flushing' = Media
    /\ pc' = "flush"
    /\ UNCHANGED <<calls, paused, interrupt, seekMs, queue, pkt, target, looping, eof, loop, loops, pausedReads>>

\* av_seek_frame fails: handleSeekRequest returns false and nothing is flushed.
SeekFrameFails ==
    /\ pc = "seek"
    /\ pc' = IF looping THEN "top" ELSE "pause"
    /\ looping' = FALSE
    /\ eof' = IF looping THEN FALSE ELSE eof
    /\ UNCHANGED <<calls, paused, interrupt, seekMs, queue, pkt, target, flushing, readPos, loop,
                   loops, landed, pausedReads>>

\* Seeded bug: only the video queue is flushed.
FlushQueuesVideo ==
    /\ pc = "flush" /\ flushing # {}
    /\ queue' = [queue EXCEPT !["video"] = Flushed(@)]
    /\ flushing' = {}
    /\ pc' = IF looping THEN "looped" ELSE "top"
    /\ UNCHANGED <<calls, paused, interrupt, seekMs, pkt, target, looping, eof, readPos, loop,
                   loops, landed, pausedReads>>

\* First the video queue, then the audio queue.
FlushQueues ==
    /\ pc = "flush" /\ flushing # {}
    /\ LET m == IF "video" \in flushing THEN "video" ELSE "audio"
       IN  /\ queue' = [queue EXCEPT ![m] = Flushed(@)]
           /\ flushing' = flushing \ {m}
    /\ pc' = IF flushing' # {} THEN "flush" ELSE IF looping THEN "looped" ELSE "top"
    /\ UNCHANGED <<calls, paused, interrupt, seekMs, pkt, target, looping, eof, readPos, loop,
                   loops, landed, pausedReads>>
-----------------------------------------------------------------------------
(* handleFileStreamPause.  The predicate is false and pauseMutex_ is held in *)
(* "checked"; the thread is in pauseCv_'s queue only in "asleep".            *)

notify_all == IF pc = "asleep" THEN pc' = "woken" ELSE UNCHANGED pc

\* Seeded bug: the wait is not repeated when the thread wakes up.
PauseTestOnce ==
    /\ pc \in {"pause", "woken"}
    /\ pc' = IF pc = "woken" THEN IF interrupt THEN "done" ELSE "read"
             ELSE IF ~paused THEN "read" ELSE IF interrupt THEN "done" ELSE "checked"
    /\ UNCHANGED <<calls, paused, interrupt, seekMs, queue, locals, readPos, loop, loops, landed, pausedReads>>

PauseTest ==
    /\ pc \in {"pause", "woken"}
    /\ pc' = IF pc = "pause" /\ ~paused THEN "read"
             ELSE IF interrupt THEN "done"
             ELSE IF paused THEN "checked" ELSE "read"
    /\ UNCHANGED <<calls, paused, interrupt, seekMs, queue, locals, readPos, loop, loops, landed, pausedReads>>

FallAsleep ==
    /\ pc = "checked"
    /\ pc' = "asleep"
    /\ UNCHANGED <<calls, paused, interrupt, seekMs, queue, locals, readPos, loop, loops, landed, pausedReads>>

SpuriousWakeup ==
    /\ pc = "asleep"
    /\ pc' = "woken"
    /\ UNCHANGED <<calls, paused, interrupt, seekMs, queue, locals, readPos, loop, loops, landed, pausedReads>>
-----------------------------------------------------------------------------
(* readAndProcessPacket, distributePacket. *)

ReadPacket(m) ==
    /\ pc = "read"
    /\ kind = "file" => readPos < FileEnd
    /\ pkt' = [medium |-> m, pos |-> readPos, current |-> FALSE]
    /\ readPos' = IF kind = "file" THEN readPos + 1 ELSE readPos
    /\ eof' = FALSE
    /\ pc' = "distribute"
    /\ pausedReads' = IF kind = "file" /\ paused /\ pausedReads < 2 THEN pausedReads + 1 ELSE pausedReads
    /\ UNCHANGED <<calls, paused, interrupt, seekMs, queue, target, flushing, looping, loop, loops,
                   landed>>

\* EAGAIN, or an error that has lasted less than kReadErrorMaxInterval seconds.
ReadAgain ==
    /\ pc = "read"
    /\ pc' = "top"
    /\ UNCHANGED <<calls, paused, interrupt, seekMs, queue, locals, readPos, loop, loops, landed, pausedReads>>

\* An error that has lasted longer: kStreamReadError, and the thread ends.
ReadError ==
    /\ pc = "read"
    /\ pc' = "done"
    /\ UNCHANGED <<calls, paused, interrupt, seekMs, queue, locals, readPos, loop, loops, landed, pausedReads>>

\* The end packets do not wait for space: a full queue gets none.
handleEndOfFile ==
    queue' = [m \in Media |-> Pushed(queue[m], [medium |-> m, pos |-> FileEnd, current |-> TRUE])]

ReadEof ==
    /\ pc = "read" /\ kind = "file" /\ readPos = FileEnd
    /\ IF eof THEN UNCHANGED queue ELSE handleEndOfFile
    /\ eof' = TRUE
    /\ pc' = "eof"
    /\ UNCHANGED <<calls, paused, interrupt, seekMs, pkt, target, flushing, looping, readPos, loop,
                   loops, landed, pausedReads>>

\* The end of a live stream counts as a read error; end packets go out each time.
LiveEof ==
    /\ pc = "read" /\ kind = "live"
    /\ handleEndOfFile
    /\ pc' \in {"top", "done"}
    /\ UNCHANGED <<calls, paused, interrupt, seekMs, locals, readPos, loop, loops, landed, pausedReads>>

\* A packet that was read before the pause is dropped after it.
Distribute ==
    /\ pc = "distribute"
    /\ IF paused
       THEN pc' = "top" /\ UNCHANGED pkt
       ELSE pc' = "push" /\ pkt' = [pkt EXCEPT !.current = TRUE]
    /\ UNCHANGED <<calls, paused, interrupt, seekMs, queue, target, flushing, looping, eof, readPos,
                   loop, loops, landed, pausedReads>>

PushPacket ==
    /\ pc = "push" /\ canPush(pkt.medium)
    /\ queue' = [queue EXCEPT ![pkt.medium] = Pushed(@, pkt)]
    /\ pc' = "top"
    /\ UNCHANGED <<calls, paused, interrupt, seekMs, locals, readPos, loop, loops, landed, pausedReads>>
-----------------------------------------------------------------------------
(* The end of a file: kStreamEnded and handleLoopPlayback. *)

Drained == \A m \in Media : queue[m].items = <<>>

Loops ==
    /\ loop.mode # "none"
    /\ ~(loop.mode = "single" /\ loop.max > 0 /\ loops >= loop.max)

NotEnded ==
    /\ pc = "eof" /\ ~Drained
    /\ pc' = "top"
    /\ UNCHANGED <<calls, paused, interrupt, seekMs, queue, locals, readPos, loop, loops, landed, pausedReads>>

\* kStreamEnded without a further loop: isEof is reset, so the next round sends
\* the end packets again.
StreamEnded ==
    /\ pc = "eof" /\ Drained /\ ~Loops
    /\ eof' = FALSE
    /\ pc' = "top"
    /\ UNCHANGED <<calls, paused, interrupt, seekMs, queue, pkt, target, flushing, looping, readPos,
                   loop, loops, landed, pausedReads>>

\* kStreamEnded, then a seek to 0 that replaces whatever request is pending.
LoopStart ==
    /\ pc = "eof" /\ Drained /\ Loops
    /\ seekMs' = 0
    /\ looping' = TRUE
    /\ pc' = "loopSeek"
    /\ UNCHANGED <<calls, paused, interrupt, queue, pkt, target, flushing, eof, readPos, loop,
                   loops, landed, pausedReads>>

LoopSeek ==
    /\ pc = "loopSeek"
    /\ target' = seekMs
    /\ pc' = "clearSeek"
    /\ UNCHANGED <<calls, paused, interrupt, seekMs, queue, pkt, flushing, looping, eof, readPos,
                   loop, loops, landed, pausedReads>>

\* avio_seek may fail; otherwise the loop is counted and kStreamLooped sent.
Looped ==
    /\ pc = "looped"
    /\ loops' \in {loops, IF loops < LoopBound THEN loops + 1 ELSE loops}
    /\ looping' = FALSE /\ eof' = FALSE
    /\ pc' = "top"
    /\ UNCHANGED <<calls, paused, interrupt, seekMs, queue, pkt, target, flushing, readPos, loop,
                   landed, pausedReads>>

setLoopMode(l) ==
    /\ kind = "file"
    /\ loop' = l
    /\ loops' = IF l.mode = "none" THEN 0 ELSE loops
    /\ UNCHANGED <<calls, paused, interrupt, seekMs, queue, pc, locals, readPos, landed, pausedReads>>

resetLoopCount ==
    /\ loops' = 0
    /\ UNCHANGED <<calls, paused, interrupt, seekMs, queue, pc, locals, readPos, loop, landed, pausedReads>>
-----------------------------------------------------------------------------
(* The controller's calls. *)

\* What openInternal does once a previous stream is closed.
OpenStream(k) ==
    \/ \* avformat_open_input or avformat_find_stream_info fails
       /\ context' = FALSE
       /\ UNCHANGED <<opened, kind, interrupt, queue, pc, pkt, eof, readPos, landed>>
    \/ \* avio_seek to the start fails: the context stays open
       /\ context' = TRUE
       /\ UNCHANGED <<opened, kind, interrupt, queue, pc, pkt, eof, readPos, landed>>
    \/ /\ context' = TRUE /\ opened' = TRUE /\ kind' = k
       /\ queue' = [m \in Media |-> EmptyQueue]
       /\ interrupt' = FALSE
       /\ pc' = "top" /\ pkt' = EmptyPacket /\ eof' = FALSE /\ readPos' = 0 /\ landed' = 0

open(k) ==
    /\ ctl = "idle"
    /\ IF opened
       THEN /\ ctl' = "notify" /\ reopen' = k
            /\ UNCHANGED <<opened, context, kind, interrupt, queue, pc, pkt, eof, readPos, landed>>
       ELSE OpenStream(k) /\ UNCHANGED <<ctl, reopen>>
    /\ UNCHANGED <<paused, seekMs, target, flushing, looping, loop, loops, pausedReads>>

close ==
    /\ ctl = "idle" /\ opened
    /\ ctl' = "notify"
    /\ UNCHANGED <<opened, context, kind, reopen, paused, interrupt, seekMs, queue, pc, locals,
                   readPos, loop, loops, landed, pausedReads>>

\* stop(): pauseCv_ is notified before requestInterruption_ is set.
StopNotify ==
    /\ ctl = "notify"
    /\ notify_all
    /\ ctl' = "abort"
    /\ UNCHANGED <<opened, context, kind, reopen, paused, interrupt, seekMs, queue, locals,
                   readPos, loop, loops, landed, pausedReads>>

\* Seeded bug: the packet queues are not aborted.
StopAbortNothing ==
    /\ ctl = "abort"
    /\ ctl' = "interrupt"
    /\ UNCHANGED <<opened, context, kind, reopen, paused, interrupt, seekMs, queue, pc, locals,
                   readPos, loop, loops, landed, pausedReads>>

StopAbort ==
    /\ ctl = "abort"
    /\ queue' = [m \in Media |-> [queue[m] EXCEPT !.aborted = TRUE]]
    /\ ctl' = "interrupt"
    /\ UNCHANGED <<opened, context, kind, reopen, paused, interrupt, seekMs, pc, locals,
                   readPos, loop, loops, landed, pausedReads>>

StopInterrupt ==
    /\ ctl = "interrupt"
    /\ interrupt' = TRUE
    /\ ctl' = "join"
    /\ UNCHANGED <<opened, context, kind, reopen, paused, seekMs, queue, pc, locals,
                   readPos, loop, loops, landed, pausedReads>>

\* The join returns, closeInternal resets what it resets, and an open() goes on.
StopJoin ==
    /\ ctl = "join" /\ pc = "done"
    /\ pc' = "none"
    /\ opened' = FALSE /\ context' = FALSE /\ kind' = "file"
    /\ queue' = [m \in Media |-> EmptyQueue]
    /\ ctl' = IF reopen = "no" THEN "idle" ELSE "open"
    /\ UNCHANGED <<reopen, paused, interrupt, seekMs, locals, readPos, loop, loops, landed, pausedReads>>

Reopen ==
    /\ ctl = "open"
    /\ OpenStream(reopen)
    /\ ctl' = "idle" /\ reopen' = "no"
    /\ UNCHANGED <<paused, seekMs, target, flushing, looping, loop, loops, pausedReads>>

\* The compare-and-exchange, or the store that follows when it fails.
seek(p) ==
    /\ ctl = "idle" /\ context /\ kind = "file"
    /\ seekMs' = p
    /\ UNCHANGED <<calls, paused, interrupt, queue, pc, locals, readPos, loop, loops, landed, pausedReads>>

pause ==
    /\ ctl = "idle" /\ opened
    /\ paused' = TRUE
    /\ pausedReads' = IF paused THEN pausedReads ELSE 0
    /\ UNCHANGED <<calls, interrupt, seekMs, queue, pc, locals, readPos, loop, loops, landed>>

\* A live stream's queues are flushed first; a packet that already carries the
\* serial but is not pushed yet becomes an old one.
ResumeFlush ==
    /\ ctl = "idle" /\ opened /\ paused /\ kind = "live"
    /\ queue' = [m \in Media |-> Flushed(queue[m])]
    /\ pkt' = [pkt EXCEPT !.current = FALSE]
    /\ ctl' = "resume"
    /\ UNCHANGED <<opened, context, kind, reopen, paused, interrupt, seekMs, pc, target, flushing,
                   looping, eof, readPos, loop, loops, landed, pausedReads>>

\* The store and the notification, which does not take pauseMutex_.
resume ==
    /\ opened /\ paused
    /\ IF kind = "live" THEN ctl = "resume" ELSE ctl = "idle"
    /\ paused' = FALSE
    /\ notify_all
    /\ ctl' = "idle"
    /\ UNCHANGED <<opened, context, kind, reopen, interrupt, seekMs, queue, locals, readPos, loop,
                   loops, landed, pausedReads>>
-----------------------------------------------------------------------------
ThreadStep ==
    \/ Top \/ ClearSeek \/ SeekFrame \/ SeekFrameFails \/ FlushQueues
    \/ PauseTest \/ FallAsleep
    \/ (\E m \in Media : ReadPacket(m)) \/ ReadAgain \/ ReadError \/ ReadEof \/ LiveEof
    \/ Distribute \/ PushPacket
    \/ NotEnded \/ StreamEnded \/ LoopStart \/ LoopSeek \/ Looped

StopStep == StopNotify \/ StopAbort \/ StopInterrupt \/ StopJoin \/ Reopen

Call ==
    \/ (\E k \in Kinds : open(k)) \/ close
    \/ (\E p \in Seeks : seek(p))
    \/ pause \/ ResumeFlush \/ resume
    \/ (\E l \in LoopModes : setLoopMode(l)) \/ resetLoopCount

Next == ThreadStep \/ StopStep \/ Call \/ SpuriousWakeup \/ (\E m \in Media : Consume(m))

Spec == Init /\ [][Next]_vars

\* The demux thread runs while it is not blocked, and a stop() that has begun
\* goes on.  Nobody has to call anything, and the decoders need not take packets.
Fairness == WF_vars(ThreadStep) /\ WF_vars(StopStep)
FairSpec == Spec /\ Fairness
-----------------------------------------------------------------------------
\* Once handleSeekRequest has flushed, what a file's queues hold was read after
\* the seek and in file order: a decoder that trusts the serial never shows a
\* picture from before the seek.
FileOrder ==
    kind = "file" /\ pc # "flush" =>
        \A m \in Media : LET items == queue[m].items IN
            \A i \in DOMAIN items :
                /\ items[i].pos >= landed
                /\ i > 1 => items[i - 1].pos <= items[i].pos

\* pause() stops a file: the demux thread reads at most the one packet for which
\* it had passed handleFileStreamPause already, however often pauseCv_ is woken
\* by chance, by seeks or by the notification of stop().
PausedFileStops == paused => pausedReads <= 1

\* close(), and the close() inside open(), return when the stream is live or not
\* paused: abort gets the demux thread out of a full queue's push.
StopTerminatesAwake ==
    (ctl = "notify" /\ (kind = "live" \/ (~paused /\ pc # "checked"))) ~> (ctl = "idle")

\* "唤醒暂停的线程" (demuxer.cpp:830, stop() wakes up the paused thread): close()
\* returns in whatever state the stream is.
StopTerminates == (ctl = "notify") ~> (ctl = "idle")
=============================================================================
