---------------------------- MODULE StreamWorker ----------------------------
(***************************************************************************)
(* The life of one StreamDecoderWorker and its StreamDecoder, from the     *)
(* first open to the destructor, with the threads that take part:          *)
(*   the UI thread, which appends tasks and runs the worker's slots;       *)
(*   W, the worker's own run loop, which hands each task to D and waits;   *)
(*   D, thread_, the event loop in which the decoder's slots run;          *)
(*   E, the event thread of the SDK, which runs streamEventCallback;       *)
(*   S, safeDeleteThread_, and F, decodeThread_, which forwards frames.    *)
(* The opening and reconnecting of the SDK itself are Demuxer, AsyncOpen   *)
(* and Reconnect; here they only produce events.                           *)
(*                                                                         *)
(* Two things are chosen once: whether the stream is live, and what makes  *)
(* this run special (odd): the stream is recorded, a second close can be   *)
(* asked for, or threads can be preempted inside the three windows that    *)
(* the code does not lock, which are marked below.                         *)
(***************************************************************************)
EXTENDS Integers, Sequences

CONSTANTS
    MaxTasks,        \* bound: pause and resume tasks appended
    MaxReconnects    \* bound: reconnects of the stream

VARIABLES
    task, preparing,  \* tasks_ (one at most), decoderPreparingToClose_
    wpc, doing,       \* W's step and the task it has handed to D
    intr,             \* W has been asked to stop
    upc, uq,          \* the UI thread's step and the events posted to it
    dpc, quit,        \* D's step; quit() was called
    decoder,          \* decoder_ has not been destroyed
    nulled,           \* decoder_ was used when it was null
    openpc,           \* openAsync: idle, opening, called (back), done
    stream,           \* the SDK's decoder: idle, running, paused, stopped, closed
    fresh,            \* it runs and has not decoded its first frame
    evq, epc,         \* the events of the SDK and E's step
    isOpening,        \* isOpening_
    spc, sintr,       \* S's step, and it has been asked to stop
    frames,           \* F: off, on, told (to stop)
    recording, reopening,
    asked, retries,   \* counters for the bounds
    live, odd

vars == <<task, preparing, wpc, doing, intr, upc, uq, dpc, quit, decoder, nulled, openpc, stream,
          fresh, evq, epc, isOpening, spc, sintr, frames, recording, reopening, asked, retries, live, odd>>
worker == <<task, preparing, wpc, doing, intr>>
ui == <<upc, uq, nulled>>
sdk == <<openpc, stream, fresh, recording, reopening, retries>>
events == <<evq, epc, isOpening>>
deleter == <<spc, sintr>>
life == <<quit, decoder>>
env == <<live, odd>>

\* The worker has been made and open() has posted openAsync to D.
Init ==
    /\ task = "none" /\ preparing = FALSE /\ wpc = "none" /\ doing = "none" /\ intr = FALSE
    /\ upc = "loop" /\ uq = <<>> /\ dpc = "loop" /\ quit = FALSE /\ decoder = TRUE /\ nulled = FALSE
    /\ openpc = "idle" /\ stream = "idle" /\ fresh = FALSE
    /\ evq = <<>> /\ epc = "loop" /\ isOpening = FALSE
    /\ spc = "off" /\ sintr = FALSE /\ frames = "off"
    /\ recording = FALSE /\ reopening = FALSE /\ asked = 0 /\ retries = 0
    /\ live \in BOOLEAN /\ odd \in {"nothing", "recorded", "closedTwice", "preempted"}
-----------------------------------------------------------------------------
(* The UI thread *)

\* appendTask, under the mutex that W holds until it sleeps; it wakes W.
Accept(t) ==
    /\ upc = "loop" /\ wpc # "sleeping"
    /\ task' = IF task = "close" THEN task ELSE t
    /\ wpc' = IF wpc = "asleep" THEN "test" ELSE wpc

appendTask ==
    /\ asked < MaxTasks
    /\ \E t \in {"pause", "resume"} : Accept(t)
    /\ asked' = asked + 1
    /\ UNCHANGED <<preparing, doing, intr, ui, dpc, life, sdk, events, deleter, frames, env>>

\* The last player leaves; another that knows the key may ask once more.
appendClose ==
    /\ ~preparing \/ (odd = "closedTwice" /\ task # "close" /\ asked <= MaxTasks)
    /\ Accept("close")
    /\ asked' = IF preparing THEN MaxTasks + 1 ELSE asked
    /\ preparing' = TRUE
    /\ UNCHANGED <<doing, intr, ui, dpc, life, sdk, events, deleter, frames, env>>

\* openResultReady starts W.
onOpenResult ==
    /\ upc = "loop" /\ uq # <<>> /\ Head(uq) = "openResult"
    /\ uq' = Tail(uq)
    /\ wpc' = "test"
    /\ UNCHANGED <<task, preparing, doing, intr, upc, nulled, dpc, life, sdk, events, deleter, frames,
                   asked, env>>

\* aboutToDelete: the decoder is deleted later, D is told to quit and awaited.
onAboutToDelete ==
    /\ upc = "loop" /\ uq # <<>> /\ Head(uq) = "aboutToDelete"
    /\ uq' = Tail(uq)
    /\ nulled' = (nulled \/ ~decoder)
    /\ quit' = TRUE
    /\ upc' = "waitD"
    /\ UNCHANGED <<worker, dpc, decoder, sdk, events, deleter, frames, asked, env>>

threadWaited ==
    /\ upc = "waitD" /\ dpc = "finished"
    /\ upc' = "loop"
    /\ UNCHANGED <<worker, uq, nulled, dpc, life, sdk, events, deleter, frames, asked, env>>

\* setRecordingStatus, for which E waits.
setRecordingStatus ==
    /\ upc = "loop" /\ uq # <<>> /\ Head(uq) = "recording"
    /\ uq' = Tail(uq)
    /\ epc' = "answered"
    /\ UNCHANGED <<worker, upc, nulled, dpc, life, sdk, evq, isOpening, deleter, frames, asked, env>>

\* Seeded bug: the destructor does not wake the run loop.
destructorSilent ==
    /\ upc = "loop" /\ uq # <<>> /\ Head(uq) = "finished"
    /\ odd = "preempted" \/ wpc # "sleeping"
    /\ intr' = TRUE
    /\ upc' = "waitW"
    /\ UNCHANGED <<task, preparing, wpc, doing, uq, nulled, dpc, life, sdk, events, deleter, frames,
                   asked, env>>

\* ~StreamDecoderWorker, after D has finished: W is asked to stop and woken
\* without the mutex.  Window: W has tested its condition and is not asleep
\* yet, so that the notification finds nobody.
destructor ==
    /\ upc = "loop" /\ uq # <<>> /\ Head(uq) = "finished"
    /\ odd = "preempted" \/ wpc # "sleeping"
    /\ intr' = TRUE
    /\ wpc' = IF wpc = "asleep" THEN "test" ELSE wpc
    /\ upc' = "waitW"
    /\ UNCHANGED <<task, preparing, doing, uq, nulled, dpc, life, sdk, events, deleter, frames,
                   asked, env>>

workerWaited ==
    /\ upc = "waitW" /\ wpc \in {"none", "done"}
    /\ upc' = "deleted"
    /\ UNCHANGED <<worker, uq, nulled, dpc, life, sdk, events, deleter, frames, asked, env>>
-----------------------------------------------------------------------------
(* W: run *)

run ==
    /\ wpc = "test"
    /\ IF task = "none"
       THEN wpc' = (IF intr THEN "done" ELSE "sleeping") /\ UNCHANGED <<task, doing>>
       ELSE IF intr THEN wpc' = "done" /\ UNCHANGED <<task, doing>>
       ELSE /\ wpc' = IF decoder THEN "emit" ELSE "test"
            /\ doing' = IF decoder THEN task ELSE "none"
            /\ task' = "none"
    /\ UNCHANGED <<preparing, intr, ui, dpc, life, sdk, events, deleter, frames, asked, env>>

\* The condition variable releases the mutex.
runSleeps ==
    /\ wpc = "sleeping"
    /\ wpc' = "asleep"
    /\ UNCHANGED <<task, preparing, doing, intr, ui, dpc, life, sdk, events, deleter, frames, asked, env>>

-----------------------------------------------------------------------------
(* D: the slots of the decoder *)

\* W, which waited for its task to be carried out, goes on.
Release == wpc' = "test" /\ doing' = "none"

openAsync ==
    /\ dpc = "loop" /\ openpc = "idle"
    /\ openpc' = "opening"
    /\ evq' = Append(evq, "opening")
    /\ UNCHANGED <<worker, ui, dpc, life, stream, fresh, recording, reopening, retries, epc,
                   isOpening, deleter, frames, asked, env>>

\* Seeded bug: a live stream is paused like a file.
pauseLikeFile ==
    /\ dpc = "loop" /\ wpc = "emit" /\ doing = "pause"
    /\ stream' = IF stream = "running" THEN "paused" ELSE stream
    /\ frames' = IF frames = "on" THEN "told" ELSE frames
    /\ dpc' = "pausing"
    /\ UNCHANGED <<worker, ui, life, openpc, fresh, recording, reopening, retries, events, deleter,
                   asked, env>>

\* A live stream stops being decoded.  F is asked to stop, then awaited.
pause ==
    /\ dpc = "loop" /\ wpc = "emit" /\ doing = "pause"
    /\ stream' = IF stream = "running" THEN (IF live THEN "stopped" ELSE "paused") ELSE stream
    /\ fresh' = (fresh /\ ~live)
    /\ frames' = IF frames = "on" THEN "told" ELSE frames
    /\ dpc' = "pausing"
    /\ UNCHANGED <<worker, ui, life, openpc, recording, reopening, retries, events, deleter, asked, env>>

\* Window: E has started F after it was asked to stop; the wait has no end.
pauseWaited ==
    /\ dpc = "pausing" /\ frames = "off"
    /\ dpc' = "loop"
    /\ Release
    /\ UNCHANGED <<task, preparing, intr, ui, life, sdk, events, deleter, frames, asked, env>>

\* Decoding starts again in a live stream; F is not started here.
resume ==
    /\ dpc = "loop" /\ wpc = "emit" /\ doing = "resume"
    /\ stream' = IF stream = "paused" \/ (live /\ stream \in {"idle", "stopped"})
                 THEN "running" ELSE stream
    /\ fresh' = (fresh \/ (live /\ stream \in {"idle", "stopped"}))
    /\ Release
    /\ UNCHANGED <<task, preparing, intr, ui, dpc, life, openpc, recording, reopening, retries,
                   events, deleter, frames, asked, env>>

\* Seeded bug: close is also called when S is to call it.
safeDeleteBoth ==
    /\ dpc = "loop" /\ wpc = "emit" /\ doing = "close"
    /\ dpc' = "closing"
    /\ spc' = IF isOpening THEN "loop" ELSE spc
    /\ UNCHANGED <<worker, ui, life, sdk, events, sintr, frames, asked, env>>

\* safeDelete: D closes at once, or has S do it while the stream is opening.
safeDelete ==
    /\ dpc = "loop" /\ wpc = "emit" /\ doing = "close"
    /\ dpc' = IF isOpening THEN "starting" ELSE "closing"
    /\ UNCHANGED <<worker, ui, life, sdk, events, deleter, frames, asked, env>>

\* Window: the opening has ended since it was tested, and S, which is only
\* running now, is not asked to stop.
startDeleter ==
    /\ dpc = "starting"
    /\ spc' = IF spc = "off" THEN "loop" ELSE spc
    /\ sintr' = (sintr /\ spc # "off")
    /\ dpc' = "loop"
    /\ Release
    /\ UNCHANGED <<task, preparing, intr, ui, life, sdk, events, frames, asked, env>>

\* StreamDecoder::close, in D or in S.  Closing the SDK's controller waits for
\* the callback of an asynchronous open.
close ==
    /\ openpc = "done"
    /\ stream' = "closed" /\ fresh' = FALSE /\ recording' = FALSE /\ reopening' = FALSE
    /\ frames' = "off"
    /\ evq' = evq \o (IF recording THEN <<"recording", "closed">> ELSE <<"closed">>)
    /\ uq' = Append(uq, "aboutToDelete")

closeInD ==
    /\ dpc = "closing" /\ close
    /\ dpc' = "loop"
    /\ Release
    /\ UNCHANGED <<task, preparing, intr, upc, nulled, life, openpc, retries, epc, isOpening,
                   deleter, asked, env>>

\* onNeedToStartRecoding and onNeedToStopRecording.
record ==
    /\ odd = "recorded" /\ dpc = "loop" /\ stream = "running" /\ evq = <<>>
    /\ recording' = ~recording
    /\ evq' = <<"recording">>
    /\ UNCHANGED <<worker, ui, dpc, life, openpc, stream, fresh, reopening, retries, epc, isOpening,
                   deleter, frames, asked, env>>

\* The event loop ends and ~StreamDecoder runs: F and S are stopped, by force
\* if need be, and the SDK's controller joins E.
threadFinishes ==
    /\ dpc = "loop" /\ quit /\ decoder /\ epc = "loop"
    /\ decoder' = FALSE
    /\ frames' = "off" /\ spc' = "off" /\ evq' = <<>>
    /\ wpc' = IF wpc = "emit" THEN "test" ELSE wpc
    /\ doing' = "none"
    /\ uq' = Append(uq, "finished")
    /\ dpc' = "finished"
    /\ UNCHANGED <<task, preparing, intr, upc, nulled, quit, sdk, epc, isOpening, sintr, asked, env>>
-----------------------------------------------------------------------------
(* S and F *)

SafeDeleteThread_run ==
    /\ spc = "loop" /\ ~isOpening /\ sintr
    /\ spc' = "closing"
    /\ UNCHANGED <<worker, ui, dpc, life, sdk, events, sintr, frames, asked, env>>

closeInS ==
    /\ spc = "closing" /\ close
    /\ spc' = "off"
    /\ UNCHANGED <<worker, upc, nulled, dpc, life, openpc, retries, epc, isOpening, sintr, asked, env>>

\* F forwards frames until it is asked to stop.
DecoderThread_run ==
    /\ frames = "told"
    /\ frames' = "off"
    /\ UNCHANGED <<worker, ui, dpc, life, sdk, events, deleter, asked, env>>
-----------------------------------------------------------------------------
(* E: streamEventCallback *)

\* What every event does at the end of the callback.
Ends(e) ==
    /\ isOpening' = (e = "opening")
    /\ sintr' = (sintr \/ (e # "opening" /\ spc # "off"))

\* The first frame starts F unless it runs.
streamEventCallback ==
    /\ epc = "loop" /\ evq # <<>> /\ Head(evq) # "recording"
    /\ odd = "preempted" \/ dpc \notin {"starting", "pausing"}
    /\ evq' = Tail(evq)
    /\ frames' = IF Head(evq) = "firstFrame" /\ frames = "off" THEN "on" ELSE frames
    /\ Ends(Head(evq))
    /\ UNCHANGED <<worker, ui, dpc, life, sdk, epc, spc, asked, env>>

\* recordingStatusChanged blocks E until the UI thread has taken it.
recordingStatusChanged ==
    /\ epc = "loop" /\ evq # <<>> /\ Head(evq) = "recording"
    /\ evq' = Tail(evq)
    /\ uq' = Append(uq, "recording")
    /\ epc' = "asking"
    /\ UNCHANGED <<worker, upc, nulled, dpc, life, sdk, isOpening, deleter, frames, asked, env>>

recordingAnswered ==
    /\ epc = "answered"
    /\ Ends("recording")
    /\ epc' = "loop"
    /\ UNCHANGED <<worker, ui, dpc, life, sdk, evq, spc, frames, asked, env>>
-----------------------------------------------------------------------------
(* The SDK *)

\* The stream has been opened or not: the event, then openCallback.
openCallback ==
    /\ openpc = "opening"
    /\ \E ok \in BOOLEAN :
           /\ evq' = Append(evq, IF ok THEN "opened" ELSE "openFailed")
           /\ stream' = IF ok THEN "idle" ELSE "failed"
    /\ uq' = Append(uq, "openResult")
    /\ openpc' = "called"
    /\ UNCHANGED <<worker, upc, nulled, dpc, life, fresh, recording, reopening, retries, epc, isOpening,
                   deleter, frames, asked, env>>

\* openCallback starts decoding after it has told the UI thread.
startDecode ==
    /\ openpc = "called"
    /\ openpc' = "done"
    /\ stream' = IF stream \in {"idle", "stopped"} THEN "running" ELSE stream
    /\ fresh' = (fresh \/ stream \in {"idle", "stopped"})
    /\ UNCHANGED <<worker, ui, dpc, life, recording, reopening, retries, events, deleter, frames,
                   asked, env>>

decodeFirstFrame ==
    /\ stream = "running" /\ fresh
    /\ fresh' = FALSE
    /\ evq' = Append(evq, "firstFrame")
    /\ UNCHANGED <<worker, ui, dpc, life, openpc, stream, recording, reopening, retries, epc, isOpening,
                   deleter, frames, asked, env>>

\* A live stream that is lost is opened again.
reconnect ==
    /\ live /\ stream = "running" /\ openpc = "done" /\ ~reopening /\ retries < MaxReconnects
    /\ reopening' = TRUE
    /\ retries' = retries + 1
    /\ evq' = Append(evq, "opening")
    /\ UNCHANGED <<worker, ui, dpc, life, openpc, stream, fresh, recording, epc, isOpening, deleter,
                   frames, asked, env>>

reconnected ==
    /\ reopening
    /\ reopening' = FALSE
    /\ \E e \in {"opened", "openFailed"} : evq' = Append(evq, e)
    /\ UNCHANGED <<worker, ui, dpc, life, openpc, stream, fresh, recording, retries, epc, isOpening,
                   deleter, frames, asked, env>>

UiStep == \/ onOpenResult \/ onAboutToDelete \/ threadWaited \/ setRecordingStatus
          \/ destructor \/ workerWaited
DStep == \/ openAsync \/ pause \/ pauseWaited \/ resume \/ safeDelete \/ startDeleter
         \/ closeInD \/ threadFinishes
EStep == streamEventCallback \/ recordingStatusChanged \/ recordingAnswered
SdkStep == openCallback \/ startDecode \/ decodeFirstFrame \/ reconnected

runStep == run \/ runSleeps
deleteStep == SafeDeleteThread_run \/ closeInS

Next ==
    \/ appendTask \/ appendClose \/ UiStep
    \/ runStep \/ DStep \/ record
    \/ deleteStep \/ DecoderThread_run
    \/ EStep \/ SdkStep \/ reconnect

\* The scheduler runs every thread that can run, and an attempt to open a
\* stream ends, if only by its timeout.  Nobody is obliged to ask for a task,
\* to record or to lose the stream.
Fairness ==
    /\ WF_vars(UiStep)
    /\ WF_vars(runStep)
    /\ WF_vars(DStep)
    /\ WF_vars(deleteStep)
    /\ WF_vars(DecoderThread_run)
    /\ WF_vars(EStep)
    /\ WF_vars(openCallback) /\ WF_vars(startDecode)
    /\ WF_vars(decodeFirstFrame) /\ WF_vars(reconnected)

Spec == Init /\ [][Next]_vars /\ Fairness
-----------------------------------------------------------------------------
(* Properties *)

\* The UI thread never uses the decoder that ~StreamDecoder has destroyed:
\* one close announces the end of the decoder once, whichever of D and S has
\* carried it out.  A second close, asked for while the first is carried out,
\* is the exception.
DecoderAlive == odd # "closedTwice" => ~nulled

\* A close is carried out to the end whenever it is asked for, during the
\* first open and during a reconnect included: the decoder closes, its thread
\* ends, the run loop is woken and the worker is deleted.  Not so while a
\* recording runs, whose last event E takes to a UI thread that may be
\* waiting for D, and not if a thread is preempted in a window.
CloseCompletes ==
    odd = "nothing" => (preparing ~> upc = "deleted")

\* A live stream that is decoded is shown: F runs, or is started by the first
\* frame after every start, resume and reconnect.
FramesFlow ==
    (live /\ odd # "preempted") => (stream = "running" ~> (frames = "on" \/ stream # "running"))
=============================================================================
