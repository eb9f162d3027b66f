--------------------------- MODULE MCSdkThreads -----------------------------
(***************************************************************************)
(* Instances for TLC of the threads that the SDK makes beside those of     *)
(* demuxer and decoders: the reconnect thread and the task of openAsync,   *)
(* both of DecoderController, and the loop of the event dispatcher.  They  *)
(* share no state: a behaviour runs one of them, chosen in the initial     *)
(* state.                                                                  *)
(***************************************************************************)
EXTENDS Reconnect, Sequences

CONSTANTS
    Urls, NoUrl,                 \* of AsyncOpen
    Threads, Main, MaxEvents     \* of EventDispatcher

ASSUME UrlAssumption == NoUrl \notin Urls

VARIABLES
    part,     \* the part that is run; the others stay in an initial state
    oMutex, oInProgress, oCancel, oCallback, oTpc, oTurl, oResult, oApc, oCall, oUrl, oStream,
    oDecoders, oTold, oBefore,
    vSent, vLast, vQueue, vBatch, vActive, vStop, vLoop, vUser, vListening, vManual

\* The streams that the application opens in the background.
oVars == <<oMutex, oInProgress, oCancel, oCallback, oTpc, oTurl, oResult, oApc, oCall, oUrl,
           oStream, oDecoders, oTold, oBefore>>
Open == INSTANCE AsyncOpen WITH
    mutex <- oMutex, inProgress <- oInProgress, cancel <- oCancel, callback <- oCallback,
    tpc <- oTpc, turl <- oTurl, result <- oResult, apc <- oApc, call <- oCall, url <- oUrl,
    stream <- oStream, decoders <- oDecoders, told <- oTold, before <- oBefore

\* The events of the main thread and of others.
vVars == <<vSent, vLast, vQueue, vBatch, vActive, vStop, vLoop, vUser, vListening, vManual>>
Events == INSTANCE EventDispatcher WITH
    sent <- vSent, last <- vLast,
    queue <- vQueue, batch <- vBatch, active <- vActive, stop <- vStop, loop <- vLoop, user <-
    vUser, listening <- vListening, manual <- vManual

-----------------------------------------------------------------------------
Parts == {"reconnect", "open", "events"}

ThreadsInit ==
    /\ part \in Parts
    /\ Init
    /\ Open!Init
    /\ Events!Init
    /\ part # "events" => vManual

ThreadsNext ==
    \/ part = "reconnect" /\ Next /\ UNCHANGED <<part, oVars, vVars>>
    \/ part = "open" /\ Open!Next /\ UNCHANGED <<part, vars, vVars>>
    \/ part = "events" /\ Events!Next /\ UNCHANGED <<part, vars, oVars>>

allVars == <<part, vars, oVars, vVars>>

\* The fairness of a part is assumed where that part runs.
ThreadsSpec ==
    /\ ThreadsInit /\ [][ThreadsNext]_allVars
    /\ WF_vars(part = "reconnect" /\ CallStep)
    /\ WF_vars(part = "reconnect" /\ EventStep)
    /\ WF_vars(part = "reconnect" /\ LoopStep)
    /\ WF_oVars(part = "open" /\ Open!App)
    /\ WF_oVars(part = "open" /\ Open!Task)
    /\ WF_vVars(part = "events" /\ Events!loopStep)
    /\ WF_vVars(part = "events" /\ Events!callStep)
-----------------------------------------------------------------------------
\* cancelAsyncOpen leaves no task and no callback without an answer.
CancelSettles == Open!CancelSettles

\* What the callback of openAsync says is what the application finds.
OutcomeIsTrue == Open!OutcomeIsTrue

\* No task of openAsync opens a stream after close().
ClosedStaysClosed == Open!ClosedStaysClosed

\* What is begun comes to its end: an openAsync is answered
\* (AsyncOpen!Answered), the calls of DecoderController that wait for its task
\* return (AsyncOpen!CallReturns), as do those that stop the reconnect thread
\* (Reconnect!CallReturns), and the loop of EventDispatcher takes what is in the
\* queue (EventDispatcher!QueueDrained).  A behaviour runs one part, so the
\* second conjunct is the conjunction of three.
CallsEnd ==
    /\ Open!Answered
    /\ \/ part = "reconnect" /\ apc # "idle"
       \/ part = "open" /\ oApc = "cancel"
       \/ part = "events" /\ vQueue # <<>>
       ~>
       \/ part = "reconnect" /\ apc = "idle"
       \/ part = "open" /\ oApc \in {"idle", "gone"}
       \/ part = "events" /\ (vQueue = <<>> \/ ~vActive)

\* EventDispatcher delivers the events of a thread in order, and nothing from
\* its loop after stopAsyncProcessing has returned.  No step ends otherwise;
\* initially there is no event.
EventsInOrder == [][Events!InOrder /\ Events!StopIsFinal']_vVars
=============================================================================
