----------------------------- MODULE Reconnect ------------------------------
(***************************************************************************)
(* The automatic reconnect of DecoderController: a read error that the     *)
(* demux thread reports is an event; the event thread starts the reconnect *)
(* thread; that thread closes and reopens the stream until it succeeds,    *)
(* runs out of attempts or is told to stop; and the application opens,     *)
(* closes, pauses and stops the reconnect at any time.                     *)
(*                                                                         *)
(* The flags are atomics: the reconnect thread writes them without the     *)
(* controller's mutex_, the others hold it.  mutex is the owner of mutex_  *)
(* across steps; a critical section that waits for nothing is one step.    *)
(* handle says whether reconnectThread_ is joinable, and rpc, the step of  *)
(* reconnectLoop, is "idle" when the thread's function has returned.       *)
(***************************************************************************)
EXTENDS Integers

CONSTANTS
    MaxAttempts,   \* config_.maxReconnectAttempts, a positive one
    MaxErrors      \* bound on the number of read errors

ASSUME ReconnectAssumption == MaxAttempts \in Nat \ {0} /\ MaxErrors \in Nat

VARIABLES
    mutex,
    isReconnecting, shouldStop, attempt, handle,   \* the reconnect members of DecoderController
    rpc,                                           \* the reconnect thread
    epc, queued, errors,                           \* the event thread, its queue, errors so far
    apc, call,                                     \* the application, its call
    opened, demuxing, paused,                      \* the demuxer: isOpened_, its thread, isPaused_
    wasPaused, hadDecoder, isDecoding              \* ...WhenReconnected_ and isDecoding_

flags == <<isReconnecting, shouldStop, attempt, handle>>
events == <<epc, queued, errors>>
application == <<apc, call>>
stream == <<opened, demuxing, paused>>
intent == <<wasPaused, hadDecoder>>
vars == <<mutex, isReconnecting, shouldStop, attempt, handle, rpc, epc, queued, errors,
          apc, call, opened, demuxing, paused, wasPaused, hadDecoder, isDecoding>>

Init ==
    /\ mutex = "none"
    /\ isReconnecting = FALSE /\ shouldStop = FALSE /\ attempt = 0 /\ handle = FALSE
    /\ rpc = "idle"
    /\ epc = "idle" /\ queued = 0 /\ errors = 0
    /\ apc = "idle" /\ call = "stop"
    /\ opened = FALSE /\ demuxing = FALSE /\ paused = FALSE
    /\ wasPaused = FALSE /\ hadDecoder = FALSE /\ isDecoding = FALSE
-----------------------------------------------------------------------------
(* The application.  open(), close() and stopReconnectManually() begin with *)
(* stopReconnect().                                                         *)

Enter(c) ==
    /\ apc = "idle"
    /\ call' = c
    /\ apc' = "stop"
    /\ UNCHANGED <<mutex, flags, rpc, events, stream, intent, isDecoding>>

\* Where the call goes on after stopReconnect().
Resumed == IF call = "stop" THEN "idle" ELSE call

\* The first test of stopReconnect; otherwise mutex_ stays locked.
StopTest ==
    /\ apc = "stop" /\ mutex = "none"
    /\ IF isReconnecting
       THEN mutex' = "app" /\ apc' = "stopFlag"
       ELSE mutex' = mutex /\ apc' = Resumed
    /\ UNCHANGED <<flags, rpc, events, call, stream, intent, isDecoding>>

\* Seeded bug: mutex_ stays locked during the join.
StopFlagKeepMutex ==
    /\ apc = "stopFlag"
    /\ shouldStop' = TRUE
    /\ apc' = IF handle THEN "join" ELSE "cleanup"
    /\ UNCHANGED <<mutex, isReconnecting, attempt, handle, rpc, events, call, stream, intent, isDecoding>>

\* mutex_ is unlocked for the join only.
StopFlag ==
    /\ apc = "stopFlag"
    /\ shouldStop' = TRUE
    /\ IF handle THEN mutex' = "none" /\ apc' = "join"
                 ELSE mutex' = mutex /\ apc' = "cleanup"
    /\ UNCHANGED <<isReconnecting, attempt, handle, rpc, events, call, stream, intent, isDecoding>>

StopJoin ==
    /\ apc = "join" /\ rpc = "idle"
    /\ handle' = FALSE
    /\ apc' = "relock"
    /\ UNCHANGED <<mutex, isReconnecting, shouldStop, attempt, rpc, events, call, stream, intent, isDecoding>>

StopRelock ==
    /\ apc = "relock" /\ mutex = "none"
    /\ mutex' = "app"
    /\ apc' = "cleanup"
    /\ UNCHANGED <<flags, rpc, events, call, stream, intent, isDecoding>>

\* cleanupReconnectState on behalf of stopReconnect, and mutex_ is released.
StopCleanup ==
    /\ apc = "cleanup"
    /\ isReconnecting' = FALSE /\ shouldStop' = FALSE /\ attempt' = 0
    /\ mutex' = "none"
    /\ apc' = Resumed
    /\ UNCHANGED <<handle, rpc, events, call, stream, intent, isDecoding>>

\* openInternal: Demuxer::open closes an open stream first, and may fail.
open ==
    /\ apc = "open" /\ mutex = "none"
    /\ \E ok \in BOOLEAN : opened' = ok /\ demuxing' = ok
    /\ apc' = "idle"
    /\ UNCHANGED <<mutex, flags, rpc, events, call, paused, intent, isDecoding>>

\* The rest of close(): stopDecode in one critical section, closeInternal in the next.
CloseStopDecode ==
    /\ apc = "close" /\ mutex = "none"
    /\ hadDecoder' = FALSE /\ isDecoding' = FALSE
    /\ apc' = "closeStream"
    /\ UNCHANGED <<mutex, flags, rpc, events, call, stream, wasPaused>>

close ==
    /\ apc = "closeStream" /\ mutex = "none"
    /\ opened' = FALSE /\ demuxing' = FALSE
    /\ apc' = "idle"
    /\ UNCHANGED <<mutex, flags, rpc, events, call, paused, intent, isDecoding>>

\* The demuxer rejects pause and resume when it is closed; the controller
\* remembers them all the same.
pause ==
    /\ apc = "idle" /\ mutex = "none"
    /\ wasPaused' = TRUE
    /\ paused' = (paused \/ opened)
    /\ UNCHANGED <<mutex, flags, rpc, events, application, opened, demuxing, hadDecoder, isDecoding>>

resume ==
    /\ apc = "idle" /\ mutex = "none"
    /\ wasPaused' = FALSE
    /\ paused' = (paused /\ ~opened)
    /\ UNCHANGED <<mutex, flags, rpc, events, application, opened, demuxing, hadDecoder, isDecoding>>

\* A decoder may fail to open; then isDecoding_ is left as it was.
startDecode ==
    /\ apc = "idle" /\ mutex = "none"
    /\ hadDecoder' = TRUE
    /\ \E ok \in BOOLEAN : isDecoding' = (isDecoding \/ ok)
    /\ UNCHANGED <<mutex, flags, rpc, events, application, stream, wasPaused>>

stopDecode ==
    /\ apc = "idle" /\ mutex = "none"
    /\ hadDecoder' = FALSE /\ isDecoding' = FALSE
    /\ UNCHANGED <<mutex, flags, rpc, events, application, stream, wasPaused>>
-----------------------------------------------------------------------------
(* The demux thread and the event thread. *)

\* kStreamReadError; the demux thread ends.
ReadError ==
    /\ demuxing /\ errors < MaxErrors
    /\ demuxing' = FALSE
    /\ queued' = queued + 1 /\ errors' = errors + 1
    /\ UNCHANGED <<mutex, flags, rpc, epc, application, opened, paused, intent, isDecoding>>

\* The listener looks at shouldStopReconnect_ before it asks for mutex_.
OnReadError ==
    /\ epc = "idle" /\ queued > 0
    /\ queued' = queued - 1
    /\ epc' = IF shouldStop THEN "idle" ELSE "lock"
    /\ UNCHANGED <<mutex, flags, rpc, errors, application, stream, intent, isDecoding>>

\* Seeded bug: the old thread is not joined before its handle is assigned.
startReconnectNoJoin ==
    /\ epc = "lock" /\ mutex = "none"
    /\ IF isReconnecting
       THEN epc' = "idle" /\ UNCHANGED <<mutex, flags>>
       ELSE /\ isReconnecting' = TRUE /\ shouldStop' = FALSE /\ attempt' = 0
            /\ mutex' = "event"
            /\ epc' = "spawn"
            /\ UNCHANGED handle
    /\ UNCHANGED <<rpc, queued, errors, application, stream, intent, isDecoding>>

\* startReconnect keeps mutex_ to its end.
startReconnect ==
    /\ epc = "lock" /\ mutex = "none"
    /\ IF isReconnecting
       THEN epc' = "idle" /\ UNCHANGED <<mutex, flags>>
       ELSE /\ isReconnecting' = TRUE /\ shouldStop' = FALSE /\ attempt' = 0
            /\ mutex' = "event"
            /\ epc' = IF handle THEN "join" ELSE "spawn"
            /\ UNCHANGED handle
    /\ UNCHANGED <<rpc, queued, errors, application, stream, intent, isDecoding>>

\* Joins the previous thread.  If stopReconnect is joining it, or has since the
\* test of joinable(), join throws (EINVAL) and the event loop catches the
\* exception.
StartJoin ==
    /\ epc = "join"
    /\ \/ /\ apc = "join" \/ ~handle
          /\ mutex' = "none" /\ epc' = "idle" /\ UNCHANGED handle
       \/ /\ apc # "join" /\ handle /\ rpc = "idle"
          /\ handle' = FALSE /\ epc' = "spawn" /\ UNCHANGED mutex
    /\ UNCHANGED <<isReconnecting, shouldStop, attempt, rpc, queued, errors, application, stream, intent, isDecoding>>

StartThread ==
    /\ epc = "spawn"
    /\ handle' = TRUE
    /\ rpc' = "test"
    /\ mutex' = "none"
    /\ epc' = "idle"
    /\ UNCHANGED <<isReconnecting, shouldStop, attempt, queued, errors, application, stream, intent, isDecoding>>
-----------------------------------------------------------------------------
(* The reconnect thread: reconnectLoop and attemptReconnect. *)

LoopTest ==
    /\ rpc = "test"
    /\ IF shouldStop \/ attempt >= MaxAttempts
       THEN rpc' = "cleanup" /\ UNCHANGED attempt
       ELSE rpc' = "close" /\ attempt' = attempt + 1
    /\ UNCHANGED <<mutex, isReconnecting, shouldStop, handle, events, application, stream, intent, isDecoding>>

AttemptClose ==
    /\ rpc = "close" /\ mutex = "none"
    /\ isDecoding' = FALSE
    /\ opened' = FALSE /\ demuxing' = FALSE
    /\ rpc' = "check"
    /\ UNCHANGED <<mutex, flags, events, application, paused, intent>>

AttemptCheck ==
    /\ rpc = "check"
    /\ rpc' = IF shouldStop THEN "wait" ELSE "open"
    /\ UNCHANGED <<mutex, flags, events, application, stream, intent, isDecoding>>

AttemptOpenFails ==
    /\ rpc = "open" /\ mutex = "none"
    /\ opened' = FALSE /\ demuxing' = FALSE
    /\ rpc' = "wait"
    /\ UNCHANGED <<mutex, flags, events, application, paused, intent, isDecoding>>

\* The stream is open again; the application's pause and decoders are restored.
AttemptOpen ==
    /\ rpc = "open" /\ mutex = "none"
    /\ opened' = TRUE /\ demuxing' = TRUE
    /\ paused' = (paused \/ wasPaused)
    /\ \/ /\ isDecoding' = (isDecoding \/ hadDecoder)
          /\ rpc' = "cleanup"
       \/ hadDecoder /\ rpc' = "wait" /\ UNCHANGED isDecoding   \* a decoder does not start
    /\ UNCHANGED <<mutex, flags, events, application, intent>>

\* The interval is over, or shouldStopReconnect_ was seen.
LoopWait ==
    /\ rpc = "wait"
    /\ rpc' = "test"
    /\ UNCHANGED <<mutex, flags, events, application, stream, intent, isDecoding>>

\* cleanupReconnectState, a store at a time, and the store of reconnectLoop.
LoopCleanup ==
    /\ rpc = "cleanup"
    /\ isReconnecting' = FALSE
    /\ rpc' = "cleanupStop"
    /\ UNCHANGED <<mutex, shouldStop, attempt, handle, events, application, stream, intent, isDecoding>>

LoopCleanupStop ==
    /\ rpc = "cleanupStop"
    /\ shouldStop' = FALSE /\ attempt' = 0
    /\ rpc' = "end"
    /\ UNCHANGED <<mutex, isReconnecting, handle, events, application, stream, intent, isDecoding>>

LoopEnd ==
    /\ rpc = "end"
    /\ isReconnecting' = FALSE
    /\ rpc' = "idle"
    /\ UNCHANGED <<mutex, shouldStop, attempt, handle, events, application, stream, intent, isDecoding>>
-----------------------------------------------------------------------------
CallStep == StopTest \/ StopFlag \/ StopJoin \/ StopRelock \/ StopCleanup \/ open \/ CloseStopDecode \/ close
EventStep == OnReadError \/ startReconnect \/ StartJoin \/ StartThread
LoopStep ==
    \/ LoopTest \/ AttemptClose \/ AttemptCheck \/ AttemptOpenFails \/ AttemptOpen
    \/ LoopWait \/ LoopCleanup \/ LoopCleanupStop \/ LoopEnd
UserCall == (\E c \in {"open", "close", "stop"} : Enter(c)) \/ pause \/ resume \/ startDecode \/ stopDecode

Next == UserCall \/ CallStep \/ ReadError \/ EventStep \/ LoopStep

Spec == Init /\ [][Next]_vars

\* The threads run; a thread that waits for mutex_ gets it.
Fairness == WF_vars(CallStep) /\ WF_vars(EventStep) /\ WF_vars(LoopStep)
-----------------------------------------------------------------------------
\* Types; currentReconnectAttempt_ never exceeds maxReconnectAttempts.
TypeOK ==
    /\ mutex \in {"none", "app", "event"}
    /\ isReconnecting \in BOOLEAN /\ shouldStop \in BOOLEAN /\ handle \in BOOLEAN
    /\ attempt \in 0..MaxAttempts
    /\ rpc \in {"idle", "test", "close", "check", "open", "wait", "cleanup", "cleanupStop", "end"}
    /\ epc \in {"idle", "lock", "join", "spawn"}
    /\ errors \in 0..MaxErrors /\ queued \in 0..MaxErrors
    /\ apc \in {"idle", "stop", "stopFlag", "join", "relock", "cleanup", "open", "close", "closeStream"}
    /\ call \in {"open", "close", "stop"}
    /\ opened \in BOOLEAN /\ demuxing \in BOOLEAN /\ paused \in BOOLEAN
    /\ wasPaused \in BOOLEAN /\ hadDecoder \in BOOLEAN /\ isDecoding \in BOOLEAN

\* reconnectThread_ holds the one reconnect thread there is: startReconnect
\* assigns it only when it is not joinable (std::thread would terminate the
\* program) and the previous loop has returned, and a loop that runs can be
\* joined, by stopReconnect and by the destructor.  startReconnect's join,
\* stopReconnect's join without mutex_ and the loop's own end may come in any
\* order.
OneThread ==
    /\ epc = "spawn" => ~handle /\ rpc = "idle"
    /\ rpc # "idle" => handle

\* open(), close() and stopReconnectManually() return, whatever the reconnect
\* thread is doing when they are called.
CallReturns == apc # "idle" ~> apc = "idle"
=============================================================================
