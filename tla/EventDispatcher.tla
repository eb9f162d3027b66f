--------------------------- MODULE EventDispatcher --------------------------
(***************************************************************************)
(* The event system.  An event of the thread that made the dispatcher is   *)
(* dispatched at once; an event of any other thread goes through a queue   *)
(* that a thread of the dispatcher, or the user with processAsyncEvents,   *)
(* empties: it swaps the whole queue out and dispatches event by event.    *)
(*                                                                         *)
(* An event is its thread and its number.  The model follows one listener; *)
(* a listener may throw.  The queue itself is eventpp's and external.      *)
(***************************************************************************)
EXTENDS Integers, Sequences

CONSTANTS
    Threads,     \* the threads that trigger events
    Main,        \* the one that made the dispatcher
    MaxEvents    \* bound: events of a thread

VARIABLES
    sent,        \* history: events a thread has triggered
    last,        \* history: the last event of a thread that the listener heard
    queue,       \* asyncQueue_
    batch,       \* what process() has swapped out, in the loop and in the user's call
    active,      \* asyncProcessingActive_
    stop,        \* stopAsyncProcessing_
    loop,        \* where asyncProcessingLoop is
    user,        \* where the user's call is
    listening,   \* the listener is in unifiedDispatcher_ and in handleMap_
    manual       \* the user calls processAsyncEvents as well

vars == <<sent, last, queue, batch, active, stop, loop, user, listening, manual>>

Init ==
    /\ sent = [t \in Threads |-> 0] /\ last = [t \in Threads |-> 0]
    /\ queue = <<>> /\ batch = [p \in {"loop", "user"} |-> <<>>]
    /\ active = FALSE /\ stop = FALSE /\ loop = "none" /\ user = "idle"
    /\ listening = FALSE /\ manual \in BOOLEAN

\* unifiedDispatcher_->dispatch(e): the listener hears the event if it is there.
Hear(e) == last' = IF listening THEN [last EXCEPT ![e[1]] = e[2]] ELSE last
-----------------------------------------------------------------------------
(* Events *)

isMainThread(t) == t = Main

\* Seeded bug: without a loop to take it, an event is dispatched at once.
triggerEventShortcut(t) ==
    /\ sent[t] < MaxEvents
    /\ sent' = [sent EXCEPT ![t] = @ + 1]
    /\ LET e == <<t, sent[t] + 1>>
       IN IF isMainThread(t) \/ ~active THEN Hear(e) /\ UNCHANGED queue
                                       ELSE queue' = Append(queue, e) /\ UNCHANGED last
    /\ UNCHANGED <<batch, active, stop, loop, user, listening, manual>>

\* Every event is triggered as kAuto: determineConnectionType chooses.
triggerEvent(t) ==
    /\ sent[t] < MaxEvents
    /\ sent' = [sent EXCEPT ![t] = @ + 1]
    /\ LET e == <<t, sent[t] + 1>>
       IN IF isMainThread(t) THEN Hear(e) /\ UNCHANGED queue
                             ELSE queue' = Append(queue, e) /\ UNCHANGED last
    /\ UNCHANGED <<batch, active, stop, loop, user, listening, manual>>

addEventListener ==
    /\ user = "idle" /\ ~listening
    /\ listening' = TRUE
    /\ UNCHANGED <<sent, last, queue, batch, active, stop, loop, user, manual>>

removeEventListener ==
    /\ user = "idle" /\ listening
    /\ listening' = FALSE
    /\ UNCHANGED <<sent, last, queue, batch, active, stop, loop, user, manual>>
-----------------------------------------------------------------------------
(* Queued events *)

\* process(): the queue is swapped out ...
Swap(p) == queue' = <<>> /\ batch' = [batch EXCEPT ![p] = queue]

\* ... and dispatched.  A listener that throws takes the rest of the batch along.
Dispatch(p) ==
    /\ batch[p] # <<>>
    /\ Hear(Head(batch[p]))
    /\ queue' = queue
    /\ \/ batch' = [batch EXCEPT ![p] = Tail(@)]
       \/ listening /\ batch' = [batch EXCEPT ![p] = <<>>]

processAsyncEvents ==
    /\ manual /\ user = "idle" /\ batch["user"] = <<>>
    /\ Swap("user")
    /\ UNCHANGED <<sent, last, active, stop, loop, user, listening, manual>>

userDispatches ==
    /\ user = "idle" /\ Dispatch("user")
    /\ UNCHANGED <<sent, active, stop, loop, user, listening, manual>>

\* The loop: test the flag, wait 10 ms for an event, process.  The wait also
\* ends while a call of the user is processing.
loopTests ==
    /\ loop = "test"
    /\ loop' = IF stop THEN "ended" ELSE "wait"
    /\ UNCHANGED <<sent, last, queue, batch, active, stop, user, listening, manual>>

loopWaits ==
    /\ loop = "wait"
    /\ IF queue # <<>> THEN Swap("loop") /\ loop' = "process"
                       ELSE UNCHANGED <<queue, batch>> /\ loop' = "test"
    /\ UNCHANGED <<sent, last, active, stop, user, listening, manual>>

\* Seeded bug: the exception is caught outside the loop.
loopProcessesOnce ==
    /\ loop = "process"
    /\ IF batch["loop"] = <<>> THEN loop' = "test" /\ UNCHANGED <<last, queue, batch>>
       ELSE /\ Dispatch("loop")
            /\ loop' = IF batch'["loop"] = Tail(batch["loop"]) THEN loop ELSE "ended"
    /\ UNCHANGED <<sent, active, stop, user, listening, manual>>

loopProcesses ==
    /\ loop = "process"
    /\ IF batch["loop"] = <<>> THEN loop' = "test" /\ UNCHANGED <<last, queue, batch>>
                               ELSE Dispatch("loop") /\ loop' = loop
    /\ UNCHANGED <<sent, active, stop, user, listening, manual>>
-----------------------------------------------------------------------------
(* Starting and stopping, by the thread that owns the dispatcher *)

startAsyncProcessing ==
    /\ user = "idle" /\ batch["user"] = <<>> /\ ~active
    /\ stop' = FALSE /\ active' = TRUE
    /\ user' = "starting"
    /\ UNCHANGED <<sent, last, queue, batch, loop, listening, manual>>

threadStarts ==
    /\ user = "starting"
    /\ loop' = "test" /\ user' = "idle"
    /\ UNCHANGED <<sent, last, queue, batch, active, stop, listening, manual>>

\* Seeded bug: the thread is not joined.
stopAsyncProcessingAtOnce ==
    /\ user = "idle" /\ batch["user"] = <<>> /\ active
    /\ stop' = TRUE /\ active' = FALSE
    /\ UNCHANGED <<sent, last, queue, batch, loop, user, listening, manual>>

stopAsyncProcessing ==
    /\ user = "idle" /\ batch["user"] = <<>> /\ active
    /\ stop' = TRUE /\ active' = FALSE
    /\ user' = "joining"
    /\ UNCHANGED <<sent, last, queue, batch, loop, listening, manual>>

threadJoined ==
    /\ user = "joining" /\ loop = "ended"
    /\ user' = "idle"
    /\ UNCHANGED <<sent, last, queue, batch, active, stop, loop, listening, manual>>

loopStep == loopTests \/ loopWaits \/ loopProcesses

\* A call of the user goes on.
callStep == threadStarts \/ threadJoined \/ userDispatches

Next ==
    \/ \E t \in Threads : triggerEvent(t)
    \/ addEventListener \/ removeEventListener
    \/ processAsyncEvents \/ startAsyncProcessing \/ stopAsyncProcessing
    \/ loopStep \/ callStep

\* Threads run: the loop, and a call the user has begun.
Fairness == WF_vars(loopStep) /\ WF_vars(callStep)

Spec == Init /\ [][Next]_vars /\ Fairness
-----------------------------------------------------------------------------
(* Properties *)

\* A listener hears the events of one thread in the order they were triggered,
\* across stops, restarts and exceptions, as long as the user leaves the
\* processing to the dispatcher.
InOrder == ~manual => \A t \in Threads : last'[t] >= last[t]

\* Once stopAsyncProcessing has returned, the loop has ended and holds no
\* event that it could still deliver.
StopIsFinal == (user = "idle" /\ ~active) => loop \in {"none", "ended"} /\ batch["loop"] = <<>>

\* While processing is active, whatever waits in the queue is taken, although
\* listeners throw.
QueueDrained == queue # <<>> ~> (queue = <<>> \/ ~active)
=============================================================================
