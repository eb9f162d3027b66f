----------------------------- MODULE AsyncOpen ------------------------------
(***************************************************************************)
(* DecoderController::openAsync: the application's open, openAsync,        *)
(* cancelAsyncOpen, close and destructor against the task that opens a     *)
(* stream in the background and reports the outcome to a callback.         *)
(*                                                                         *)
(* Every call of the application begins with cancelAsyncOpen, which takes  *)
(* no mutex: it raises the cancel flag and waits for the task.  The task   *)
(* holds mutex_ while it opens and reads the flag three times.  The stream *)
(* of the demuxer and the stream for which the decoders were created are   *)
(* told apart, as a cancelled task closes the first and leaves the second. *)
(* The callback is assumed not to call the controller: cancelAsyncOpen in  *)
(* it would wait for the task that runs the callback.                      *)
(***************************************************************************)
EXTENDS Integers

CONSTANTS
    Urls,     \* the streams the application opens
    NoUrl     \* no stream, none of Urls

VARIABLES
    mutex,                \* the owner of mutex_
    inProgress, cancel,   \* asyncOpenInProgress_, shouldCancelAsyncOpen_
    callback,             \* asyncOpenCallback_ is set
    tpc, turl, result,    \* the task: its step, its url, its result so far
    apc, call, url,       \* the application: its step, its last call, that call's url
    stream, decoders,     \* whose streams the demuxer and the decoders are
    told, before          \* history: the answer to the last openAsync, and the stream before it

flags == <<inProgress, cancel>>
task == <<tpc, turl, result>>
application == <<apc, call, url>>
opened == <<stream, decoders>>
history == <<told, before>>
vars == <<mutex, inProgress, cancel, callback, tpc, turl, result, apc, call, url,
          stream, decoders, told, before>>

Results == {"success", "failed", "cancelled"}

Init ==
    /\ mutex = "none"
    /\ inProgress = FALSE /\ cancel = FALSE /\ callback = FALSE
    /\ tpc = "none" /\ turl = NoUrl /\ result = "failed"
    /\ apc = "idle" /\ call = "close" /\ url = NoUrl
    /\ stream = NoUrl /\ decoders = NoUrl
    /\ told = "none" /\ before = NoUrl
-----------------------------------------------------------------------------
(* The application's calls.                                                *)

Enter(c, u) ==
    /\ apc = "idle"
    /\ call' = c /\ url' = u
    /\ apc' = "cancel"
    /\ UNCHANGED <<mutex, flags, callback, task, opened, history>>

\* The destructor forgets the callback before it cancels.
destroy ==
    /\ apc = "idle"
    /\ call' = "destroy" /\ url' = NoUrl
    /\ callback' = FALSE
    /\ apc' = "cancel"
    /\ UNCHANGED <<mutex, flags, task, opened, history>>

\* Where a call goes on after cancelAsyncOpen.
Cancelled == IF call = "cancel" THEN "idle" ELSE "body"

\* cancelAsyncOpen: nothing to do unless a task is in progress.
CancelTest ==
    /\ apc = "cancel"
    /\ apc' = IF inProgress THEN "raise" ELSE Cancelled
    /\ UNCHANGED <<mutex, flags, callback, task, call, url, opened, history>>

CancelRaise ==
    /\ apc = "raise"
    /\ cancel' = TRUE
    /\ apc' = "wait"
    /\ UNCHANGED <<mutex, inProgress, callback, task, call, url, opened, history>>

\* Seeded bug: the task is told to stop, and nobody waits for it.
CancelWaitNot ==
    /\ apc = "wait"
    /\ apc' = "lower"
    /\ UNCHANGED <<mutex, flags, callback, task, call, url, opened, history>>

\* asyncOpenFuture_.wait()
CancelWait ==
    /\ apc = "wait" /\ tpc = "none"
    /\ apc' = "lower"
    /\ UNCHANGED <<mutex, flags, callback, task, call, url, opened, history>>

CancelLower ==
    /\ apc = "lower"
    /\ cancel' = FALSE
    /\ apc' = Cancelled
    /\ UNCHANGED <<mutex, inProgress, callback, task, call, url, opened, history>>

\* openInternal on u: the old stream is closed first; the new one may fail to
\* open, and then the decoders of the old stream are still there.
OpenInternal(u) ==
    \/ stream' = u /\ decoders' = u
    \/ stream' = NoUrl /\ decoders' = decoders

open ==
    /\ apc = "body" /\ call = "open" /\ mutex = "none"
    /\ OpenInternal(url)
    /\ apc' = "idle"
    /\ UNCHANGED <<mutex, flags, callback, task, call, url, history>>

\* One critical section: nothing in it waits.
openAsync ==
    /\ apc = "body" /\ call = "openAsync" /\ mutex = "none"
    /\ callback' = TRUE /\ inProgress' = TRUE /\ cancel' = FALSE
    /\ tpc' = "lock" /\ turl' = url /\ result' = "failed"
    /\ told' = "pending" /\ before' = stream
    /\ apc' = "idle"
    /\ UNCHANGED <<mutex, call, url, opened>>

\* The rest of close(): cleanupPreBufferState, stopDecode and closeInternal.
close ==
    /\ apc = "body" /\ call \in {"close", "destroy"} /\ mutex = "none"
    /\ stream' = NoUrl /\ decoders' = NoUrl
    /\ apc' = IF call = "close" THEN "idle" ELSE "gone"
    /\ UNCHANGED <<mutex, flags, callback, task, call, url, history>>
-----------------------------------------------------------------------------
(* The task.                                                               *)

\* The first look at the flag, with mutex_ taken.
TaskLock ==
    /\ tpc = "lock" /\ mutex = "none"
    /\ IF cancel
       THEN mutex' = mutex /\ result' = "cancelled" /\ tpc' = "take"
       ELSE mutex' = "task" /\ result' = result /\ tpc' = "check"
    /\ UNCHANGED <<flags, callback, turl, application, opened, history>>

\* openAsyncInternal looks again.
TaskCheck ==
    /\ tpc = "check"
    /\ tpc' = IF cancel THEN "test" ELSE "open"
    /\ UNCHANGED <<mutex, flags, callback, turl, result, application, opened, history>>

TaskOpen ==
    /\ tpc = "open"
    /\ OpenInternal(turl)
    /\ result' = IF stream' = turl THEN "success" ELSE "failed"
    /\ tpc' = "test"
    /\ UNCHANGED <<mutex, flags, callback, turl, application, history>>

\* Seeded bug: a cancelled task leaves the stream it has opened.
TaskTestKeepsStream ==
    /\ tpc = "test"
    /\ result' = IF cancel THEN "cancelled" ELSE result
    /\ mutex' = "none"
    /\ tpc' = "take"
    /\ UNCHANGED <<flags, callback, turl, application, opened, history>>

\* Seeded bug: mutex_ is locked by hand and a cancelled task forgets to unlock it.
TaskTestKeepsMutex ==
    /\ tpc = "test"
    /\ result' = IF cancel THEN "cancelled" ELSE result
    /\ stream' = IF cancel /\ result = "success" THEN NoUrl ELSE stream
    /\ mutex' = IF cancel THEN mutex ELSE "none"
    /\ tpc' = "take"
    /\ UNCHANGED <<flags, callback, turl, application, decoders, history>>

\* The last look: a stream that was opened is closed again, the decoders stay.
TaskTest ==
    /\ tpc = "test"
    /\ result' = IF cancel THEN "cancelled" ELSE result
    /\ stream' = IF cancel /\ result = "success" THEN NoUrl ELSE stream
    /\ mutex' = "none"
    /\ tpc' = "take"
    /\ UNCHANGED <<flags, callback, turl, application, decoders, history>>

\* Seeded bug: the operation is marked finished before the callback is called.
TaskTakeFinishes ==
    /\ tpc = "take"
    /\ callback' = FALSE /\ inProgress' = FALSE
    /\ tpc' = IF callback THEN "call" ELSE "finish"
    /\ told' = IF callback THEN told ELSE "dropped"
    /\ UNCHANGED <<mutex, cancel, turl, result, application, opened, before>>

\* Seeded bug: a cancelled operation forgets its callback.
TaskTakeSilent ==
    /\ tpc = "take"
    /\ callback' = FALSE
    /\ tpc' = IF callback /\ result # "cancelled" THEN "call" ELSE "finish"
    /\ told' = IF callback THEN told ELSE "dropped"
    /\ UNCHANGED <<mutex, flags, turl, result, application, opened, before>>

\* The callback is taken out under its own mutex and called without any.
TaskTake ==
    /\ tpc = "take"
    /\ callback' = FALSE
    /\ tpc' = IF callback THEN "call" ELSE "finish"
    /\ told' = IF callback THEN told ELSE "dropped"
    /\ UNCHANGED <<mutex, flags, turl, result, application, opened, before>>

TaskCall ==
    /\ tpc = "call"
    /\ told' = result
    /\ tpc' = "finish"
    /\ UNCHANGED <<mutex, flags, callback, turl, result, application, opened, before>>

TaskFinish ==
    /\ tpc = "finish"
    /\ inProgress' = FALSE
    /\ tpc' = "none"
    /\ UNCHANGED <<mutex, cancel, callback, turl, result, application, opened, history>>
-----------------------------------------------------------------------------
App ==
    \/ CancelTest \/ CancelRaise \/ CancelWait \/ CancelLower
    \/ open \/ openAsync \/ close

Task ==
    \/ TaskLock \/ TaskCheck \/ TaskOpen \/ TaskTest
    \/ TaskTake \/ TaskCall \/ TaskFinish

Next ==
    \/ \E c \in {"open", "openAsync"}, u \in Urls : Enter(c, u)
    \/ \E c \in {"cancel", "close"} : Enter(c, NoUrl)
    \/ destroy
    \/ App
    \/ Task

Spec == Init /\ [][Next]_vars

\* The threads keep running: the application's own calls go on, as does the
\* task, whose FFmpeg calls return by their interrupt timeout.
FairSpec == Spec /\ WF_vars(App) /\ WF_vars(Task)
-----------------------------------------------------------------------------
\* The types, and mutex_ is held across steps exactly while the task opens.
TypeOK ==
    /\ mutex = IF tpc \in {"check", "open", "test"} THEN "task" ELSE "none"
    /\ inProgress \in BOOLEAN /\ cancel \in BOOLEAN /\ callback \in BOOLEAN
    /\ tpc \in {"none", "lock", "check", "open", "test", "take", "call", "finish"}
    /\ turl \in Urls \cup {NoUrl} /\ result \in Results
    /\ apc \in {"idle", "cancel", "raise", "wait", "lower", "body", "gone"}
    /\ call \in {"open", "openAsync", "cancel", "close", "destroy"}
    /\ url \in Urls \cup {NoUrl}
    /\ stream \in Urls \cup {NoUrl} /\ decoders \in Urls \cup {NoUrl}
    /\ told \in Results \cup {"none", "pending", "dropped"} /\ before \in Urls \cup {NoUrl}

\* cancelAsyncOpen settles the operation: when open, openAsync, close or the
\* destructor goes on after it, and once the controller is gone, no task is
\* left that could touch the controller, and its callback has had its answer.
CancelSettles ==
    apc \in {"lower", "body", "gone"} => tpc = "none" /\ ~inProgress /\ told # "pending"

\* What the callback says is what the application finds, whenever it was
\* cancelled: after success the stream that was asked for is open, with
\* decoders of its own, after a failure none is, after a cancellation at most
\* the stream that was open before.
OutcomeIsTrue ==
    apc = "lower" \/ (apc = "idle" /\ call = "openAsync") =>
        /\ told = "success" => stream = turl /\ decoders = turl
        /\ told = "failed" => stream = NoUrl
        /\ told = "cancelled" => stream \in {NoUrl, before}

\* After close() no stream is open until the application opens one: no task
\* started before the close opens it behind the application's back.
ClosedStaysClosed ==
    apc \in {"idle", "gone"} /\ call \in {"close", "destroy"} => stream = NoUrl

\* Every openAsync is answered, or the destructor has dropped its callback.
Answered == told = "pending" ~> told # "pending"

\* Every call returns, also one that waits for a task.
CallReturns == apc = "cancel" ~> apc \in {"idle", "gone"}
=============================================================================
