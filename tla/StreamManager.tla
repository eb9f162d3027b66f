--------------------------- MODULE StreamManager ----------------------------
(***************************************************************************)
(* The players of the GUI and the decoders they share: RtspStreamPlayer,   *)
(* StreamManager and the task slot of StreamDecoderWorker.  All three live *)
(* in the UI thread, so each of their methods is one step.  In between,    *)
(* the other threads take the task of a worker (its run loop), carry it    *)
(* out (the decoder's own thread) and announce the end of the decoder.     *)
(*                                                                         *)
(* A stream opened in multiplex mode is keyed by its url and shared; one   *)
(* opened in exclusive mode has a key of its own, here the number of its   *)
(* worker.  The threads inside one worker are those of StreamWorker.       *)
(***************************************************************************)
EXTENDS Integers, FiniteSets

CONSTANTS
    Players,      \* the VideoPlayerImpl objects
    Urls,         \* the stream addresses
    MaxWorkers    \* bound: workers created in a run

Workers == 1 .. MaxWorkers
Keys == Urls \cup Workers
None == 0   \* a null pointer, an empty string

\* An address is no number, which is what a stream of its own has for a key.
ASSUME UrlsAssumption == MaxWorkers \in Nat /\ Urls \cap (0 .. MaxWorkers) = {}

VARIABLES
    state,    \* playerState_ of each player
    url,      \* streamUrl_ (None: not open)
    mode,     \* openMode_
    keys,     \* urlToDecoderKey_ of each player
    bound,    \* mapDecoderByWidget_
    byKey,    \* mapDecoderByKey_, raw pointers
    wk,       \* the workers
    made      \* how many there have been

vars == <<state, url, mode, keys, bound, byKey, wk, made>>
player == <<state, url, mode, keys, bound>>

\* A worker: its key and players, the one task of tasks_, the task that has
\* been taken, decoderPreparingToClose_, what its decoder does, and whether
\* aboutToDelete is connected to the manager (told).
NewWorker(k) == [alive |-> TRUE, key |-> k, refs |-> {}, once |-> FALSE, task |-> "none",
                 doing |-> "none", preparing |-> FALSE, decoder |-> "unopened", told |-> TRUE]

Init ==
    /\ state = [p \in Players |-> "Stop"]
    /\ url = [p \in Players |-> None]
    /\ mode = [p \in Players |-> "exclusive"]
    /\ keys = [p \in Players |-> [u \in Urls |-> None]]
    /\ bound = [p \in Players |-> None]
    /\ byKey = [k \in Keys |-> None]
    /\ wk = [w \in Workers |-> [NewWorker(None) EXCEPT !.alive = FALSE]]
    /\ made = 0
-----------------------------------------------------------------------------
(* StreamDecoderWorker, as functions of one worker; st is the players' state. *)

\* Seeded bug: a pause stops the stream whoever else plays it.
shouldExecuteTaskAlone(r, t, st) == t # "close" \/ r.refs = {}

\* A pause waits for the other players to pause, a close for the last to leave.
shouldExecuteTask(r, t, st) ==
    CASE t = "pause"  -> \A p \in r.refs : st[p] \notin {"Playing", "Resume"}
      [] t = "resume" -> TRUE
      [] t = "close"  -> r.refs = {}

\* Only the newest task is kept, and none is taken once a close waits.
appendTask(r, t, st) ==
    IF ~shouldExecuteTask(r, t, st) \/ r.task = "close" THEN r
    ELSE [r EXCEPT !.task = t, !.preparing = @ \/ t = "close"]

\* The first player opens the decoder, the others only make it resume.
openWorker(r, st) ==
    IF r.once THEN appendTask(r, "resume", st)
    ELSE [r EXCEPT !.once = TRUE, !.decoder = "opening"]

registerPlayer(r, p) == [r EXCEPT !.refs = @ \cup {p}]
unRegisterPlayer(r, p) == [r EXCEPT !.refs = @ \ {p}]

(* StreamManager *)

\* The QPointers of mapDecoderByWidget_ are null once the worker is deleted.
streamDecoderByPlayer(p) == IF bound[p] # None /\ wk[bound[p]].alive THEN bound[p] ELSE None

isStreamExist(k) == k # None /\ byKey[k] # None

\* Whether getOrCreateDecoder makes a worker: a dying one is replaced.
Creates(ws, m, u) == m = "exclusive" \/ byKey[u] = None \/ ws[byKey[u]].preparing

GotWorker(ws, m, u) == IF Creates(ws, m, u) THEN made + 1 ELSE byKey[u]
GotKey(m, u) == IF m = "exclusive" THEN made + 1 ELSE u

\* Seeded bug: the replaced worker stays connected to the manager.
getOrCreateDecoderTold(ws, m, u) ==
    IF Creates(ws, m, u) THEN [ws EXCEPT ![made + 1] = NewWorker(GotKey(m, u))] ELSE ws

\* The workers afterwards; a replaced one is disconnected from the manager.
getOrCreateDecoder(ws, m, u) ==
    [w \in Workers |->
        IF Creates(ws, m, u) /\ w = made + 1 THEN NewWorker(GotKey(m, u))
        ELSE IF Creates(ws, m, u) /\ m = "multiplex" /\ w = byKey[u]
        THEN [ws[w] EXCEPT !.told = FALSE] ELSE ws[w]]

\* The workers after closeStream and closeSupplementaryStream have unbound p.
closeWorker(r, p, st) == appendTask(unRegisterPlayer(r, p), "close", st)

\* Seeded bug: only the current stream is closed.
supplementaryNone(p) == {}

\* The workers that RtspStreamPlayer::closeStream closes besides the current
\* one.  It looks the decoder keys up as if they were urls, which they are
\* in multiplex mode only.
supplementary(p) ==
    {byKey[keys[p][k]] : k \in {v \in Urls : /\ v # url[p]
                                             /\ v \in {keys[p][u] : u \in Urls}
                                             /\ isStreamExist(keys[p][v])}}

\* All workers after close() of player p.
closed(p, st) ==
    [w \in Workers |->
        IF w = streamDecoderByPlayer(p) \/ w \in supplementary(p) THEN closeWorker(wk[w], p, st)
        ELSE wk[w]]
-----------------------------------------------------------------------------
(* RtspStreamPlayer *)

close(p) ==
    /\ state' = [state EXCEPT ![p] = "Stop"]
    /\ wk' = closed(p, state')
    /\ bound' = [bound EXCEPT ![p] = None]
    /\ url' = [url EXCEPT ![p] = None]
    /\ mode' = [mode EXCEPT ![p] = "exclusive"]
    /\ keys' = [keys EXCEPT ![p] = [u \in Urls |-> None]]
    /\ UNCHANGED <<byKey, made>>

\* A player that is not stopped is closed first.
open(p, u, m) ==
    LET stopped == [state EXCEPT ![p] = "Stop"]
        ws == IF state[p] = "Stop" THEN wk ELSE closed(p, stopped)
        w == GotWorker(ws, m, u)
    IN /\ w <= MaxWorkers
       /\ state' = [state EXCEPT ![p] = "Start"]
       /\ wk' = [getOrCreateDecoder(ws, m, u) EXCEPT
                    ![w] = openWorker(registerPlayer(@, p), state')]
       /\ byKey' = [byKey EXCEPT ![GotKey(m, u)] = w]
       /\ made' = IF w > made THEN w ELSE made
       /\ bound' = [bound EXCEPT ![p] = w]
       /\ url' = [url EXCEPT ![p] = u]
       /\ mode' = [mode EXCEPT ![p] = m]
       /\ keys' = [keys EXCEPT ![p] = [v \in Urls |-> IF v = u THEN GotKey(m, u) ELSE None]]

\* setPlayerState first, then the task.
pause(p) ==
    LET w == streamDecoderByPlayer(p)
    IN /\ state[p] \in {"Start", "Playing", "Resume"}
       /\ state' = [state EXCEPT ![p] = "Pause"]
       /\ wk' = IF w = None THEN wk ELSE [wk EXCEPT ![w] = appendTask(@, "pause", state')]
       /\ UNCHANGED <<url, mode, keys, bound, byKey, made>>

resume(p) ==
    LET w == streamDecoderByPlayer(p)
    IN /\ state[p] = "Pause"
       /\ state' = [state EXCEPT ![p] = "Resume"]
       /\ wk' = IF w = None THEN wk ELSE [wk EXCEPT ![w] = appendTask(@, "resume", state')]
       /\ UNCHANGED <<url, mode, keys, bound, byKey, made>>

\* The new stream is created paused unless the player has its key already;
\* then the player moves from the old worker, which pauses, to the new one,
\* even if that one is about to close.
switchStream(p, u) ==
    LET exists == isStreamExist(keys[p][u])
        k == IF exists THEN keys[p][u] ELSE GotKey(mode[p], u)
        w == IF exists THEN byKey[k] ELSE GotWorker(wk, mode[p], u)
        old == streamDecoderByPlayer(p)
        stopped == [state EXCEPT ![p] = "Stop"]
        created == IF exists THEN wk
                   ELSE [getOrCreateDecoder(wk, mode[p], u) EXCEPT
                            ![w] = appendTask(openWorker(@, state), "pause", state)]
        left == IF old = None THEN created
                ELSE [created EXCEPT
                        ![old] = unRegisterPlayer(appendTask(@, "pause", stopped), p)]
    IN /\ url[p] # None /\ url[p] # u
       /\ w <= MaxWorkers
       /\ wk' = [left EXCEPT ![w] = appendTask(registerPlayer(@, p), "resume", stopped)]
       /\ byKey' = [byKey EXCEPT ![k] = w]
       /\ made' = IF w > made THEN w ELSE made
       /\ bound' = [bound EXCEPT ![p] = w]
       /\ state' = [state EXCEPT ![p] = "Start"]
       /\ url' = [url EXCEPT ![p] = u]
       /\ keys' = [keys EXCEPT ![p][u] = k]
       /\ UNCHANGED mode

\* A frame of the bound decoder, perhaps delivered after a pause.
videoFrameReady(p) ==
    /\ state[p] \in {"Start", "Resume"}
    /\ \E w \in Workers : wk[w].alive /\ p \in wk[w].refs /\ wk[w].decoder \in {"decoding", "paused"}
    /\ state' = [state EXCEPT ![p] = "Playing"]
    /\ UNCHANGED <<url, mode, keys, bound, byKey, wk, made>>
-----------------------------------------------------------------------------
(* The threads of a worker *)

\* openResultReady: the decoder has been opened, or not, and run starts.
openResultReady(w) ==
    /\ wk[w].decoder = "opening"
    /\ \E d \in {"decoding", "failed"} : wk' = [wk EXCEPT ![w].decoder = d]
    /\ UNCHANGED <<player, byKey, made>>

\* run takes the task.
takeTask(w) ==
    /\ wk[w].alive /\ wk[w].decoder \in {"decoding", "paused", "failed", "closed"}
    /\ wk[w].task # "none" /\ wk[w].doing = "none"
    /\ wk' = [wk EXCEPT ![w].doing = wk[w].task, ![w].task = "none"]
    /\ UNCHANGED <<player, byKey, made>>

\* doTask in the decoder's thread; nothing can be paused or resumed unless open.
doTask(w) ==
    /\ wk[w].alive /\ wk[w].doing # "none"
    /\ wk' = [wk EXCEPT ![w].doing = "none", ![w].decoder =
                 CASE wk[w].doing = "close" -> "closed"
                   [] wk[w].doing = "pause" /\ @ = "decoding" -> "paused"
                   [] wk[w].doing = "resume" /\ @ = "paused" -> "decoding"
                   [] OTHER -> @]
    /\ UNCHANGED <<player, byKey, made>>

\* aboutToDelete of a closed worker, received by a manager that is connected.
onWorkerAboutToDelete(w) ==
    /\ wk[w].alive /\ wk[w].decoder = "closed" /\ wk[w].doing = "none"
    /\ byKey' = IF wk[w].told THEN [byKey EXCEPT ![wk[w].key] = None] ELSE byKey
    /\ wk' = [wk EXCEPT ![w].decoder = "deleted"]
    /\ UNCHANGED <<player, made>>

\* The worker deletes itself when the decoder's thread has finished.
deleteLater(w) ==
    /\ wk[w].alive /\ wk[w].decoder = "deleted"
    /\ wk' = [wk EXCEPT ![w] = [NewWorker(None) EXCEPT !.alive = FALSE]]
    /\ UNCHANGED <<player, byKey, made>>

Next ==
    \/ \E p \in Players :
           \/ close(p) \/ pause(p) \/ resume(p) \/ videoFrameReady(p)
           \/ \E u \in Urls : switchStream(p, u) \/ \E m \in {"exclusive", "multiplex"} : open(p, u, m)
    \/ \E w \in Workers : \/ openResultReady(w) \/ takeTask(w) \/ doTask(w)
                          \/ onWorkerAboutToDelete(w) \/ deleteLater(w)

Spec == Init /\ [][Next]_vars
-----------------------------------------------------------------------------
(* Properties *)

\* The raw pointers of mapDecoderByKey_ are good: a key leads to a worker that
\* has not been deleted and has that key, and a worker that is not about to
\* close is found under its key, also when it has replaced a dying one that
\* announces its end later.
Registered ==
    /\ \A k \in Keys : byKey[k] # None => wk[byKey[k]].alive /\ wk[byKey[k]].key = k
    /\ \A w \in Workers : (wk[w].alive /\ ~wk[w].preparing) => byKey[wk[w].key] = w

\* What a worker will be doing once it has carried out its tasks.
Effective(r) ==
    IF r.task # "none" THEN r.task ELSE IF r.doing # "none" THEN r.doing
    ELSE IF r.decoder = "paused" THEN "pause" ELSE "resume"

\* A player that asked for its stream to resume gets it: no pause that another
\* player of the stream asks for, earlier or later, is what remains to be
\* done.  A player moved to a stream that is closing is the exception.
ResumeKept ==
    \A p \in Players :
        LET w == streamDecoderByPlayer(p)
        IN (state[p] = "Resume" /\ w # None /\ ~wk[w].preparing) => Effective(wk[w]) # "pause"

\* When all players are closed every shared stream is closing, the ones that
\* a player had switched away from included.
NoLeak ==
    (\A p \in Players : state[p] = "Stop") =>
        \A w \in Workers : (wk[w].alive /\ wk[w].key \in Urls) => wk[w].preparing

\* StreamManager serves its players: its map leads to live workers, a resume is
\* not undone by another player's pause, and closing all players closes every
\* shared stream.
PlayersServed == Registered /\ ResumeKept /\ NoLeak
=============================================================================
