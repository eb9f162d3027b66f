------------------------ MODULE PlayerThreadsProofs -------------------------
(***************************************************************************)
(* WholeFrame, DecoderAlive, Released, StateTrue and PlayersServed of      *)
(* MCPlayerThreads, for any number of pictures, tasks, reconnects, slots,  *)
(* players, addresses and workers.                                         *)
(*                                                                         *)
(* PlayersServed needs, of every worker, under which key it is listed and  *)
(* until when, that its players are those bound to it, that what remains   *)
(* to be done serves them, and that a shared stream has a player which     *)
(* will close it.  A step of the UI thread changes a player and up to two  *)
(* workers, so the invariant is a predicate of its arguments, which holds  *)
(* between the parts of the step too.                                      *)
(*                                                                         *)
(* Released and StateTrue follow the slots that wait for the render        *)
(* thread: after the one that releases no frame comes, and a renderer that *)
(* paintGL does not know is announced or about to be released.             *)
(*                                                                         *)
(* WholeFrame is not inductive as it stands: the wait of renderFrame ends  *)
(* when both flags are set, so the invariant says of each stream what it   *)
(* can hold while renderFrame runs, that a flag is only set when its       *)
(* stream has nothing left to do, and that no flag is set when renderFrame *)
(* begins.                                                                 *)
(*                                                                         *)
(* DecoderAlive needs that a close is in one place at a time: asked for,   *)
(* in the worker's hand, left to the deleting thread, announced to the UI  *)
(* thread, or carried out.                                                 *)
(***************************************************************************)
EXTENDS MCPlayerThreads, TLAPS

-----------------------------------------------------------------------------
(* The stream manager. *)

States == {"Stop", "Start", "Playing", "Pause", "Resume"}
Tasks == {"pause", "resume", "close"}
Idle == {"none"} \cup Tasks
WorkerType ==
    [alive : BOOLEAN, key : Keys \cup {None}, refs : SUBSET Players, once : BOOLEAN, task : Idle,
     doing : Idle, preparing : BOOLEAN,
     decoder : {"unopened", "opening", "decoding", "paused", "failed", "closed", "deleted"},
     told : BOOLEAN]

\* The end of a worker has begun with the close that it prepares for.
EndsPrepared(r) ==
    /\ (~r.told \/ r.decoder \in {"closed", "deleted"} \/ r.task = "close" \/ r.doing = "close")
           => r.preparing
    /\ r.decoder = "deleted" => r.doing = "none"

\* A worker is the one of its key until it is replaced or announces its end.
Listed(w, r) ==
    /\ w <= made /\ r.key \in Keys /\ (r.key \in Workers => r.key = w)
    /\ byKey[r.key] = w <=> (r.told /\ r.decoder # "deleted")
    /\ EndsPrepared(r)

\* The players of a worker are those bound to it.
PlayersBound(bo, w, r) == \A p \in Players : p \in r.refs <=> bo[p] = w

\* Player p will close worker w: it plays it, or it has switched away from it.
Attached(st, ur, mo, ks, bo, p, w, r) ==
    /\ st[p] # "Stop" /\ mo[p] = "multiplex" /\ ks[p][r.key] = r.key
    /\ bo[p] = w \/ ur[p] # r.key

\* A shared stream that stays open has a player that will close it.
Watched(st, ur, mo, ks, bo, w, r) ==
    (r.key \in Urls /\ ~r.preparing) => \E p \in Players : Attached(st, ur, mo, ks, bo, p, w, r)

\* No pause is what remains to be done for a player that resumes.
Serves(st, r) ==
    (~r.preparing /\ \E p \in r.refs : st[p] = "Resume") => Effective(r) # "pause"

WorkerSound(st, ur, mo, ks, bo, w, r) ==
    r.alive => /\ Listed(w, r) /\ PlayersBound(bo, w, r) /\ Serves(st, r)
               /\ Watched(st, ur, mo, ks, bo, w, r)

\* The key of a player's stream is its url, or a number in exclusive mode.
KeysOf(mo, ks, p) ==
    \A u \in Urls : ks[p][u] \in (IF mo[p] = "multiplex" THEN {u, None} ELSE Workers \cup {None})

\* What a player that is bound knows of its worker.
BoundSound(st, ur, ks, bo, ws, p) ==
    bo[p] # None => /\ st[p] # "Stop" /\ ur[p] \in Urls
                    /\ ws[bo[p]].alive => ks[p][ur[p]] = ws[bo[p]].key

\* A key leads to a worker that exists and has that key.
KeyLeads(ws) == \A k \in Keys : byKey[k] # None => ws[byKey[k]].alive /\ ws[byKey[k]].key = k

ManagerTypes(st, ur, mo, ks, bo, ws) ==
    /\ st \in [Players -> States] /\ ur \in [Players -> Urls \cup {None}]
    /\ mo \in [Players -> {"exclusive", "multiplex"}]
    /\ ks \in [Players -> [Urls -> Keys \cup {None}]]
    /\ bo \in [Players -> 0 .. made] /\ ws \in [Workers -> WorkerType]
    /\ made \in 0 .. MaxWorkers /\ byKey \in [Keys -> 0 .. made]

\* The inductive invariant, of the variables as they are and as the parts of a
\* step leave them.
ManagerSound(st, ur, mo, ks, bo, ws) ==
    /\ ManagerTypes(st, ur, mo, ks, bo, ws) /\ KeyLeads(ws)
    /\ \A w \in Workers : WorkerSound(st, ur, mo, ks, bo, w, ws[w])
    /\ \A p \in Players : KeysOf(mo, ks, p) /\ BoundSound(st, ur, ks, bo, ws, p)

ManagerInv == ManagerSound(state, url, mode, keys, bound, wk)
-----------------------------------------------------------------------------

\* None is no url and no worker, and a url is no worker.
LEMMA KeysApart == None \notin Keys /\ Urls \cap Workers = {} /\ Workers \subseteq Nat
BY UrlsAssumption DEF Keys, Workers, None

\* What a worker becomes stays the worker it was.
Kept(r, q) ==
    /\ q \in WorkerType /\ q.alive = r.alive /\ q.key = r.key /\ q.told = r.told
    /\ q.decoder = "deleted" <=> r.decoder = "deleted"
    /\ r.preparing => q.preparing
    /\ EndsPrepared(r) => EndsPrepared(q)

\* A task is added, or refused.
LEMMA TaskAdded ==
    ASSUME NEW r \in WorkerType, NEW t \in Tasks, NEW st
    PROVE  LET q == appendTask(r, t, st)
           IN  /\ Kept(r, q) /\ q.refs = r.refs /\ q.doing = r.doing /\ q.decoder = r.decoder
               /\ q.once = r.once
               /\ (t = "pause" /\ \E p \in r.refs : st[p] = "Resume") => q = r
               /\ (t = "resume" /\ EndsPrepared(r)) => q.preparing \/ q.task = "resume"
               /\ t = "close" => q = r \/ q.preparing
               /\ (t = "close" /\ r.refs = {} /\ EndsPrepared(r)) => q.preparing
<1> DEFINE q == appendTask(r, t, st)
           n == [r EXCEPT !.task = t, !.preparing = @ \/ t = "close"]
<1>1. CASE ~shouldExecuteTask(r, t, st) \/ r.task = "close"
  <2>1. q = r
    BY <1>1, Zenon DEF appendTask
  <2>2. Kept(r, r)
    BY Zenon DEF Kept
  <2>3. (t = "close" /\ r.refs = {} /\ EndsPrepared(r)) => r.preparing
    BY <1>1, Zenon DEF EndsPrepared, shouldExecuteTask
  <2>4. (t = "resume" /\ EndsPrepared(r)) => r.preparing
    BY <1>1, Zenon DEF EndsPrepared, shouldExecuteTask
  <2> QED
    BY <2>1, <2>2, <2>3, <2>4, Zenon
<1>2. CASE shouldExecuteTask(r, t, st) /\ r.task # "close"
  <2>1. q = n
    BY <1>2, Zenon DEF appendTask
  <2>2. /\ n \in WorkerType /\ n.alive = r.alive /\ n.key = r.key /\ n.told = r.told
        /\ n.decoder = r.decoder /\ n.refs = r.refs /\ n.doing = r.doing /\ n.once = r.once
        /\ n.task = t /\ n.preparing = (r.preparing \/ t = "close")
    BY Zenon DEF WorkerType, Tasks, Idle
  <2> HIDE DEF n, q
  <2>3. Kept(r, n)
    BY <2>2, Zenon DEF Kept, EndsPrepared
  <2>4. t = "pause" => ~\E p \in r.refs : st[p] = "Resume"
    BY <1>2, Zenon DEF shouldExecuteTask
  <2> QED
    BY <2>1, <2>2, <2>3, <2>4, Zenon DEF q
<1> QED
  BY <1>1, <1>2, Zenon

\* What a task leaves to be done.
LEMMA TaskServes ==
    ASSUME NEW r \in WorkerType, NEW t \in Tasks, NEW st, EndsPrepared(r), Serves(st, r)
    PROVE  Serves(st, appendTask(r, t, st))
<1> DEFINE q == appendTask(r, t, st)
<1>1. q.refs = r.refs /\ q \in WorkerType
  BY TaskAdded, Zenon DEF Kept
<1>2. CASE t = "pause"
  <2>1. CASE \E p \in r.refs : st[p] = "Resume"
    BY <1>2, <2>1, TaskAdded
  <2>2. CASE ~\E p \in r.refs : st[p] = "Resume"
    BY <1>1, <2>2, Zenon DEF Serves
  <2> QED
    BY <2>1, <2>2, Zenon
<1>3. CASE t = "resume"
  BY <1>3, TaskAdded, Zenon DEF Serves, Effective
<1>4. CASE t = "close"
  BY <1>4, TaskAdded, Zenon DEF Serves
<1> QED
  BY <1>2, <1>3, <1>4, Zenon DEF Tasks

\* A player less.
LEMMA PlayerLeaves ==
    ASSUME NEW r \in WorkerType, NEW p \in Players
    PROVE  LET q == unRegisterPlayer(r, p)
           IN  /\ Kept(r, q) /\ q.refs = r.refs \ {p} /\ q.preparing = r.preparing
               /\ \A st : Serves(st, r) => Serves(st, q)
<1> DEFINE q == unRegisterPlayer(r, p)
<1>1. /\ q \in WorkerType /\ q.alive = r.alive /\ q.key = r.key /\ q.told = r.told
      /\ q.decoder = r.decoder /\ q.refs = r.refs \ {p} /\ q.doing = r.doing /\ q.task = r.task
      /\ q.preparing = r.preparing
  BY Zenon DEF unRegisterPlayer, WorkerType
<1> HIDE DEF q
<1>2. Kept(r, q)
  BY <1>1, Zenon DEF Kept, EndsPrepared
<1>3. \A st : Serves(st, r) => Serves(st, q)
  BY <1>1, Zenon DEF Serves, Effective
<1> QED
  BY <1>1, <1>2, <1>3, Zenon DEF q

\* A player more.
LEMMA PlayerJoins ==
    ASSUME NEW r \in WorkerType, NEW p \in Players
    PROVE  LET q == registerPlayer(r, p)
           IN  /\ Kept(r, q) /\ q.refs = r.refs \cup {p} /\ q.preparing = r.preparing
               /\ q.once = r.once /\ q.task = r.task /\ q.doing = r.doing /\ q.decoder = r.decoder
<1> DEFINE q == registerPlayer(r, p)
<1>1. /\ q \in WorkerType /\ q.alive = r.alive /\ q.key = r.key /\ q.told = r.told
      /\ q.decoder = r.decoder /\ q.refs = r.refs \cup {p} /\ q.doing = r.doing /\ q.task = r.task
      /\ q.preparing = r.preparing /\ q.once = r.once
  BY Zenon DEF registerPlayer, WorkerType
<1> HIDE DEF q
<1>2. Kept(r, q)
  BY <1>1, Zenon DEF Kept, EndsPrepared
<1> QED
  BY <1>1, <1>2, Zenon DEF q

\* Kept is transitive.
LEMMA KeptOn ==
    ASSUME NEW r, NEW q, NEW x, Kept(r, q), Kept(q, x)
    PROVE  Kept(r, x)
BY Zenon DEF Kept

\* A worker that is kept stays under its key.
LEMMA KeptListed ==
    ASSUME NEW w, NEW r \in WorkerType, NEW q, Kept(r, q), Listed(w, r)
    PROVE  Listed(w, q)
BY Zenon DEF Kept, Listed

\* Fewer players resume.
LEMMA ServesFewer ==
    ASSUME NEW r, NEW st, NEW sp, Serves(st, r), \A p \in r.refs : sp[p] = "Resume" => st[p] = "Resume"
    PROVE  Serves(sp, r)
BY Zenon DEF Serves

\* Steps that only change what workers do, and players that stay open.
LEMMA TasksStep ==
    ASSUME ManagerInv, UNCHANGED <<url, mode, keys, bound, byKey, made>>,
           state' \in [Players -> States], wk' \in [Workers -> WorkerType],
           \A p \in Players : state'[p] = "Stop" <=> state[p] = "Stop",
           \A w \in Workers : Kept(wk[w], wk'[w]) /\ wk'[w].refs = wk[w].refs,
           \A w \in Workers : wk[w].alive => Serves(state', wk'[w])
    PROVE  ManagerInv'
<1> USE DEF ManagerInv
<1>1. ManagerTypes(state, url, mode, keys, bound, wk)'
  BY Zenon DEF ManagerSound, ManagerTypes, Keys
<1>2. KeyLeads(wk)'
  <2>1. \A k \in Keys : byKey[k] # None => byKey[k] \in Workers
    BY UrlsAssumption DEF ManagerSound, ManagerTypes, None, Workers
  <2> QED
    BY <2>1, Zenon DEF ManagerSound, KeyLeads, Kept, Keys
<1>3. ASSUME NEW w \in Workers PROVE WorkerSound(state, url, mode, keys, bound, w, wk[w])'
  <2> SUFFICES ASSUME wk'[w].alive
               PROVE  /\ Listed(w, wk[w])' /\ PlayersBound(bound, w, wk[w])' /\ Serves(state, wk[w])'
                      /\ Watched(state, url, mode, keys, bound, w, wk[w])'
    BY Zenon DEF WorkerSound
  <2>0. wk[w].alive
    BY Zenon DEF Kept
  <2>1. /\ Listed(w, wk[w]) /\ PlayersBound(bound, w, wk[w]) /\ wk[w] \in WorkerType
        /\ Watched(state, url, mode, keys, bound, w, wk[w])
    BY <2>0, Zenon DEF ManagerSound, WorkerSound, ManagerTypes
  <2>2. Listed(w, wk[w])'
    <3>1. EndsPrepared(wk[w]')
      BY <2>1, Zenon DEF Listed, Kept
    <3> QED
      BY <2>1, <3>1, Zenon DEF Listed, Kept, Keys, EndsPrepared
  <2>3. PlayersBound(bound, w, wk[w])'
    BY <2>1, Zenon DEF PlayersBound
  <2>4. Watched(state, url, mode, keys, bound, w, wk[w])'
    BY <2>1 DEF Watched, Attached, Kept
  <2>5. Serves(state, wk[w])'
    BY <2>0, Zenon
  <2> QED
    BY <2>2, <2>3, <2>4, <2>5, Zenon
<1>4. ASSUME NEW p \in Players
      PROVE  KeysOf(mode, keys, p)' /\ BoundSound(state, url, keys, bound, wk, p)'
  <2>1. KeysOf(mode, keys, p) /\ BoundSound(state, url, keys, bound, wk, p)
    BY Zenon DEF ManagerSound
  <2>2. bound[p] # None => bound[p] \in Workers
    BY UrlsAssumption DEF ManagerSound, ManagerTypes, None, Workers
  <2> QED
    BY <2>1, <2>2, Zenon DEF KeysOf, BoundSound, Kept
<1> QED
  BY <1>1, <1>2, <1>3, <1>4, Zenon DEF ManagerSound

\* The worker a player is bound to, if it exists.
LEMMA OwnWorker ==
    ASSUME ManagerInv, NEW p \in Players
    PROVE  LET w == streamDecoderByPlayer(p)
           IN  /\ w = None \/ (w \in Workers /\ wk[w].alive /\ bound[p] = w)
               /\ \A x \in Workers : wk[x].alive /\ bound[p] = x => w = x
               /\ None \notin Workers
<1>1. bound[p] \in 0 .. made /\ made \in 0 .. MaxWorkers
  BY Zenon DEF ManagerInv, ManagerSound, ManagerTypes
<1>2. None \notin Workers
  BY DEF None, Workers
<1> QED
  BY <1>1, <1>2, UrlsAssumption DEF streamDecoderByPlayer, None, Workers

\* pause and resume give the player's worker a task.
LEMMA TaskStep ==
    ASSUME ManagerInv, NEW p \in Players, pause(p) \/ resume(p) PROVE ManagerInv'
<1> DEFINE w == streamDecoderByPlayer(p)
<1>0. PICK s \in {"Pause", "Resume"}, t \in {"pause", "resume"} :
        /\ state[p] # "Stop" /\ state' = [state EXCEPT ![p] = s]
        /\ s = "Resume" => t = "resume"
        /\ wk' = IF w = None THEN wk ELSE [wk EXCEPT ![w] = appendTask(@, t, state')]
        /\ UNCHANGED <<url, mode, keys, bound, byKey, made>>
  BY Zenon DEF pause, resume
<1>1. /\ w = None \/ (w \in Workers /\ wk[w].alive /\ bound[p] = w)
      /\ \A x \in Workers : wk[x].alive /\ bound[p] = x => w = x
      /\ None \notin Workers
  BY OwnWorker, Zenon
<1> HIDE DEF w
<1>2. /\ wk \in [Workers -> WorkerType] /\ state \in [Players -> States]
      /\ \A x \in Workers : WorkerSound(state, url, mode, keys, bound, x, wk[x])
  BY Zenon DEF ManagerInv, ManagerSound, ManagerTypes
<1>3. state' \in [Players -> States] /\ \A q \in Players : state'[q] = "Stop" <=> state[q] = "Stop"
  BY <1>0, <1>2, Zenon DEF States
<1>4. ASSUME NEW x \in Workers
      PROVE  /\ Kept(wk[x], wk'[x]) /\ wk'[x].refs = wk[x].refs
             /\ wk[x].alive => Serves(state', wk'[x])
  <2>1. wk[x] \in WorkerType /\ wk[x].refs \subseteq Players
    BY <1>2, Zenon DEF WorkerType
  <2>2. wk[x].alive => Listed(x, wk[x]) /\ PlayersBound(bound, x, wk[x]) /\ Serves(state, wk[x])
    BY <1>2, Zenon DEF WorkerSound
  <2>3. CASE w # x
    <3>1. wk'[x] = wk[x]
      BY <1>0, <1>1, <1>2, <2>3, Zenon
    <3>2. wk[x].alive => p \notin wk[x].refs
      BY <1>1, <2>2, <2>3, Zenon DEF PlayersBound
    <3>3. wk[x].alive => Serves(state', wk[x])
      <4>1. wk[x].alive => \A q \in wk[x].refs : state'[q] = "Resume" => state[q] = "Resume"
        BY <1>0, <1>2, <2>1, <3>2, Zenon
      <4> QED
        BY <2>2, <4>1, ServesFewer, Zenon
    <3> QED
      BY <2>1, <3>1, <3>3, Zenon DEF Kept
  <2>4. CASE w = x
    <3>1. wk'[x] = appendTask(wk[x], t, state') /\ EndsPrepared(wk[x])
      BY <1>0, <1>1, <1>2, <2>2, <2>4, Zenon DEF Listed
    <3>2. Kept(wk[x], wk'[x]) /\ wk'[x].refs = wk[x].refs
      BY <2>1, <3>1, TaskAdded DEF Tasks
    <3>3. CASE s = "Resume"
      <4>1. wk'[x].preparing \/ wk'[x].task = "resume"
        BY <1>0, <2>1, <3>1, <3>3, TaskAdded DEF Tasks
      <4> QED
        BY <3>2, <4>1, Zenon DEF Serves, Effective
    <3>4. CASE s = "Pause"
      <4>1. Serves(state', wk[x])
        BY <1>0, <1>1, <1>2, <2>1, <2>2, <2>4, <3>4, ServesFewer, Zenon
      <4> QED
        BY <2>1, <3>1, <3>2, <4>1, TaskServes, Zenon DEF Tasks
    <3> QED
      BY <3>2, <3>3, <3>4, Zenon
  <2> QED
    BY <2>3, <2>4, Zenon
<1>5. wk' \in [Workers -> WorkerType]
  <2>1. \A x \in Workers : wk'[x] \in WorkerType
    BY <1>4, Zenon DEF Kept
  <2>2. wk' = [x \in Workers |-> wk'[x]]
    BY <1>0, <1>1, <1>2, Zenon
  <2> QED
    BY <2>1, <2>2, Zenon
<1> QED
  BY <1>0, <1>3, <1>4, <1>5, TasksStep, Zenon

\* What the threads of a worker do to it.
LEMMA ThreadStep ==
    ASSUME ManagerInv, NEW w \in Workers, openResultReady(w) \/ takeTask(w) \/ doTask(w)
    PROVE  ManagerInv'
<1>0. UNCHANGED <<state, url, mode, keys, bound, byKey, made>>
  BY Zenon DEF openResultReady, takeTask, doTask, player
<1>1. /\ wk \in [Workers -> WorkerType] /\ state \in [Players -> States]
      /\ \A x \in Workers : WorkerSound(state, url, mode, keys, bound, x, wk[x])
  BY Zenon DEF ManagerInv, ManagerSound, ManagerTypes
<1>2. PICK r : wk' = [wk EXCEPT ![w] = r]
  BY <1>1, Zenon DEF openResultReady, takeTask, doTask
<1>3. wk'[w] = r /\ \A x \in Workers \ {w} : wk'[x] = wk[x]
  BY <1>1, <1>2, Zenon
<1>4. /\ Kept(wk[w], r) /\ r.refs = wk[w].refs /\ r.preparing = wk[w].preparing
      /\ Effective(r) = "pause" => Effective(wk[w]) = "pause"
  <2> DEFINE a == wk[w]
  <2>0. a \in WorkerType
    BY <1>1, Zenon
  <2>1. CASE openResultReady(w)
    <3>1. PICK d \in {"decoding", "failed"} : wk'[w] = [a EXCEPT !.decoder = d]
      BY <1>1, <2>1, Zenon DEF openResultReady
    <3>2. /\ r \in WorkerType /\ r.alive = a.alive /\ r.key = a.key /\ r.told = a.told /\ r.refs = a.refs
          /\ r.task = a.task /\ r.doing = a.doing /\ r.preparing = a.preparing /\ r.decoder = d
      BY <1>3, <2>0, <3>1, Zenon DEF WorkerType
    <3>3. a.decoder = "opening"
      BY <2>1, Zenon DEF openResultReady
    <3> QED
      BY <3>2, <3>3, Zenon DEF Kept, EndsPrepared, Effective
  <2>2. CASE takeTask(w)
    <3>1. wk'[w] = [a EXCEPT !.doing = a.task, !.task = "none"]
      BY <1>1, <2>2, Zenon DEF takeTask
    <3>2. /\ r \in WorkerType /\ r.alive = a.alive /\ r.key = a.key /\ r.told = a.told /\ r.refs = a.refs
          /\ r.task = "none" /\ r.doing = a.task /\ r.preparing = a.preparing /\ r.decoder = a.decoder
      BY <1>3, <2>0, <3>1, Zenon DEF WorkerType, Idle
    <3>3. a.task # "none" /\ a.decoder # "deleted"
      BY <2>2, Zenon DEF takeTask
    <3> QED
      BY <3>2, <3>3, Zenon DEF Kept, EndsPrepared, Effective
  <2>3. CASE doTask(w)
    <3> DEFINE d == CASE a.doing = "close" -> "closed"
                      [] a.doing = "pause" /\ a.decoder = "decoding" -> "paused"
                      [] a.doing = "resume" /\ a.decoder = "paused" -> "decoding"
                      [] OTHER -> a.decoder
    <3>1. wk'[w] = [a EXCEPT !.doing = "none", !.decoder = d]
      BY <1>1, <2>3, Zenon DEF doTask
    <3>2. /\ a.doing \in Tasks
          /\ a.decoder \in {"unopened", "opening", "decoding", "paused", "failed", "closed", "deleted"}
      BY <2>0, <2>3, Zenon DEF doTask, WorkerType, Idle
    <3>3. /\ a.doing = "close" => d = "closed"
          /\ a.doing = "pause" => d = IF a.decoder = "decoding" THEN "paused" ELSE a.decoder
          /\ a.doing = "resume" => d = IF a.decoder = "paused" THEN "decoding" ELSE a.decoder
      BY <3>2, Zenon DEF Tasks
    <3> HIDE DEF d
    <3>4. /\ r \in WorkerType /\ r.alive = a.alive /\ r.key = a.key /\ r.told = a.told /\ r.refs = a.refs
          /\ r.task = a.task /\ r.doing = "none" /\ r.preparing = a.preparing /\ r.decoder = d
      BY <1>3, <2>0, <3>1, <3>2, <3>3, Zenon DEF WorkerType, Idle, Tasks
    <3>5. Effective(r) = "pause" => Effective(a) = "pause"
      BY <3>2, <3>3, <3>4, Zenon DEF Effective, Tasks
    <3>6. EndsPrepared(a) => EndsPrepared(r)
      BY <3>2, <3>3, <3>4, Zenon DEF EndsPrepared, Tasks
    <3>7. a.decoder # "deleted"
      BY <1>1, <2>3, <3>2, Zenon DEF doTask, WorkerSound, Listed, EndsPrepared, Tasks
    <3> QED
      BY <3>2, <3>3, <3>4, <3>5, <3>6, <3>7, Zenon DEF Kept, Tasks
  <2> QED
    BY <2>1, <2>2, <2>3, Zenon
<1>5. ASSUME NEW x \in Workers
      PROVE  /\ Kept(wk[x], wk'[x]) /\ wk'[x].refs = wk[x].refs
             /\ wk[x].alive => Serves(state', wk'[x])
  <2>1. wk[x] \in WorkerType /\ (wk[x].alive => Serves(state, wk[x]))
    BY <1>1, Zenon DEF WorkerSound
  <2>2. CASE x = w
    BY <1>0, <1>3, <1>4, <2>1, <2>2, Zenon DEF Serves
  <2>3. CASE x # w
    BY <1>0, <1>3, <2>1, <2>3, Zenon DEF Kept
  <2> QED
    BY <2>2, <2>3, Zenon
<1>6. wk' \in [Workers -> WorkerType]
  BY <1>1, <1>2, <1>4, Zenon DEF Kept
<1> QED
  BY <1>0, <1>1, <1>5, <1>6, TasksStep, Zenon

\* A frame makes the player play.
LEMMA FrameStep ==
    ASSUME ManagerInv, NEW p \in Players, videoFrameReady(p) PROVE ManagerInv'
<1>1. /\ wk \in [Workers -> WorkerType] /\ state \in [Players -> States]
      /\ \A x \in Workers : WorkerSound(state, url, mode, keys, bound, x, wk[x])
  BY Zenon DEF ManagerInv, ManagerSound, ManagerTypes
<1>2. /\ state[p] # "Stop" /\ state' = [state EXCEPT ![p] = "Playing"]
      /\ UNCHANGED <<url, mode, keys, bound, byKey, wk, made>>
  BY Zenon DEF videoFrameReady
<1>3. state' \in [Players -> States] /\ \A q \in Players : state'[q] = "Stop" <=> state[q] = "Stop"
  BY <1>1, <1>2, Zenon DEF States
<1>4. ASSUME NEW x \in Workers
      PROVE  /\ Kept(wk[x], wk'[x]) /\ wk'[x].refs = wk[x].refs
             /\ wk[x].alive => Serves(state', wk'[x])
  <2>1. wk[x] \in WorkerType /\ wk[x].refs \subseteq Players /\ wk'[x] = wk[x]
    BY <1>1, <1>2, Zenon DEF WorkerType
  <2>2. wk[x].alive => Serves(state, wk[x])
    BY <1>1, Zenon DEF WorkerSound
  <2>3. \A q \in wk[x].refs : state'[q] = "Resume" => state[q] = "Resume"
    BY <1>1, <1>2, <2>1, Zenon
  <2>4. wk[x].alive => Serves(state', wk[x])
    BY <2>2, <2>3, ServesFewer, Zenon
  <2> QED
    BY <2>1, <2>4, Zenon DEF Kept
<1> QED
  BY <1>1, <1>2, <1>3, <1>4, TasksStep, Zenon

\* A player bound to a shared stream will close it.
LEMMA BoundAttached ==
    ASSUME ManagerInv, NEW q \in Players, NEW x \in Workers, wk[x].alive, bound[q] = x,
           wk[x].key \in Urls
    PROVE  Attached(state, url, mode, keys, bound, q, x, wk[x])
<1>1. KeysOf(mode, keys, q) /\ BoundSound(state, url, keys, bound, wk, q)
  BY Zenon DEF ManagerInv, ManagerSound
<1>2. x # None /\ None \notin Urls /\ Urls \cap Workers = {}
  BY KeysApart, Zenon DEF Keys, Workers, None
<1>3. state[q] # "Stop" /\ url[q] \in Urls /\ keys[q][url[q]] = wk[x].key
  BY <1>1, <1>2, Zenon DEF BoundSound
<1>4. mode[q] = "multiplex" /\ keys[q][url[q]] = url[q]
  BY <1>1, <1>2, <1>3, Zenon DEF KeysOf
<1> QED
  BY <1>3, <1>4, Zenon DEF Attached

\* The worker that a key leads to.
LEMMA Leads ==
    ASSUME NEW st, NEW ur, NEW mo, NEW ks, NEW bo, NEW ws, ManagerSound(st, ur, mo, ks, bo, ws),
           NEW k \in Keys, byKey[k] # None
    PROVE  /\ byKey[k] \in Workers /\ byKey[k] <= made /\ ws[byKey[k]].alive /\ ws[byKey[k]].key = k
           /\ Listed(byKey[k], ws[byKey[k]])
<1>1. byKey[k] \in Workers /\ byKey[k] <= made
  BY UrlsAssumption DEF ManagerSound, ManagerTypes, Workers, None
<1> QED
  BY <1>1, Zenon DEF ManagerSound, KeyLeads, WorkerSound

\* A player leaves all its workers, and what it leaves to nobody closes.
LEMMA PlayerCloses ==
    ASSUME ManagerInv, NEW p \in Players
    PROVE  LET st == [state EXCEPT ![p] = "Stop"]
           IN  ManagerSound(st, [url EXCEPT ![p] = None], [mode EXCEPT ![p] = "exclusive"],
                            [keys EXCEPT ![p] = [u \in Urls |-> None]], [bound EXCEPT ![p] = None],
                            closed(p, st))
<1> DEFINE st == [state EXCEPT ![p] = "Stop"]
           ur == [url EXCEPT ![p] = None]
           mo == [mode EXCEPT ![p] = "exclusive"]
           ks == [keys EXCEPT ![p] = [u \in Urls |-> None]]
           bo == [bound EXCEPT ![p] = None]
           ws == closed(p, st)
           Closes(x) == x = streamDecoderByPlayer(p) \/ x \in supplementary(p)
<1>1. /\ wk \in [Workers -> WorkerType] /\ state \in [Players -> States]
      /\ url \in [Players -> Urls \cup {None}] /\ mode \in [Players -> {"exclusive", "multiplex"}]
      /\ keys \in [Players -> [Urls -> Keys \cup {None}]] /\ bound \in [Players -> 0 .. made]
      /\ made \in 0 .. MaxWorkers /\ byKey \in [Keys -> 0 .. made]
      /\ \A x \in Workers : WorkerSound(state, url, mode, keys, bound, x, wk[x])
      /\ \A q \in Players : KeysOf(mode, keys, q) /\ BoundSound(state, url, keys, bound, wk, q)
  BY Zenon DEF ManagerInv, ManagerSound, ManagerTypes
<1>2. /\ st \in [Players -> States] /\ st[p] = "Stop" /\ \A q \in Players \ {p} : st[q] = state[q]
      /\ ur \in [Players -> Urls \cup {None}] /\ ur[p] = None /\ \A q \in Players \ {p} : ur[q] = url[q]
      /\ mo \in [Players -> {"exclusive", "multiplex"}] /\ mo[p] = "exclusive"
      /\ \A q \in Players \ {p} : mo[q] = mode[q]
      /\ ks \in [Players -> [Urls -> Keys \cup {None}]] /\ \A u \in Urls : ks[p][u] = None
      /\ \A q \in Players \ {p} : ks[q] = keys[q]
      /\ bo \in [Players -> 0 .. made] /\ bo[p] = None /\ \A q \in Players \ {p} : bo[q] = bound[q]
  BY <1>1 DEF States, None
<1>3. \A x \in Workers : ws[x] = IF Closes(x) THEN closeWorker(wk[x], p, st) ELSE wk[x]
  BY Zenon DEF closed
<1> HIDE DEF st, ur, mo, ks, bo
<1>4. ASSUME NEW x \in Workers
      PROVE  /\ Kept(wk[x], ws[x]) /\ ws[x] \in WorkerType
             /\ wk[x].alive => Serves(st, ws[x]) /\ ws[x].refs = wk[x].refs \ {p}
             /\ (wk[x].alive /\ Closes(x) /\ wk[x].refs \subseteq {p}) => ws[x].preparing
  <2>1. wk[x] \in WorkerType /\ wk[x].refs \subseteq Players
    BY <1>1, Zenon DEF WorkerType
  <2>2. wk[x].alive => EndsPrepared(wk[x]) /\ PlayersBound(bound, x, wk[x]) /\ Serves(state, wk[x])
    BY <1>1, Zenon DEF WorkerSound, Listed
  <2>3. wk[x].alive => Serves(st, wk[x])
    <3>1. \A q \in wk[x].refs : st[q] = "Resume" => state[q] = "Resume"
      BY <1>2, <2>1, Zenon
    <3> QED
      BY <2>2, <3>1, ServesFewer, Zenon
  <2>4. CASE ~Closes(x)
    <3>1. ws[x] = wk[x]
      BY <1>3, <2>4, Zenon
    <3>2. wk[x].alive => p \notin wk[x].refs
      BY <2>2, <2>4, OwnWorker, Zenon DEF PlayersBound
    <3> QED
      BY <2>1, <2>3, <2>4, <3>1, <3>2, Zenon DEF Kept
  <2>5. CASE Closes(x)
    <3> DEFINE r == unRegisterPlayer(wk[x], p)
    <3>1. ws[x] = appendTask(r, "close", st)
      BY <1>3, <2>5, Zenon DEF closeWorker
    <3>2. /\ Kept(wk[x], r) /\ r \in WorkerType /\ r.refs = wk[x].refs \ {p}
          /\ (wk[x].alive => Serves(st, r))
      BY <2>1, <2>3, PlayerLeaves, Zenon DEF Kept
    <3>3. wk[x].alive => EndsPrepared(r)
      BY <2>2, <3>2, Zenon DEF Kept
    <3> HIDE DEF r
    <3>4. /\ Kept(r, ws[x]) /\ ws[x].refs = r.refs
          /\ (r.refs = {} /\ EndsPrepared(r)) => ws[x].preparing
      BY <3>1, <3>2, TaskAdded DEF Tasks
    <3>5. wk[x].alive => Serves(st, ws[x])
      BY <3>1, <3>2, <3>3, TaskServes, Zenon DEF Tasks
    <3>6. Kept(wk[x], ws[x])
      BY <3>2, <3>4, KeptOn, Zenon
    <3> QED
      BY <3>2, <3>3, <3>4, <3>5, <3>6, Zenon DEF Kept
  <2> QED
    BY <2>4, <2>5, Zenon
<1>5. ws \in [Workers -> WorkerType]
  BY <1>4, Zenon DEF closed
<1> HIDE DEF ws
<1>6. ManagerTypes(st, ur, mo, ks, bo, ws)
  BY <1>1, <1>2, <1>5, Zenon DEF ManagerTypes
<1>7. KeyLeads(ws)
  <2>1. \A k \in Keys : byKey[k] # None =>
            byKey[k] \in Workers /\ wk[byKey[k]].alive /\ wk[byKey[k]].key = k
    BY Leads DEF ManagerInv
  <2> QED
    BY <1>4, <2>1, Zenon DEF KeyLeads, Kept
<1>8. ASSUME NEW x \in Workers, ws[x].alive PROVE WorkerSound(st, ur, mo, ks, bo, x, ws[x])
  <2>1. /\ wk[x].alive /\ Listed(x, wk[x]) /\ PlayersBound(bound, x, wk[x])
        /\ Watched(state, url, mode, keys, bound, x, wk[x]) /\ wk[x] \in WorkerType
    BY <1>1, <1>4, <1>8, Zenon DEF Kept, WorkerSound
  <2>2. Listed(x, ws[x])
    BY <1>4, <2>1, KeptListed, Zenon
  <2>3. PlayersBound(bo, x, ws[x])
    <3>1. x # None
      BY DEF None, Workers
    <3> QED
      BY <1>2, <1>4, <2>1, <3>1 DEF PlayersBound
  <2>4. ASSUME ws[x].key \in Urls, ~ws[x].preparing
        PROVE  \E q \in Players : Attached(st, ur, mo, ks, bo, q, x, ws[x])
    <3>1. wk[x].key \in Urls /\ ~wk[x].preparing /\ ws[x].key = wk[x].key
      BY <1>4, <2>4, Zenon DEF Kept
    <3>2. PICK a \in Players : Attached(state, url, mode, keys, bound, a, x, wk[x])
      BY <2>1, <3>1, Zenon DEF Watched
    <3>3. PICK q \in Players \ {p} : Attached(state, url, mode, keys, bound, q, x, wk[x])
      <4>1. CASE a # p
        BY <3>2, <4>1, Zenon
      <4>2. CASE a = p
        <5>1. Closes(x)
          <6>1. CASE bound[p] = x
            BY <2>1, <6>1, OwnWorker, Zenon
          <6>2. CASE bound[p] # x
            <7>1. byKey[wk[x].key] = x
              BY <2>1, <3>1, Zenon DEF Listed, EndsPrepared
            <7>2. url[p] # wk[x].key /\ keys[p][wk[x].key] = wk[x].key
              BY <3>2, <4>2, <6>2, Zenon DEF Attached
            <7>3. wk[x].key # None /\ x # None
              BY <3>1, KeysApart, Zenon DEF Keys, None, Workers
            <7> QED
              BY <3>1, <7>1, <7>2, <7>3, Zenon DEF supplementary, isStreamExist
          <6> QED
            BY <6>1, <6>2, Zenon
        <5>2. PICK q \in wk[x].refs : q # p
          BY <1>4, <2>1, <2>4, <5>1, Zenon
        <5>3. q \in Players /\ bound[q] = x
          BY <2>1, <5>2, Zenon DEF PlayersBound, WorkerType
        <5> QED
          BY <2>1, <3>1, <5>2, <5>3, BoundAttached, Zenon
      <4> QED
        BY <4>1, <4>2, Zenon
    <3> QED
      BY <1>2, <3>1, <3>3, Zenon DEF Attached
  <2> QED
    BY <1>4, <2>1, <2>2, <2>3, <2>4, Zenon DEF WorkerSound, Watched
<1>9. ASSUME NEW q \in Players PROVE KeysOf(mo, ks, q) /\ BoundSound(st, ur, ks, bo, ws, q)
  <2>1. CASE q = p
    BY <1>2, <2>1, Zenon DEF KeysOf, BoundSound
  <2>2. CASE q # p
    <3>1. bound[q] # None => bound[q] \in Workers
      BY <1>1, UrlsAssumption DEF None, Workers
    <3>2. /\ KeysOf(mode, keys, q) /\ BoundSound(state, url, keys, bound, wk, q)
          /\ st[q] = state[q] /\ ur[q] = url[q] /\ mo[q] = mode[q] /\ ks[q] = keys[q]
          /\ bo[q] = bound[q]
      BY <1>1, <1>2, <2>2, Zenon
    <3>3. KeysOf(mo, ks, q)
      BY <3>2, Zenon DEF KeysOf
    <3>4. bound[q] # None => ws[bound[q]].alive = wk[bound[q]].alive /\ ws[bound[q]].key = wk[bound[q]].key
      BY <1>4, <3>1, Zenon DEF Kept
    <3>5. BoundSound(st, ur, ks, bo, ws, q)
      BY <3>2, <3>4, Zenon DEF BoundSound
    <3> QED
      BY <3>3, <3>5, Zenon
  <2> QED
    BY <2>1, <2>2, Zenon
<1>10. ManagerSound(st, ur, mo, ks, bo, ws)
  <2>1. \A x \in Workers : WorkerSound(st, ur, mo, ks, bo, x, ws[x])
    BY <1>8, Zenon DEF WorkerSound
  <2> QED
    BY <1>6, <1>7, <1>9, <2>1, Zenon DEF ManagerSound
<1> QED
  BY <1>10, Zenon DEF st, ur, mo, ks, bo, ws

\* A worker is disconnected from the manager.
LEMMA Untold ==
    ASSUME NEW r \in WorkerType
    PROVE  LET q == [r EXCEPT !.told = FALSE]
           IN  /\ q \in WorkerType /\ q.alive = r.alive /\ q.key = r.key /\ q.refs = r.refs
               /\ q.preparing = r.preparing /\ q.decoder = r.decoder /\ q.doing = r.doing
               /\ q.task = r.task /\ q.told = FALSE
BY Zenon DEF WorkerType

\* Player p, which is bound to no worker, joins worker w under key k: a new one
\* or the one that the key leads to.  A new worker takes the key from one that
\* is about to close.
JoinsWorker(p, u, m, w, k, new, J, ws) ==
    /\ p \in Players /\ u \in Urls /\ m \in {"exclusive", "multiplex"}
    /\ w \in Workers /\ k \in Keys /\ new \in BOOLEAN
    /\ m = "multiplex" => k = u
    /\ m = "exclusive" => k \in Workers
    /\ new => /\ w = made + 1 /\ (m = "exclusive" => k = w)
              /\ (m = "multiplex" /\ byKey[u] # None => ws[byKey[u]].preparing)
    /\ ~new => byKey[k] = w
    /\ wk' = [x \in Workers |->
                  IF x = w THEN J
                  ELSE IF new /\ m = "multiplex" /\ x = byKey[u]
                  THEN [ws[x] EXCEPT !.told = FALSE] ELSE ws[x]]
    /\ byKey' = [byKey EXCEPT ![k] = w] /\ made' = (IF new THEN w ELSE made)

\* The worker that was joined.
JoinedWorker(p, w, k, new, J, ws) ==
    /\ J \in WorkerType /\ J.alive /\ J.key = k /\ J.told /\ J.decoder # "deleted"
    /\ EndsPrepared(J) /\ Serves(state', J)
    /\ J.refs = {p} \cup (IF new THEN {} ELSE ws[w].refs)

\* What the player knows afterwards.  One that was not stopped keeps the keys of
\* its other streams, and makes no worker for a key that leads to one.
JoinedPlayer(st, ur, mo, ks, bo, p, u, m, w, k, new) ==
    /\ bo[p] = None /\ state' = [st EXCEPT ![p] = "Start"] /\ bound' = [bo EXCEPT ![p] = w]
    /\ url' = [ur EXCEPT ![p] = u] /\ mode' = [mo EXCEPT ![p] = m]
    /\ keys' \in [Players -> [Urls -> Keys \cup {None}]] /\ keys'[p][u] = k
    /\ KeysOf(mode', keys', p) /\ \A q \in Players \ {p} : keys'[q] = ks[q]
    /\ st[p] # "Stop" => /\ m = mo[p] /\ \A v \in Urls \ {u} : keys'[p][v] = ks[p][v]
                         /\ ks[p][u] # None /\ byKey[ks[p][u]] # None => k = ks[p][u] /\ ~new

\* Joining a worker keeps the invariant.
LEMMA PlayerJoined ==
    ASSUME NEW st, NEW ur, NEW mo, NEW ks, NEW bo, NEW ws, NEW p, NEW u, NEW m, NEW w, NEW k,
           NEW new, NEW J, ManagerSound(st, ur, mo, ks, bo, ws),
           JoinsWorker(p, u, m, w, k, new, J, ws), JoinedWorker(p, w, k, new, J, ws),
           JoinedPlayer(st, ur, mo, ks, bo, p, u, m, w, k, new)
    PROVE  ManagerInv'
<1> USE DEF JoinsWorker, JoinedWorker, JoinedPlayer
<1>1. /\ st \in [Players -> States] /\ ur \in [Players -> Urls \cup {None}]
      /\ mo \in [Players -> {"exclusive", "multiplex"}] /\ bo \in [Players -> 0 .. made]
      /\ ws \in [Workers -> WorkerType] /\ made \in 0 .. MaxWorkers /\ byKey \in [Keys -> 0 .. made]
      /\ \A x \in Workers : WorkerSound(st, ur, mo, ks, bo, x, ws[x])
      /\ \A q \in Players : KeysOf(mo, ks, q) /\ BoundSound(st, ur, ks, bo, ws, q)
  BY Zenon DEF ManagerSound, ManagerTypes
<1>2. /\ state' \in [Players -> States] /\ state'[p] = "Start" /\ \A q \in Players \ {p} : state'[q] = st[q]
      /\ url' \in [Players -> Urls \cup {None}] /\ url'[p] = u /\ \A q \in Players \ {p} : url'[q] = ur[q]
      /\ mode' \in [Players -> {"exclusive", "multiplex"}] /\ mode'[p] = m
      /\ \A q \in Players \ {p} : mode'[q] = mo[q]
      /\ bound'[p] = w /\ \A q \in Players \ {p} : bound'[q] = bo[q]
  BY <1>1, Zenon DEF States
<1>3. None \notin Keys /\ Urls \cap Workers = {} /\ None \notin Workers /\ w # None /\ None \notin Urls
  BY KeysApart, Zenon DEF Workers, None, Keys
<1>4. made \in Nat /\ made' \in 0 .. MaxWorkers /\ made <= made' /\ w \in 1 .. made' /\ MaxWorkers \in Nat
  BY <1>1, <1>3, UrlsAssumption DEF Workers, None
<1>5. /\ wk' \in [Workers -> WorkerType] /\ wk'[w] = J
      /\ \A x \in Workers \ {w} : /\ wk'[x].alive = ws[x].alive /\ wk'[x].key = ws[x].key
                                  /\ wk'[x].refs = ws[x].refs /\ wk'[x].preparing = ws[x].preparing
                                  /\ wk'[x].decoder = ws[x].decoder /\ wk'[x].doing = ws[x].doing
                                  /\ wk'[x].task = ws[x].task
                                  /\ wk'[x].told = (ws[x].told /\ ~(new /\ m = "multiplex" /\ x = byKey[u]))
  <2>1. /\ \A x \in Workers : wk'[x] = IF x = w THEN J
                                      ELSE IF new /\ m = "multiplex" /\ x = byKey[u]
                                      THEN [ws[x] EXCEPT !.told = FALSE] ELSE ws[x]
        /\ DOMAIN wk' = Workers /\ wk' = [x \in Workers |-> wk'[x]]
    OBVIOUS
  <2>2. \A x \in Workers : ws[x] \in WorkerType /\ ws[x].told \in BOOLEAN
    BY <1>1, Zenon DEF WorkerType
  <2>3. ASSUME NEW x \in Workers \ {w}
        PROVE  /\ wk'[x] \in WorkerType /\ wk'[x].alive = ws[x].alive /\ wk'[x].key = ws[x].key
               /\ wk'[x].refs = ws[x].refs /\ wk'[x].preparing = ws[x].preparing
               /\ wk'[x].decoder = ws[x].decoder /\ wk'[x].doing = ws[x].doing
               /\ wk'[x].task = ws[x].task
               /\ wk'[x].told = (ws[x].told /\ ~(new /\ m = "multiplex" /\ x = byKey[u]))
    <3>1. CASE new /\ m = "multiplex" /\ x = byKey[u]
      <4> DEFINE r == ws[x]
                 q == [r EXCEPT !.told = FALSE]
      <4>1. wk'[x] = q
        BY <2>1, <3>1, Zenon
      <4>3. r \in WorkerType
        BY <2>2, Zenon
      <4>4. /\ q \in WorkerType /\ q.alive = r.alive /\ q.key = r.key /\ q.refs = r.refs
            /\ q.preparing = r.preparing /\ q.decoder = r.decoder /\ q.doing = r.doing
            /\ q.task = r.task /\ q.told = FALSE
        <5> HIDE DEF r
        <5> QED
          BY <4>3, Untold, Zenon
      <4>2. /\ wk'[x] \in WorkerType /\ wk'[x].alive = ws[x].alive /\ wk'[x].key = ws[x].key
            /\ wk'[x].refs = ws[x].refs /\ wk'[x].preparing = ws[x].preparing
            /\ wk'[x].decoder = ws[x].decoder /\ wk'[x].doing = ws[x].doing
            /\ wk'[x].task = ws[x].task /\ wk'[x].told = FALSE
        <5> HIDE DEF q
        <5> QED
          BY <4>1, <4>4, Zenon
      <4> QED
        BY <3>1, <4>2, Zenon
    <3>2. CASE ~(new /\ m = "multiplex" /\ x = byKey[u])
      <4>1. wk'[x] = ws[x]
        BY <2>1, <3>2, Zenon
      <4> QED
        BY <2>2, <3>2, <4>1, Zenon
    <3> QED
      BY <3>1, <3>2, Zenon
  <2>4. wk'[w] = J
    BY <2>1, Zenon
  <2>5. \A x \in Workers : wk'[x] \in WorkerType
    BY <2>3, <2>4, Zenon
  <2> QED
    BY <2>1, <2>3, <2>4, <2>5, Zenon
<1>6. /\ bound' \in [Players -> 0 .. made'] /\ byKey' \in [Keys -> 0 .. made']
      /\ byKey'[k] = w /\ \A j \in Keys \ {k} : byKey'[j] = byKey[j]
  BY <1>1, <1>4
<1>7. ManagerTypes(state, url, mode, keys, bound, wk)'
  BY <1>2, <1>4, <1>5, <1>6, Zenon DEF ManagerTypes, Keys, Workers
<1>8. \A j \in Keys : byKey[j] # None =>
          byKey[j] \in Workers /\ byKey[j] <= made /\ ws[byKey[j]].alive /\ ws[byKey[j]].key = j
  BY Leads
<1>9. KeyLeads(wk)'
  <2>1. ASSUME NEW j \in Keys, byKey'[j] # None
        PROVE  wk'[byKey'[j]].alive /\ wk'[byKey'[j]].key = j
    <3>1. CASE j = k
      BY <1>5, <1>6, <3>1
    <3>2. CASE j # k
      <4>1. byKey'[j] = byKey[j] /\ byKey[j] # None
        BY <1>6, <2>1, <3>2, Zenon
      <4>2. byKey[j] # w
        BY <1>4, <1>8, <3>2, <4>1
      <4> QED
        BY <1>5, <1>8, <4>1, <4>2
    <3> QED
      BY <3>1, <3>2, Zenon
  <2> QED
    BY <2>1, Zenon DEF KeyLeads, Keys, Workers
<1>10. WorkerSound(state, url, mode, keys, bound, w, wk[w])'
  <2>1. Listed(w, wk[w])'
    <3>1. k \in Workers => k = w
      <4>1. CASE new
        BY <1>3, <4>1, Zenon
      <4>2. CASE ~new
        <5>1. ws[w].alive /\ ws[w].key = k
          BY <1>3, <1>8, <4>2, Zenon
        <5> QED
          BY <1>1, <5>1, Zenon DEF WorkerSound, Listed
      <4> QED
        BY <4>1, <4>2, Zenon
    <3> QED
      BY <1>4, <1>5, <1>6, <3>1 DEF Listed, Keys, Workers, EndsPrepared
  <2>2. PlayersBound(bound, w, wk[w])'
    <3>1. ASSUME NEW q \in Players \ {p} PROVE q \in J.refs <=> bo[q] = w
      <4>1. CASE new
        BY <1>1, <1>4, <4>1
      <4>2. CASE ~new
        <5>1. ws[w].alive
          BY <1>3, <1>8, <4>2, Zenon
        <5>2. q \in ws[w].refs <=> bo[q] = w
          BY <1>1, <5>1, Zenon DEF WorkerSound, PlayersBound
        <5> QED
          BY <4>2, <5>2, Zenon
      <4> QED
        BY <4>1, <4>2, Zenon
    <3> QED
      BY <1>2, <1>5, <3>1 DEF PlayersBound
  <2>3. Serves(state, wk[w])'
    BY <1>5, Zenon DEF Serves, Effective
  <2>4. Watched(state, url, mode, keys, bound, w, wk[w])'
    <3>1. ASSUME k \in Urls PROVE Attached(state', url', mode', keys', bound', p, w, J)
      BY <1>2, <1>3, <3>1 DEF Attached
    <3> QED
      BY <1>5, <3>1 DEF Watched, Attached
  <2> QED
    BY <2>1, <2>2, <2>3, <2>4, Zenon DEF WorkerSound
<1>11. ASSUME NEW x \in Workers \ {w} PROVE WorkerSound(state, url, mode, keys, bound, x, wk[x])'
  <2> SUFFICES ASSUME wk'[x].alive
               PROVE  /\ Listed(x, wk[x])' /\ PlayersBound(bound, x, wk[x])' /\ Serves(state, wk[x])'
                      /\ Watched(state, url, mode, keys, bound, x, wk[x])'
    BY Zenon DEF WorkerSound
  <2>1. /\ ws[x].alive /\ Listed(x, ws[x]) /\ PlayersBound(bo, x, ws[x]) /\ Serves(st, ws[x])
        /\ Watched(st, ur, mo, ks, bo, x, ws[x]) /\ ws[x].refs \subseteq Players
    BY <1>1, <1>5, Zenon DEF WorkerSound, WorkerType
  <2>2. Listed(x, wk[x])'
    <3>1. byKey'[ws[x].key] = x <=> (byKey[ws[x].key] = x /\ ~(new /\ m = "multiplex" /\ x = byKey[u]))
      <4>1. CASE ws[x].key # k
        BY <1>6, <1>8, <2>1, <4>1, <1>3 DEF Listed, Keys
      <4>2. CASE ws[x].key = k
        BY <1>3, <1>6, <2>1, <4>2 DEF Listed
      <4> QED
        BY <4>1, <4>2, Zenon
    <3>2. (new /\ m = "multiplex" /\ x = byKey[u]) => ws[x].preparing
      BY <1>3, Zenon
    <3>3. EndsPrepared(wk[x]')
      BY <1>5, <2>1, <3>2 DEF Listed, EndsPrepared
    <3>4. x <= made'
      BY <1>4, <2>1 DEF Listed, Workers
    <3>5. ws[x].key \in Keys /\ (ws[x].key \in Workers => ws[x].key = x)
          /\ (byKey[ws[x].key] = x <=> (ws[x].told /\ ws[x].decoder # "deleted"))
      BY <2>1, Zenon DEF Listed
    <3> QED
      BY <1>5, <3>1, <3>3, <3>4, <3>5, ZenonT(30) DEF Listed, Keys, Workers, EndsPrepared
  <2>3. PlayersBound(bound, x, wk[x])'
    BY <1>2, <1>3, <1>5, <2>1 DEF PlayersBound
  <2>4. Serves(state, wk[x])'
    <3>1. \A q \in ws[x].refs : state'[q] = "Resume" => st[q] = "Resume"
      BY <1>2, <2>1, Zenon
    <3>2. Serves(state', ws[x])
      BY <2>1, <3>1, ServesFewer, Zenon
    <3> QED
      BY <1>5, <3>2 DEF Serves, Effective
  <2>5. Watched(state, url, mode, keys, bound, x, wk[x])'
    <3>1. ASSUME ws[x].key \in Urls, ~ws[x].preparing
          PROVE  \E q \in Players : Attached(state', url', mode', keys', bound', q, x, wk'[x])
      <4>1. PICK q \in Players : Attached(st, ur, mo, ks, bo, q, x, ws[x])
        BY <2>1, <3>1, Zenon DEF Watched
      <4>2. CASE q # p
        BY <1>2, <1>5, <4>1, <4>2 DEF Attached
      <4>3. CASE q = p
        <5>1. /\ st[p] # "Stop" /\ mo[p] = "multiplex" /\ ks[p][ws[x].key] = ws[x].key
          BY <4>1, <4>3, Zenon DEF Attached
        <5>2. byKey[ws[x].key] = x
          BY <2>1, <3>1, Zenon DEF Listed, EndsPrepared
        <5>3. ws[x].key # u
          BY <1>3, <5>1, <5>2
        <5> QED
          BY <1>2, <1>5, <3>1, <5>1, <5>3 DEF Attached
      <4> QED
        BY <4>2, <4>3, Zenon
    <3> QED
      BY <1>5, <3>1 DEF Watched, Attached
  <2> QED
    BY <2>2, <2>3, <2>4, <2>5, Zenon
<1>12. ASSUME NEW q \in Players
       PROVE  KeysOf(mode, keys, q)' /\ BoundSound(state, url, keys, bound, wk, q)'
  <2>1. CASE q = p
    <3>1. KeysOf(mode, keys, p)'
      BY Zenon DEF KeysOf, Workers
    <3>2. BoundSound(state, url, keys, bound, wk, p)'
      BY <1>2, <1>5 DEF BoundSound
    <3> QED
      BY <2>1, <3>1, <3>2, Zenon
  <2>2. CASE q # p
    <3>1. /\ KeysOf(mo, ks, q) /\ BoundSound(st, ur, ks, bo, ws, q)
          /\ state'[q] = st[q] /\ url'[q] = ur[q] /\ mode'[q] = mo[q] /\ keys'[q] = ks[q]
          /\ bound'[q] = bo[q]
      BY <1>1, <1>2, <2>2, Zenon
    <3>2. bo[q] # None => bo[q] \in Workers /\ bo[q] <= made
      BY <1>1, <1>4 DEF None, Workers
    <3>3. bo[q] = w => ~new /\ ws[w].alive /\ ws[w].key = k
      BY <1>3, <1>4, <1>8, <3>2
    <3>4. bo[q] # None => wk'[bo[q]].key = ws[bo[q]].key /\ wk'[bo[q]].alive = ws[bo[q]].alive
      BY <1>5, <3>2, <3>3, ZenonT(30)
    <3>5. KeysOf(mode, keys, q)'
      BY <3>1, Zenon DEF KeysOf, Workers
    <3>6. BoundSound(state, url, keys, bound, wk, q)'
      BY <3>1, <3>4, Zenon DEF BoundSound
    <3> QED
      BY <3>5, <3>6, Zenon
  <2> QED
    BY <2>1, <2>2, Zenon
<1> QED
  BY <1>7, <1>9, <1>10, <1>11, <1>12, Zenon DEF ManagerInv, ManagerSound

\* What the manager finds for a player: the worker w of key k or a new one,
\* and what that makes of the workers.
Got(st, ws, m, u, w, k, new, g) ==
    /\ w \in Workers /\ k \in Keys /\ new \in BOOLEAN
    /\ m = "multiplex" => k = u
    /\ m = "exclusive" => k \in Workers /\ new /\ k = made + 1
    /\ new => w = made + 1 /\ (m = "multiplex" /\ byKey[u] # None => ws[byKey[u]].preparing)
    /\ ~new => w = byKey[k] /\ w <= made /\ ws[w].alive /\ ws[w].key = k /\ ws[w].told
               /\ ws[w].decoder # "deleted" /\ EndsPrepared(ws[w]) /\ Serves(st, ws[w])
    /\ g \in [Workers -> WorkerType] /\ g[w] = IF new THEN NewWorker(k) ELSE ws[w]
    /\ \A x \in Workers \ {w} : g[x] = IF new /\ m = "multiplex" /\ x = byKey[u]
                                       THEN [ws[x] EXCEPT !.told = FALSE] ELSE ws[x]
    /\ NewWorker(k) \in WorkerType

\* getOrCreateDecoder finds one.
LEMMA GotOne ==
    ASSUME NEW st, NEW ur, NEW mo, NEW ks, NEW bo, NEW ws, ManagerSound(st, ur, mo, ks, bo, ws),
           NEW m \in {"exclusive", "multiplex"}, NEW u \in Urls, GotWorker(ws, m, u) <= MaxWorkers
    PROVE  Got(st, ws, m, u, GotWorker(ws, m, u), GotKey(m, u), Creates(ws, m, u),
               getOrCreateDecoder(ws, m, u))
<1> DEFINE w == GotWorker(ws, m, u)
           k == GotKey(m, u)
           new == Creates(ws, m, u)
           g == getOrCreateDecoder(ws, m, u)
<1>1. /\ made \in 0 .. MaxWorkers /\ MaxWorkers \in Nat /\ byKey \in [Keys -> 0 .. made]
      /\ ws \in [Workers -> WorkerType] /\ u \in Keys
      /\ \A x \in Workers : WorkerSound(st, ur, mo, ks, bo, x, ws[x])
  BY UrlsAssumption, Zenon DEF ManagerSound, ManagerTypes, Keys
<1>2. new => w = made + 1 /\ w \in Workers
  BY <1>1 DEF GotWorker, Workers
<1>3. ~new => /\ m = "multiplex" /\ w = byKey[u] /\ byKey[u] # None /\ k = u
  BY Zenon DEF Creates, GotWorker, GotKey
<1>4. ~new => /\ w \in Workers /\ w <= made /\ ws[w].alive /\ ws[w].key = k /\ Listed(w, ws[w])
  BY <1>1, <1>3, Leads
<1>5. ~new => ws[w].told /\ ws[w].decoder # "deleted" /\ EndsPrepared(ws[w]) /\ Serves(st, ws[w])
  BY <1>1, <1>3, <1>4, Zenon DEF Listed, WorkerSound
<1>6. new => (m = "multiplex" /\ byKey[u] # None => ws[byKey[u]].preparing)
  BY Zenon DEF Creates
<1>7. m = "exclusive" => new /\ k = made + 1
  BY Zenon DEF Creates, GotKey
<1>8. m = "multiplex" => k = u
  BY Zenon DEF GotKey
<1>9. new \in BOOLEAN /\ w \in Workers /\ k \in Keys /\ (m = "exclusive" => k \in Workers)
  BY <1>1, <1>2, <1>4, <1>7, <1>8, Zenon DEF Keys, Creates
<1>10. NewWorker(k) \in WorkerType
  BY <1>9, Zenon DEF NewWorker, WorkerType, Idle
<1>11. \A x \in Workers : g[x] = IF new /\ x = made + 1 THEN NewWorker(k)
                                 ELSE IF new /\ m = "multiplex" /\ x = byKey[u]
                                 THEN [ws[x] EXCEPT !.told = FALSE] ELSE ws[x]
  BY Zenon DEF getOrCreateDecoder
<1>12. g[w] = IF new THEN NewWorker(k) ELSE ws[w]
  BY <1>2, <1>9, <1>11, Zenon
<1>13. ASSUME NEW x \in Workers \ {w}
       PROVE  g[x] = IF new /\ m = "multiplex" /\ x = byKey[u]
                     THEN [ws[x] EXCEPT !.told = FALSE] ELSE ws[x]
  BY <1>2, <1>11, Zenon
<1>14. \A x \in Workers : g[x] \in WorkerType
  <2>1. \A x \in Workers : ws[x] \in WorkerType /\ [ws[x] EXCEPT !.told = FALSE] \in WorkerType
    BY <1>1, Untold, Zenon
  <2> QED
    BY <1>10, <1>11, <2>1, Zenon
<1>15. g = [x \in Workers |-> g[x]]
  BY Zenon DEF getOrCreateDecoder
<1>16. g \in [Workers -> WorkerType]
  BY <1>14, <1>15, Zenon
<1> HIDE DEF w, k, new, g
<1>17. /\ ~new => w = byKey[k] /\ w <= made /\ ws[w].alive /\ ws[w].key = k /\ ws[w].told
                  /\ ws[w].decoder # "deleted" /\ EndsPrepared(ws[w]) /\ Serves(st, ws[w])
  BY <1>3, <1>4, <1>5, Zenon
<1> QED
  <2>1. Got(st, ws, m, u, w, k, new, g)
    BY <1>2, <1>6, <1>7, <1>8, <1>9, <1>10, <1>12, <1>13, <1>16, <1>17, Zenon DEF Got
  <2> QED
    BY <2>1, Zenon DEF w, k, new, g

\* The worker that a player opens.
LEMMA OpenedWorker ==
    ASSUME NEW r \in WorkerType, NEW st, EndsPrepared(r), r.decoder # "deleted"
    PROVE  LET q == openWorker(r, st)
           IN  /\ q \in WorkerType /\ q.alive = r.alive /\ q.key = r.key /\ q.told = r.told
               /\ q.refs = r.refs /\ q.decoder # "deleted" /\ EndsPrepared(q)
               /\ (r.preparing => q.preparing)
               /\ (Serves(st, r) => Serves(st, q))
<1> DEFINE q == openWorker(r, st)
<1>1. CASE r.once
  <2>1. q = appendTask(r, "resume", st)
    BY <1>1, Zenon DEF openWorker
  <2>2. /\ Kept(r, q) /\ q.refs = r.refs /\ q.decoder = r.decoder /\ (q.preparing \/ q.task = "resume")
    BY <2>1, TaskAdded DEF Tasks
  <2>3. Serves(st, r) => Serves(st, q)
    BY <2>1, TaskServes, Zenon DEF Tasks
  <2> QED
    BY <2>2, <2>3, Zenon DEF Kept
<1>2. CASE ~r.once
  <2>1. q = [r EXCEPT !.once = TRUE, !.decoder = "opening"]
    BY <1>2, Zenon DEF openWorker
  <2>2. /\ q \in WorkerType /\ q.alive = r.alive /\ q.key = r.key /\ q.told = r.told
        /\ q.refs = r.refs /\ q.decoder = "opening" /\ q.preparing = r.preparing
        /\ q.task = r.task /\ q.doing = r.doing
    BY <2>1, Zenon DEF WorkerType
  <2> HIDE DEF q
  <2>3. EndsPrepared(q)
    BY <2>2, Zenon DEF EndsPrepared
  <2>4. Serves(st, r) => Serves(st, q)
    BY <2>2, Zenon DEF Serves, Effective
  <2> QED
    BY <1>2, <2>2, <2>3, <2>4, Zenon DEF q
<1> QED
  BY <1>1, <1>2, Zenon

\* A player that is bound to no worker opens a stream.
LEMMA OpenFrom ==
    ASSUME NEW st, NEW ur, NEW mo, NEW ks, NEW bo, NEW ws, ManagerSound(st, ur, mo, ks, bo, ws),
           NEW p \in Players, bo[p] = None, st[p] = "Stop",
           NEW u \in Urls, NEW m \in {"exclusive", "multiplex"}, GotWorker(ws, m, u) <= MaxWorkers,
           state' = [st EXCEPT ![p] = "Start"],
           wk' = [getOrCreateDecoder(ws, m, u) EXCEPT
                     ![GotWorker(ws, m, u)] = openWorker(registerPlayer(@, p), state')],
           byKey' = [byKey EXCEPT ![GotKey(m, u)] = GotWorker(ws, m, u)],
           made' = (IF GotWorker(ws, m, u) > made THEN GotWorker(ws, m, u) ELSE made),
           bound' = [bo EXCEPT ![p] = GotWorker(ws, m, u)],
           url' = [ur EXCEPT ![p] = u], mode' = [mo EXCEPT ![p] = m],
           keys' = [ks EXCEPT ![p] = [v \in Urls |-> IF v = u THEN GotKey(m, u) ELSE None]]
    PROVE  ManagerInv'
<1> DEFINE w == GotWorker(ws, m, u)
           k == GotKey(m, u)
           new == Creates(ws, m, u)
           g == getOrCreateDecoder(ws, m, u)
           r == registerPlayer(g[w], p)
           J == openWorker(r, state')
<1>1. /\ w \in Workers /\ k \in Keys /\ new \in BOOLEAN
      /\ m = "multiplex" => k = u
      /\ m = "exclusive" => k \in Workers /\ new /\ k = made + 1
      /\ new => w = made + 1 /\ (m = "multiplex" /\ byKey[u] # None => ws[byKey[u]].preparing)
      /\ ~new => w = byKey[k] /\ w <= made /\ ws[w].alive /\ ws[w].key = k /\ ws[w].told
                 /\ ws[w].decoder # "deleted" /\ EndsPrepared(ws[w]) /\ Serves(st, ws[w])
      /\ g \in [Workers -> WorkerType] /\ g[w] = IF new THEN NewWorker(k) ELSE ws[w]
      /\ \A x \in Workers \ {w} : g[x] = IF new /\ m = "multiplex" /\ x = byKey[u]
                                         THEN [ws[x] EXCEPT !.told = FALSE] ELSE ws[x]
      /\ NewWorker(k) \in WorkerType
  <2>1. Got(st, ws, m, u, w, k, new, g)
    BY GotOne, Zenon
  <2> HIDE DEF w, k, new, g
  <2> QED
    BY <2>1, Zenon DEF Got
<1>2. /\ st \in [Players -> States] /\ ks \in [Players -> [Urls -> Keys \cup {None}]]
      /\ mo \in [Players -> {"exclusive", "multiplex"}] /\ made \in Nat
      /\ ws \in [Workers -> WorkerType]
  BY UrlsAssumption DEF ManagerSound, ManagerTypes
<1>3. wk' = [g EXCEPT ![w] = J]
  OBVIOUS
<1>12. byKey' = [byKey EXCEPT ![k] = w] /\ bound' = [bo EXCEPT ![p] = w]
       /\ made' = IF w > made THEN w ELSE made
  OBVIOUS
<1>13. keys' = [ks EXCEPT ![p] = [v \in Urls |-> IF v = u THEN k ELSE None]]
  OBVIOUS
<1> HIDE DEF w, k, new, g
<1>14. made' = IF new THEN w ELSE made
  BY <1>1, <1>2, <1>12 DEF Workers
<1>4. /\ g[w] \in WorkerType /\ g[w].alive /\ g[w].key = k /\ g[w].told /\ g[w].decoder # "deleted"
      /\ EndsPrepared(g[w]) /\ Serves(st, g[w]) /\ g[w].refs = IF new THEN {} ELSE ws[w].refs
  <2>1. CASE new
    <3>1. g[w] = NewWorker(k) /\ g[w] \in WorkerType
      BY <1>1, <2>1, Zenon
    <3> QED
      BY <2>1, <3>1 DEF NewWorker, EndsPrepared, Serves
  <2>2. CASE ~new
    BY <1>1, <1>2, <2>2, Zenon
  <2> QED
    BY <2>1, <2>2, Zenon
<1>5. /\ r \in WorkerType /\ r.alive /\ r.key = k /\ r.told /\ r.decoder # "deleted" /\ EndsPrepared(r)
      /\ r.refs = g[w].refs \cup {p} /\ Effective(r) = Effective(g[w]) /\ r.preparing = g[w].preparing
  BY <1>4, PlayerJoins, Zenon DEF Kept, Effective
<1>6. Serves(state', r)
  <2>1. \A q \in r.refs : state'[q] = "Resume" => q \in g[w].refs /\ st[q] = "Resume"
    BY <1>2, <1>4, <1>5, Zenon DEF WorkerType
  <2> QED
    BY <1>4, <1>5, <2>1, Zenon DEF Serves
<1> HIDE DEF r
<1>7. /\ J \in WorkerType /\ J.alive /\ J.key = k /\ J.told /\ J.refs = r.refs /\ J.decoder # "deleted"
      /\ EndsPrepared(J) /\ Serves(state', J)
  BY <1>5, <1>6, OpenedWorker, Zenon
<1> HIDE DEF J
<1>8. wk' = [x \in Workers |->
                IF x = w THEN J
                ELSE IF new /\ m = "multiplex" /\ x = byKey[u]
                THEN [ws[x] EXCEPT !.told = FALSE] ELSE ws[x]]
  <2>1. wk' = [x \in Workers |-> wk'[x]] /\ wk'[w] = J /\ \A x \in Workers \ {w} : wk'[x] = g[x]
    BY <1>1, <1>3, Zenon
  <2>2. \A x \in Workers : wk'[x] = IF x = w THEN J
                                    ELSE IF new /\ m = "multiplex" /\ x = byKey[u]
                                    THEN [ws[x] EXCEPT !.told = FALSE] ELSE ws[x]
    BY <1>1, <2>1, Zenon
  <2> QED
    BY <2>1, <2>2, Zenon
<1>9. /\ keys' \in [Players -> [Urls -> Keys \cup {None}]] /\ keys'[p][u] = k
      /\ \A q \in Players \ {p} : keys'[q] = ks[q]
      /\ \A v \in Urls : keys'[p][v] \in {k, None} /\ (v # u => keys'[p][v] = None)
  BY <1>1, <1>2, <1>13
<1>10. KeysOf(mode', keys', p)
  BY <1>1, <1>2, <1>9, Zenon DEF KeysOf
<1>11. J.refs = {p} \cup (IF new THEN {} ELSE ws[w].refs)
  BY <1>4, <1>5, <1>7, Zenon
<1>15. JoinsWorker(p, u, m, w, k, new, J, ws)
  <2>1. new => (m = "exclusive" => k = w)
    BY <1>1, Zenon
  <2> QED
    BY <1>1, <1>8, <1>12, <1>14, <2>1, Zenon DEF JoinsWorker
<1>16. JoinedWorker(p, w, k, new, J, ws)
  BY <1>7, <1>11, Zenon DEF JoinedWorker
<1>17. JoinedPlayer(st, ur, mo, ks, bo, p, u, m, w, k, new)
  BY <1>9, <1>10, <1>12, Zenon DEF JoinedPlayer
<1> QED
  BY <1>15, <1>16, <1>17, PlayerJoined, Zenon

\* A player that is not stopped is closed first.
LEMMA OpenStep ==
    ASSUME ManagerInv, NEW p \in Players, NEW u \in Urls, NEW m \in {"exclusive", "multiplex"},
           open(p, u, m)
    PROVE  ManagerInv'
<1>0. /\ state \in [Players -> States] /\ url \in [Players -> Urls \cup {None}]
      /\ mode \in [Players -> {"exclusive", "multiplex"}]
      /\ keys \in [Players -> [Urls -> Keys \cup {None}]] /\ bound \in [Players -> 0 .. made]
  BY Zenon DEF ManagerInv, ManagerSound, ManagerTypes
<1>1. CASE state[p] = "Stop"
  <2>1. bound[p] = None
    BY <1>1, Zenon DEF ManagerInv, ManagerSound, BoundSound
  <2> QED
    BY <1>1, <2>1, OpenFrom, Zenon DEF open, ManagerInv
<1>2. CASE state[p] # "Stop"
  <2> DEFINE st == [state EXCEPT ![p] = "Stop"]
             ur == [url EXCEPT ![p] = None]
             mo == [mode EXCEPT ![p] = "exclusive"]
             ks == [keys EXCEPT ![p] = [v \in Urls |-> None]]
             bo == [bound EXCEPT ![p] = None]
             ws == closed(p, st)
  <2>1. ManagerSound(st, ur, mo, ks, bo, ws)
    BY PlayerCloses, Zenon
  <2>2. bo[p] = None /\ st[p] = "Stop"
    BY <1>0, Zenon
  <2>3. /\ GotWorker(ws, m, u) <= MaxWorkers
        /\ state' = [st EXCEPT ![p] = "Start"]
        /\ wk' = [getOrCreateDecoder(ws, m, u) EXCEPT
                     ![GotWorker(ws, m, u)] = openWorker(registerPlayer(@, p), state')]
        /\ byKey' = [byKey EXCEPT ![GotKey(m, u)] = GotWorker(ws, m, u)]
        /\ made' = IF GotWorker(ws, m, u) > made THEN GotWorker(ws, m, u) ELSE made
        /\ bound' = [bo EXCEPT ![p] = GotWorker(ws, m, u)]
        /\ url' = [ur EXCEPT ![p] = u] /\ mode' = [mo EXCEPT ![p] = m]
        /\ keys' = [ks EXCEPT ![p] = [v \in Urls |-> IF v = u THEN GotKey(m, u) ELSE None]]
    BY <1>0, <1>2, Zenon DEF open
  <2> HIDE DEF st, ur, mo, ks, bo, ws
  <2> QED
    BY <2>1, <2>2, <2>3, OpenFrom, Zenon
<1> QED
  BY <1>1, <1>2, Zenon

\* close() of a player.
LEMMA CloseStep ==
    ASSUME ManagerInv, NEW p \in Players, close(p) PROVE ManagerInv'
<1> DEFINE st == [state EXCEPT ![p] = "Stop"]
<1>1. ManagerSound(st, [url EXCEPT ![p] = None], [mode EXCEPT ![p] = "exclusive"],
                   [keys EXCEPT ![p] = [u \in Urls |-> None]], [bound EXCEPT ![p] = None],
                   closed(p, st))
  BY PlayerCloses, Zenon
<1>2. ManagerSound(state', url', mode', keys', bound', wk') /\ UNCHANGED <<byKey, made>>
  BY <1>1, Zenon DEF close
<1> QED
  BY <1>2, Zenon DEF ManagerInv, ManagerSound, ManagerTypes, KeyLeads, WorkerSound, Listed

\* A player that switches leaves its worker with a pause and keeps its key.
LEMMA PlayerLeft ==
    ASSUME ManagerInv, NEW p \in Players, NEW old, old = streamDecoderByPlayer(p),
           NEW st, st = [state EXCEPT ![p] = "Stop"]
    PROVE  ManagerSound([state EXCEPT ![p] = "Start"], [url EXCEPT ![p] = None], mode, keys,
                        [bound EXCEPT ![p] = None],
                        IF old = None THEN wk
                        ELSE [wk EXCEPT ![old] = unRegisterPlayer(appendTask(@, "pause", st), p)])
<1> DEFINE sp == [state EXCEPT ![p] = "Start"]
           ur == [url EXCEPT ![p] = None]
           bo == [bound EXCEPT ![p] = None]
           ws == IF old = None THEN wk
                 ELSE [wk EXCEPT ![old] = unRegisterPlayer(appendTask(@, "pause", st), p)]
<1>1. /\ wk \in [Workers -> WorkerType] /\ state \in [Players -> States]
      /\ url \in [Players -> Urls \cup {None}] /\ bound \in [Players -> 0 .. made]
      /\ ManagerTypes(state, url, mode, keys, bound, wk) /\ made \in 0 .. MaxWorkers
      /\ \A x \in Workers : WorkerSound(state, url, mode, keys, bound, x, wk[x])
      /\ \A q \in Players : KeysOf(mode, keys, q) /\ BoundSound(state, url, keys, bound, wk, q)
  BY Zenon DEF ManagerInv, ManagerSound, ManagerTypes
<1>2. /\ sp \in [Players -> States] /\ sp[p] = "Start" /\ \A q \in Players \ {p} : sp[q] = state[q]
      /\ st[p] = "Stop" /\ \A q \in Players \ {p} : st[q] = state[q]
      /\ ur \in [Players -> Urls \cup {None}] /\ ur[p] = None /\ \A q \in Players \ {p} : ur[q] = url[q]
      /\ bo \in [Players -> 0 .. made] /\ bo[p] = None /\ \A q \in Players \ {p} : bo[q] = bound[q]
  BY <1>1 DEF States, None
<1>3. /\ old = None \/ (old \in Workers /\ wk[old].alive /\ bound[p] = old)
      /\ \A x \in Workers : wk[x].alive /\ bound[p] = x => old = x
      /\ None \notin Workers
  BY OwnWorker, Zenon
<1>4. /\ DOMAIN ws = Workers /\ ws = [x \in Workers |-> ws[x]]
      /\ \A x \in Workers : ws[x] = IF x = old
                                    THEN unRegisterPlayer(appendTask(wk[x], "pause", st), p) ELSE wk[x]
  BY <1>1, <1>3, Zenon
<1> HIDE DEF sp, ur, bo, ws
<1>5. ASSUME NEW x \in Workers
      PROVE  /\ Kept(wk[x], ws[x])
             /\ wk[x].alive => Serves(sp, ws[x]) /\ ws[x].refs = wk[x].refs \ {p}
  <2>1. wk[x] \in WorkerType /\ wk[x].refs \subseteq Players
    BY <1>1, Zenon DEF WorkerType
  <2>2. wk[x].alive => EndsPrepared(wk[x]) /\ PlayersBound(bound, x, wk[x]) /\ Serves(state, wk[x])
    BY <1>1, Zenon DEF WorkerSound, Listed
  <2>3. wk[x].alive => Serves(st, wk[x])
    <3>1. \A q \in wk[x].refs : st[q] = "Resume" => state[q] = "Resume"
      BY <1>2, <2>1, Zenon
    <3> QED
      BY <2>2, <3>1, ServesFewer, Zenon
  <2>4. \A q \in Players : sp[q] = "Resume" => st[q] = "Resume"
    BY <1>2, Zenon
  <2>5. CASE x # old
    <3>1. ws[x] = wk[x]
      BY <1>4, <2>5, Zenon
    <3>2. wk[x].alive => p \notin wk[x].refs
      BY <1>3, <2>2, <2>5, Zenon DEF PlayersBound
    <3>3. wk[x].alive => Serves(sp, wk[x])
      BY <2>1, <2>3, <2>4, ServesFewer, Zenon
    <3> QED
      BY <2>1, <3>1, <3>2, <3>3, Zenon DEF Kept
  <2>6. CASE x = old
    <3> DEFINE r == appendTask(wk[x], "pause", st)
    <3>1. ws[x] = unRegisterPlayer(r, p)
      BY <1>4, <2>6, Zenon
    <3>2. Kept(wk[x], r) /\ r \in WorkerType /\ r.refs = wk[x].refs
      BY <2>1, TaskAdded DEF Kept, Tasks
    <3>3. wk[x].alive => Serves(st, r)
      BY <2>1, <2>2, <2>3, TaskServes, Zenon DEF Tasks
    <3> HIDE DEF r
    <3>4. /\ Kept(r, ws[x]) /\ ws[x].refs = r.refs \ {p} /\ (Serves(st, r) => Serves(st, ws[x]))
      BY <3>1, <3>2, PlayerLeaves
    <3>5. Serves(st, ws[x]) => Serves(sp, ws[x])
      <4>1. ws[x].refs \subseteq Players
        BY <2>1, <3>2, <3>4, Zenon
      <4> QED
        BY <2>4, <4>1, ServesFewer, Zenon
    <3>6. Kept(wk[x], ws[x])
      BY <3>2, <3>4, KeptOn, Zenon
    <3> QED
      BY <3>2, <3>3, <3>4, <3>5, <3>6, Zenon
  <2> QED
    BY <2>5, <2>6, Zenon
<1>6. ws \in [Workers -> WorkerType]
  <2>1. \A x \in Workers : ws[x] \in WorkerType
    BY <1>5, Zenon DEF Kept
  <2> QED
    BY <1>4, <2>1, Zenon
<1>7. ManagerTypes(sp, ur, mode, keys, bo, ws)
  BY <1>1, <1>2, <1>6, Zenon DEF ManagerTypes
<1>8. KeyLeads(ws)
  <2>1. \A k \in Keys : byKey[k] # None =>
            byKey[k] \in Workers /\ wk[byKey[k]].alive /\ wk[byKey[k]].key = k
    BY Leads DEF ManagerInv
  <2> QED
    BY <1>5, <2>1, Zenon DEF KeyLeads, Kept
<1>9. ASSUME NEW x \in Workers, ws[x].alive PROVE WorkerSound(sp, ur, mode, keys, bo, x, ws[x])
  <2>1. /\ wk[x].alive /\ Listed(x, wk[x]) /\ PlayersBound(bound, x, wk[x])
        /\ Watched(state, url, mode, keys, bound, x, wk[x]) /\ wk[x] \in WorkerType
    BY <1>1, <1>5, <1>9, Zenon DEF Kept, WorkerSound
  <2>2. Listed(x, ws[x])
    BY <1>5, <2>1, KeptListed, Zenon
  <2>3. PlayersBound(bo, x, ws[x])
    BY <1>2, <1>3, <1>5, <2>1 DEF PlayersBound
  <2>4. ASSUME ws[x].key \in Urls, ~ws[x].preparing
        PROVE  \E q \in Players : Attached(sp, ur, mode, keys, bo, q, x, ws[x])
    <3>1. wk[x].key \in Urls /\ ~wk[x].preparing /\ ws[x].key = wk[x].key /\ wk[x].key # None
      BY <1>5, <2>4, KeysApart, Zenon DEF Kept, Keys
    <3>2. PICK q \in Players : Attached(state, url, mode, keys, bound, q, x, wk[x])
      BY <2>1, <3>1, Zenon DEF Watched
    <3> QED
      BY <1>2, <3>1, <3>2, Zenon DEF Attached
  <2> QED
    BY <1>5, <2>1, <2>2, <2>3, <2>4, Zenon DEF WorkerSound, Watched
<1>10. ASSUME NEW q \in Players PROVE KeysOf(mode, keys, q) /\ BoundSound(sp, ur, keys, bo, ws, q)
  <2>1. CASE q = p
    BY <1>1, <1>2, <2>1, Zenon DEF BoundSound
  <2>2. CASE q # p
    <3>1. bound[q] # None => bound[q] \in Workers
      BY <1>1, UrlsAssumption DEF None, Workers
    <3>2. /\ KeysOf(mode, keys, q) /\ BoundSound(state, url, keys, bound, wk, q)
          /\ sp[q] = state[q] /\ ur[q] = url[q] /\ bo[q] = bound[q]
      BY <1>1, <1>2, <2>2, Zenon
    <3>3. bound[q] # None => ws[bound[q]].alive = wk[bound[q]].alive /\ ws[bound[q]].key = wk[bound[q]].key
      BY <1>5, <3>1, Zenon DEF Kept
    <3> QED
      BY <3>2, <3>3, Zenon DEF BoundSound
  <2> QED
    BY <2>1, <2>2, Zenon
<1>11. ManagerSound(sp, ur, mode, keys, bo, ws)
  <2>1. \A x \in Workers : WorkerSound(sp, ur, mode, keys, bo, x, ws[x])
    BY <1>9, Zenon DEF WorkerSound
  <2> QED
    BY <1>7, <1>8, <1>10, <2>1, Zenon DEF ManagerSound
<1> QED
  BY <1>11, Zenon DEF sp, ur, bo, ws

\* A player joins a worker that resumes.
LEMMA JoinsResuming ==
    ASSUME NEW r \in WorkerType, NEW p \in Players, NEW st, NEW sp, r.alive, r.told,
           r.decoder # "deleted", EndsPrepared(r)
    PROVE  LET J == appendTask(registerPlayer(r, p), "resume", st)
           IN  /\ J \in WorkerType /\ J.alive /\ J.key = r.key /\ J.told /\ J.decoder # "deleted"
               /\ EndsPrepared(J) /\ Serves(sp, J) /\ J.refs = {p} \cup r.refs
<1> DEFINE q == registerPlayer(r, p)
           J == appendTask(q, "resume", st)
<1>1. Kept(r, q) /\ q \in WorkerType /\ q.refs = r.refs \cup {p} /\ EndsPrepared(q)
  BY PlayerJoins, ZenonT(30) DEF Kept
<1> HIDE DEF q
<1>2. Kept(q, J) /\ J.refs = q.refs /\ (J.preparing \/ J.task = "resume")
  BY <1>1, TaskAdded DEF Tasks
<1> HIDE DEF J
<1>3. Serves(sp, J)
  BY <1>2, Zenon DEF Serves, Effective
<1>4. J.refs = {p} \cup r.refs
  BY <1>1, <1>2, Zenon
<1>5. /\ J \in WorkerType /\ J.alive /\ J.key = r.key /\ J.told /\ J.decoder # "deleted" /\ EndsPrepared(J)
  BY <1>1, <1>2, Zenon DEF Kept
<1> QED
  BY <1>3, <1>4, <1>5, Zenon DEF J, q

\* switchStream: the worker of a key that the player has, or another one, which
\* is created paused.
LEMMA SwitchStep ==
    ASSUME ManagerInv, NEW p \in Players, NEW u \in Urls, switchStream(p, u)
    PROVE  ManagerInv'
<1> DEFINE exists == isStreamExist(keys[p][u])
           m == mode[p]
           k == IF exists THEN keys[p][u] ELSE GotKey(m, u)
           w == IF exists THEN byKey[k] ELSE GotWorker(wk, m, u)
           old == streamDecoderByPlayer(p)
           st == [state EXCEPT ![p] = "Stop"]
           created == IF exists THEN wk
                      ELSE [getOrCreateDecoder(wk, m, u) EXCEPT
                               ![w] = appendTask(openWorker(@, state), "pause", state)]
           left == IF old = None THEN created
                   ELSE [created EXCEPT ![old] = unRegisterPlayer(appendTask(@, "pause", st), p)]
           ws == IF old = None THEN wk
                 ELSE [wk EXCEPT ![old] = unRegisterPlayer(appendTask(@, "pause", st), p)]
           sp == [state EXCEPT ![p] = "Start"]
           ur == [url EXCEPT ![p] = None]
           bo == [bound EXCEPT ![p] = None]
           new == ~exists /\ Creates(wk, m, u)
<1>1. /\ url[p] # None /\ url[p] # u /\ w <= MaxWorkers
      /\ wk' = [left EXCEPT ![w] = appendTask(registerPlayer(@, p), "resume", st)]
      /\ byKey' = [byKey EXCEPT ![k] = w] /\ made' = (IF w > made THEN w ELSE made)
      /\ bound' = [bound EXCEPT ![p] = w] /\ state' = sp /\ url' = [url EXCEPT ![p] = u]
      /\ keys' = [keys EXCEPT ![p][u] = k] /\ mode' = mode
  BY Zenon DEF switchStream
<1>2. ManagerSound(sp, ur, mode, keys, bo, ws)
  BY PlayerLeft, ZenonT(30)
<1>3. /\ wk \in [Workers -> WorkerType] /\ state \in [Players -> States]
      /\ url \in [Players -> Urls \cup {None}] /\ bound \in [Players -> 0 .. made]
      /\ mode \in [Players -> {"exclusive", "multiplex"}] /\ made \in Nat
      /\ keys \in [Players -> [Urls -> Keys \cup {None}]] /\ byKey \in [Keys -> 0 .. made]
      /\ \A q \in Players : KeysOf(mode, keys, q) /\ BoundSound(state, url, keys, bound, wk, q)
      /\ ws \in [Workers -> WorkerType]
  BY <1>2, UrlsAssumption DEF ManagerInv, ManagerSound, ManagerTypes
<1>4. /\ old = None \/ (old \in Workers /\ wk[old].alive /\ bound[p] = old)
      /\ None \notin Workers /\ None \notin Keys /\ Urls \cap Workers = {}
  BY OwnWorker, KeysApart, Zenon
<1>5. old # None => wk[old].key # u
  <2> SUFFICES ASSUME old # None, wk[old].key = u PROVE FALSE
    OBVIOUS
  <2>1. old \in Workers /\ wk[old].alive /\ bound[p] = old
    BY <1>4, Zenon
  <2>2. Attached(state, url, mode, keys, bound, p, old, wk[old])
    BY <2>1, BoundAttached, Zenon
  <2>3. url[p] \in Urls /\ keys[p][url[p]] = u /\ mode[p] = "multiplex"
    BY <1>3, <2>1, <2>2, Zenon DEF BoundSound, Attached
  <2>4. keys[p][url[p]] \in {url[p], None}
    BY <1>3, <2>3, Zenon DEF KeysOf
  <2> QED
    BY <1>1, <1>4, <2>3, <2>4, Zenon DEF Keys
<1>6. \A j \in Keys : byKey[j] # None =>
          /\ byKey[j] \in Workers /\ byKey[j] <= made /\ wk[byKey[j]].alive /\ wk[byKey[j]].key = j
          /\ ws[byKey[j]].alive /\ ws[byKey[j]].key = j /\ Listed(byKey[j], ws[byKey[j]])
  <2>1. ManagerSound(state, url, mode, keys, bound, wk)
    BY Zenon DEF ManagerInv
  <2> HIDE DEF ws, sp, ur, bo, old
  <2> TAKE j \in Keys
  <2> HAVE byKey[j] # None
  <2>2. byKey[j] \in Workers /\ byKey[j] <= made /\ wk[byKey[j]].alive /\ wk[byKey[j]].key = j
    BY <2>1, Leads
  <2>3. ws[byKey[j]].alive /\ ws[byKey[j]].key = j /\ Listed(byKey[j], ws[byKey[j]])
    BY <1>2, Leads
  <2> QED
    BY <2>2, <2>3, Zenon
<1>7. \A x \in Workers : ws[x] = IF x = old
                                 THEN unRegisterPlayer(appendTask(wk[x], "pause", st), p) ELSE wk[x]
  BY <1>3, <1>4, Zenon
<1>8. /\ bound' = [bo EXCEPT ![p] = w] /\ url' = [ur EXCEPT ![p] = u] /\ mode' = [mode EXCEPT ![p] = m]
      /\ state' = [sp EXCEPT ![p] = "Start"] /\ bo[p] = None /\ m \in {"exclusive", "multiplex"}
  BY <1>1, <1>3, Zenon
<1>9. CASE exists
  <2> DEFINE J == appendTask(registerPlayer(ws[w], p), "resume", st)
  <2>1. /\ k = keys[p][u] /\ w = byKey[k] /\ k # None /\ byKey[k] # None /\ new = FALSE
    BY <1>9, Zenon DEF isStreamExist
  <2>5. wk' = [ws EXCEPT ![w] = J] /\ m = mode[p]
    BY <1>1, <1>9, Zenon
  <2> HIDE DEF exists, k, w, ws, m, new, old, sp, ur, bo, st
  <2>2. k \in Keys
    BY <1>3, <2>1
  <2>3. /\ w \in Workers /\ w <= made /\ ws[w] \in WorkerType /\ ws[w].alive /\ ws[w].key = k
        /\ Listed(w, ws[w])
    BY <1>3, <1>6, <2>1, <2>2, Zenon
  <2>4. ws[w].told /\ ws[w].decoder # "deleted" /\ EndsPrepared(ws[w])
    BY <2>1, <2>3, Zenon DEF Listed
  <2>6. (m = "multiplex" => k = u) /\ (m = "exclusive" => k \in Workers)
    <3>1. KeysOf(mode, keys, p)
      BY <1>3, ZenonT(30)
    <3> QED
      BY <1>8, <2>1, <2>5, <3>1, Zenon DEF KeysOf
  <2>7. made' = made
    <3>1. made' = (IF w > made THEN w ELSE made)
      BY <1>1, ZenonT(30)
    <3>2. made \in Nat
      BY <1>3, ZenonT(30)
    <3> QED
      BY <2>3, <3>1, <3>2 DEF Workers
  <2>8. JoinedWorker(p, w, k, FALSE, J, ws)
    BY <2>3, <2>4, JoinsResuming DEF JoinedWorker
  <2> HIDE DEF J
  <2>9. JoinsWorker(p, u, m, w, k, FALSE, J, ws)
    <3>1. wk' = [x \in Workers |-> IF x = w THEN J ELSE ws[x]]
      BY <1>3, <2>3, <2>5, Zenon
    <3>2. wk' = [x \in Workers |-> IF x = w THEN J
                                   ELSE IF FALSE /\ m = "multiplex" /\ x = byKey[u]
                                   THEN [ws[x] EXCEPT !.told = FALSE] ELSE ws[x]]
      BY <3>1, Zenon
    <3>3. byKey' = [byKey EXCEPT ![k] = w] /\ made' = (IF FALSE THEN w ELSE made) /\ byKey[k] = w
      BY <1>1, <2>1, <2>7, Zenon
    <3>4. m \in {"exclusive", "multiplex"} /\ w \in Workers
      BY <1>8, <2>3, Zenon
    <3> QED
      BY <2>2, <2>6, <3>2, <3>3, <3>4, Zenon DEF JoinsWorker
  <2>10. JoinedPlayer(sp, ur, mode, keys, bo, p, u, m, w, k, FALSE)
    <3>1. keys' = keys
      BY <1>1, <1>3, <2>1, Zenon
    <3>2. KeysOf(mode', keys', p)
      BY <1>1, <1>3, <3>1, Zenon
    <3> QED
      BY <1>3, <1>8, <2>1, <2>5, <3>1, <3>2, Zenon DEF JoinedPlayer
  <2> QED
    BY <1>2, <2>8, <2>9, <2>10, PlayerJoined, Zenon
<1>10. CASE ~exists
  <2> DEFINE g == getOrCreateDecoder(wk, m, u)
             r == appendTask(openWorker(g[w], state), "pause", state)
             J == appendTask(registerPlayer(r, p), "resume", st)
  <2>1. k = GotKey(m, u) /\ w = GotWorker(wk, m, u) /\ new = Creates(wk, m, u)
    BY <1>10, Zenon DEF Creates
  <2>2. /\ w \in Workers /\ k \in Keys /\ new \in BOOLEAN
        /\ m = "multiplex" => k = u
        /\ m = "exclusive" => k \in Workers /\ new /\ k = made + 1
        /\ new => w = made + 1 /\ (m = "multiplex" /\ byKey[u] # None => wk[byKey[u]].preparing)
        /\ ~new => w = byKey[k] /\ w <= made /\ wk[w].alive /\ wk[w].key = k /\ wk[w].told
                   /\ wk[w].decoder # "deleted" /\ EndsPrepared(wk[w]) /\ Serves(state, wk[w])
        /\ g \in [Workers -> WorkerType] /\ g[w] = IF new THEN NewWorker(k) ELSE wk[w]
        /\ \A x \in Workers \ {w} : g[x] = IF new /\ m = "multiplex" /\ x = byKey[u]
                                           THEN [wk[x] EXCEPT !.told = FALSE] ELSE wk[x]
        /\ NewWorker(k) \in WorkerType
    <3>1. ManagerSound(state, url, mode, keys, bound, wk) /\ GotWorker(wk, m, u) <= MaxWorkers
      BY <1>1, <2>1, Zenon DEF ManagerInv
    <3>2. Got(state, wk, m, u, GotWorker(wk, m, u), GotKey(m, u), Creates(wk, m, u), g)
      BY <1>8, <3>1, GotOne, Zenon
    <3> HIDE DEF exists, k, w, m, new, g
    <3>3. Got(state, wk, m, u, w, k, new, g)
      BY <2>1, <3>2, Zenon
    <3> QED
      BY <3>3, Zenon DEF Got
  <2>3. wk' = [left EXCEPT ![w] = appendTask(registerPlayer(@, p), "resume", st)]
        /\ created = [g EXCEPT ![w] = r]
    BY <1>1, <1>10, Zenon
  <2> HIDE DEF exists, k, w, m, new, sp, ur, bo, st, g
  <2>4. old # w /\ (m = "multiplex" => old # byKey[u] \/ old = None)
    <3>1. u \in Keys
      BY Zenon DEF Keys
    <3>2. m = "multiplex" => old # byKey[u] \/ old = None
      BY <1>5, <1>6, <3>1, Zenon
    <3>3. CASE new
      <4>1. old \in 0 .. made
        BY <1>3, <1>4 DEF None
      <4>2. w = made + 1 /\ made \in Nat
        BY <1>3, <2>2, <3>3, Zenon
      <4> HIDE DEF old
      <4>3. old # w
        BY <4>1, <4>2
      <4> QED
        BY <3>2, <4>3, Zenon
    <3>4. CASE ~new
      <4>1. m = "multiplex" /\ w = byKey[u] /\ w # None
        BY <1>4, <1>8, <2>2, <3>4, Zenon
      <4> QED
        BY <1>4, <3>2, <4>1, Zenon
    <3> QED
      BY <3>2, <3>3, <3>4, Zenon
  <2>5. ASSUME NEW x \in Workers \ {w}
        PROVE  wk'[x] = IF new /\ m = "multiplex" /\ x = byKey[u]
                        THEN [ws[x] EXCEPT !.told = FALSE] ELSE ws[x]
    <3>1. created[x] = g[x] /\ DOMAIN created = Workers
      BY <2>2, <2>3, Zenon
    <3> HIDE DEF created
    <3>2. left[x] = (IF x = old THEN unRegisterPlayer(appendTask(g[x], "pause", st), p) ELSE g[x])
          /\ DOMAIN left = Workers
      BY <1>4, <3>1, Zenon
    <3> HIDE DEF left
    <3>3. wk'[x] = left[x]
      BY <2>2, <2>3, <3>2, Zenon
    <3>4. CASE x = old
      <4>1. g[x] = wk[x] /\ ~(new /\ m = "multiplex" /\ x = byKey[u])
        BY <1>4, <2>2, <2>4, <3>4, Zenon
      <4> QED
        BY <1>7, <3>2, <3>3, <3>4, <4>1, Zenon
    <3>5. CASE x # old
      BY <1>7, <2>2, <3>2, <3>3, <3>5, Zenon
    <3> QED
      BY <3>4, <3>5, Zenon
  <2>6. wk'[w] = J /\ wk' = [x \in Workers |-> wk'[x]]
    <3>1. created[w] = r /\ DOMAIN created = Workers
      BY <2>2, <2>3, Zenon
    <3> HIDE DEF created, r
    <3>2. left[w] = r /\ DOMAIN left = Workers
      BY <2>4, <3>1
    <3> HIDE DEF left
    <3> QED
      BY <2>2, <2>3, <3>2, Zenon
  <2> HIDE DEF old, ws, created, left
  <2>7. /\ g[w] \in WorkerType /\ g[w].alive /\ g[w].key = k /\ g[w].told /\ g[w].decoder # "deleted"
        /\ EndsPrepared(g[w]) /\ g[w].refs = IF new THEN {} ELSE wk[w].refs
    <3>1. CASE new
      <4>1. g[w] = NewWorker(k) /\ g[w] \in WorkerType
        BY <2>2, <3>1, Zenon
      <4> QED
        BY <3>1, <4>1 DEF NewWorker, EndsPrepared
    <3>2. CASE ~new
      BY <1>3, <2>2, <3>2, Zenon
    <3> QED
      BY <3>1, <3>2, Zenon
  <2>8. /\ r \in WorkerType /\ r.alive /\ r.key = k /\ r.told /\ r.decoder # "deleted" /\ EndsPrepared(r)
        /\ r.refs = g[w].refs
    <3> DEFINE o == openWorker(g[w], state)
    <3>1. /\ o \in WorkerType /\ o.alive /\ o.key = k /\ o.told /\ o.decoder # "deleted"
          /\ EndsPrepared(o) /\ o.refs = g[w].refs
      BY <2>7, OpenedWorker, Zenon
    <3> HIDE DEF o
    <3>2. Kept(o, appendTask(o, "pause", state)) /\ appendTask(o, "pause", state).refs = o.refs
      BY <3>1, TaskAdded, Zenon DEF Tasks
    <3> QED
      BY <3>1, <3>2, Zenon DEF Kept, o
  <2> HIDE DEF r
  <2>9. JoinedWorker(p, w, k, new, J, ws)
    <3>1. ~new => ws[w] = wk[w]
      BY <1>7, <2>2, <2>4, ZenonT(30)
    <3>2. /\ J \in WorkerType /\ J.alive /\ J.key = k /\ J.told /\ J.decoder # "deleted"
          /\ EndsPrepared(J) /\ Serves(state', J) /\ J.refs = {p} \cup r.refs
      BY <2>8, JoinsResuming
    <3> QED
      BY <2>7, <2>8, <3>1, <3>2, Zenon DEF JoinedWorker
  <2> HIDE DEF J
  <2>10. JoinsWorker(p, u, m, w, k, new, J, ws)
    <3>1. wk' = [x \in Workers |-> IF x = w THEN J
                                   ELSE IF new /\ m = "multiplex" /\ x = byKey[u]
                                   THEN [ws[x] EXCEPT !.told = FALSE] ELSE ws[x]]
      <4>1. \A x \in Workers : wk'[x] = IF x = w THEN J
                                        ELSE IF new /\ m = "multiplex" /\ x = byKey[u]
                                        THEN [ws[x] EXCEPT !.told = FALSE] ELSE ws[x]
        BY <2>5, <2>6, Zenon
      <4> QED
        BY <2>6, <4>1, Zenon
    <3>2. made' = IF new THEN w ELSE made
      BY <1>1, <1>3, <2>2 DEF Workers
    <3>3. new /\ m = "multiplex" /\ byKey[u] # None => ws[byKey[u]].preparing
      <4>1. u \in Keys
        BY Zenon DEF Keys
      <4> QED
        BY <1>6, <1>7, <2>2, <2>4, <4>1, Zenon
    <3>4. new => (m = "exclusive" => k = w)
      BY <2>2, Zenon
    <3> QED
      BY <1>1, <1>8, <2>2, <3>1, <3>2, <3>3, <3>4, Zenon DEF JoinsWorker
  <2>11. JoinedPlayer(sp, ur, mode, keys, bo, p, u, m, w, k, new)
    <3>1. /\ keys' \in [Players -> [Urls -> Keys \cup {None}]] /\ keys'[p][u] = k
          /\ \A q \in Players \ {p} : keys'[q] = keys[q]
          /\ \A v \in Urls \ {u} : keys'[p][v] = keys[p][v]
      BY <1>1, <1>3, <2>2, Zenon
    <3>2. m = mode[p]
      BY Zenon DEF m
    <3>3. KeysOf(mode', keys', p)
      <4>1. KeysOf(mode, keys, p) /\ mode' = mode
        BY <1>1, <1>3, Zenon
      <4>2. ASSUME NEW v \in Urls
            PROVE  keys'[p][v] \in (IF mode[p] = "multiplex" THEN {v, None} ELSE Workers \cup {None})
        <5>1. CASE v = u
          BY <1>8, <2>2, <3>1, <3>2, <5>1, Zenon
        <5>2. CASE v # u
          BY <3>1, <4>1, <5>2, Zenon DEF KeysOf
        <5> QED
          BY <5>1, <5>2, Zenon
      <4> QED
        BY <4>1, <4>2, Zenon DEF KeysOf
    <3>4. ~(keys[p][u] # None /\ byKey[keys[p][u]] # None)
      BY <1>10, Zenon DEF exists, isStreamExist
    <3> QED
      BY <1>8, <3>1, <3>2, <3>3, <3>4, Zenon DEF JoinedPlayer
  <2> QED
    BY <1>2, <2>9, <2>10, <2>11, PlayerJoined, Zenon
<1> QED
  BY <1>9, <1>10, Zenon

\* aboutToDelete: a worker that has closed is taken out of the map, unless
\* another one has its key.
LEMMA AboutToDeleteStep ==
    ASSUME ManagerInv, NEW w \in Workers, onWorkerAboutToDelete(w)
    PROVE  ManagerInv'
<1> DEFINE r == wk[w]
           J == [r EXCEPT !.decoder = "deleted"]
<1>1. /\ r.alive /\ r.decoder = "closed" /\ r.doing = "none"
      /\ byKey' = (IF r.told THEN [byKey EXCEPT ![r.key] = None] ELSE byKey)
      /\ wk' = [wk EXCEPT ![w] = J] /\ made' = made
      /\ state' = state /\ url' = url /\ mode' = mode /\ keys' = keys /\ bound' = bound
  BY Zenon DEF onWorkerAboutToDelete, player
<1>2. /\ ManagerTypes(state, url, mode, keys, bound, wk) /\ wk \in [Workers -> WorkerType]
      /\ KeyLeads(wk) /\ \A x \in Workers : WorkerSound(state, url, mode, keys, bound, x, wk[x])
      /\ \A p \in Players : KeysOf(mode, keys, p) /\ BoundSound(state, url, keys, bound, wk, p)
  BY Zenon DEF ManagerInv, ManagerSound, ManagerTypes
<1>3. /\ r \in WorkerType /\ Listed(w, r) /\ PlayersBound(bound, w, r) /\ Serves(state, r)
      /\ Watched(state, url, mode, keys, bound, w, r)
  BY <1>1, <1>2, Zenon DEF WorkerSound
<1>4. /\ J \in WorkerType /\ J.decoder = "deleted" /\ J.alive /\ J.key = r.key /\ J.told = r.told
      /\ J.refs = r.refs /\ J.preparing = r.preparing /\ J.task = r.task /\ J.doing = "none"
      /\ r.preparing
  BY <1>1, <1>3, Zenon DEF WorkerType, Listed, EndsPrepared
<1>5. r.key \in Keys /\ (r.told => byKey[r.key] = w) /\ (~r.told => byKey[r.key] # w)
  BY <1>1, <1>3, Zenon DEF Listed
<1>6. /\ byKey \in [Keys -> 0 .. made] /\ made \in 0 .. MaxWorkers /\ None \in 0 .. made
      /\ None \notin Workers
  BY <1>2, UrlsAssumption DEF ManagerTypes, None, Workers
<1>7. /\ byKey' \in [Keys -> 0 .. made]
      /\ \A k \in Keys : byKey'[k] = IF r.told /\ k = r.key THEN None ELSE byKey[k]
  BY <1>1, <1>5, <1>6, Zenon
<1>8. wk'[w] = J /\ (\A x \in Workers \ {w} : wk'[x] = wk[x]) /\ wk' \in [Workers -> WorkerType]
  BY <1>1, <1>2, <1>4, Zenon
<1> HIDE DEF J
<1>9. ManagerTypes(state, url, mode, keys, bound, wk)'
  BY <1>1, <1>2, <1>7, <1>8, Zenon DEF ManagerTypes
<1>10. KeyLeads(wk)'
  <2> SUFFICES ASSUME NEW k \in Keys, byKey'[k] # None
               PROVE  wk'[byKey'[k]].alive /\ wk'[byKey'[k]].key = k
    BY Zenon DEF KeyLeads
  <2>1. byKey'[k] = byKey[k] /\ byKey[k] # None
    BY <1>7, Zenon
  <2>2. byKey[k] \in Workers /\ wk[byKey[k]].alive /\ wk[byKey[k]].key = k
    BY <2>1, Leads DEF ManagerInv
  <2> QED
    BY <1>4, <1>8, <2>1, <2>2
<1>11. ASSUME NEW x \in Workers PROVE WorkerSound(state, url, mode, keys, bound, x, wk[x])'
  <2>1. CASE x = w
    <3>1. Listed(x, wk[x])'
      <4>1. byKey'[r.key] # w
        BY <1>5, <1>6, <1>7, Zenon
      <4>2. w <= made /\ (r.key \in Workers => r.key = w) /\ EndsPrepared(r)
        BY <1>3, Zenon DEF Listed
      <4>3. EndsPrepared(J)
        BY <1>1, <1>4, <4>2, Zenon DEF EndsPrepared
      <4> QED
        BY <1>1, <1>4, <1>5, <1>8, <2>1, <4>1, <4>2, <4>3, Zenon DEF Listed, EndsPrepared
    <3>2. PlayersBound(bound, x, wk[x])'
      BY <1>1, <1>3, <1>4, <1>8, <2>1, Zenon DEF PlayersBound
    <3>3. Serves(state, wk[x])' /\ Watched(state, url, mode, keys, bound, x, wk[x])'
      BY <1>4, <1>8, <2>1, Zenon DEF Serves, Watched
    <3> QED
      BY <3>1, <3>2, <3>3, Zenon DEF WorkerSound
  <2>2. CASE x # w
    <3>1. wk'[x] = wk[x]
      BY <1>8, <2>2, Zenon
    <3>2. ASSUME wk[x].alive PROVE Listed(x, wk[x])'
      <4>1. Listed(x, wk[x])
        BY <1>2, <3>2, Zenon DEF WorkerSound
      <4>2. wk[x].key \in Keys
        BY <4>1, Zenon DEF Listed
      <4>3. byKey[wk[x].key] = x <=> byKey'[wk[x].key] = x
        BY <1>5, <1>6, <1>7, <2>2, <4>2, Zenon
      <4> QED
        BY <1>1, <3>1, <4>1, <4>3, Zenon DEF Listed, EndsPrepared
    <3>3. WorkerSound(state, url, mode, keys, bound, x, wk[x])
      BY <1>2, ZenonT(30)
    <3>4. wk[x].alive => /\ PlayersBound(bound, x, wk[x])' /\ Serves(state, wk[x])'
                         /\ Watched(state, url, mode, keys, bound, x, wk[x])'
      BY <1>1, <3>1, <3>3 DEF WorkerSound, PlayersBound, Serves, Watched, Attached, Effective
    <3> QED
      BY <3>1, <3>2, <3>4, Zenon DEF WorkerSound
  <2> QED
    BY <2>1, <2>2, Zenon
<1>12. ASSUME NEW p \in Players
       PROVE  KeysOf(mode, keys, p)' /\ BoundSound(state, url, keys, bound, wk, p)'
  <2>1. bound[p] # None => bound[p] \in Workers
    BY <1>2, UrlsAssumption DEF ManagerTypes, None, Workers
  <2>2. bound[p] # None => wk'[bound[p]].alive = wk[bound[p]].alive /\ wk'[bound[p]].key = wk[bound[p]].key
    BY <1>1, <1>4, <1>8, <2>1, Zenon
  <2> QED
    BY <1>1, <1>2, <2>2, Zenon DEF KeysOf, BoundSound
<1> QED
  BY <1>9, <1>10, <1>11, <1>12, Zenon DEF ManagerInv, ManagerSound

\* deleteLater: no key leads to a worker that has announced its end.
LEMMA DeleteStep ==
    ASSUME ManagerInv, NEW w \in Workers, deleteLater(w)
    PROVE  ManagerInv'
<1> DEFINE J == [NewWorker(None) EXCEPT !.alive = FALSE]
<1>1. /\ wk[w].alive /\ wk[w].decoder = "deleted" /\ wk' = [wk EXCEPT ![w] = J]
      /\ byKey' = byKey /\ made' = made
      /\ state' = state /\ url' = url /\ mode' = mode /\ keys' = keys /\ bound' = bound
  BY Zenon DEF deleteLater, player
<1>2. /\ ManagerTypes(state, url, mode, keys, bound, wk) /\ wk \in [Workers -> WorkerType]
      /\ KeyLeads(wk) /\ \A x \in Workers : WorkerSound(state, url, mode, keys, bound, x, wk[x])
      /\ \A p \in Players : KeysOf(mode, keys, p) /\ BoundSound(state, url, keys, bound, wk, p)
  BY Zenon DEF ManagerInv, ManagerSound, ManagerTypes
<1>3. J \in WorkerType /\ ~J.alive
  BY Zenon DEF NewWorker, WorkerType, None, Idle
<1>4. wk'[w] = J /\ (\A x \in Workers \ {w} : wk'[x] = wk[x]) /\ wk' \in [Workers -> WorkerType]
  BY <1>1, <1>2, <1>3, Zenon
<1> HIDE DEF J
<1>5. ManagerTypes(state, url, mode, keys, bound, wk)'
  BY <1>1, <1>2, <1>4, Zenon DEF ManagerTypes
<1>6. KeyLeads(wk)'
  <2> SUFFICES ASSUME NEW k \in Keys, byKey[k] # None PROVE wk'[byKey[k]].alive /\ wk'[byKey[k]].key = k
    BY <1>1, ZenonT(30) DEF KeyLeads
  <2>1. byKey[k] \in Workers /\ wk[byKey[k]].alive /\ wk[byKey[k]].key = k /\ Listed(byKey[k], wk[byKey[k]])
    BY Leads DEF ManagerInv
  <2>2. byKey[k] # w
    BY <1>1, <2>1, Zenon DEF Listed
  <2> QED
    BY <1>4, <2>1, <2>2, Zenon
<1>7. ASSUME NEW x \in Workers PROVE WorkerSound(state, url, mode, keys, bound, x, wk[x])'
  <2>1. CASE x = w
    BY <1>3, <1>4, <2>1, Zenon DEF WorkerSound
  <2>2. CASE x # w
    <3>1. wk'[x] = wk[x] /\ WorkerSound(state, url, mode, keys, bound, x, wk[x])
      BY <1>2, <1>4, <2>2, Zenon
    <3> SUFFICES ASSUME wk[x].alive
                 PROVE  /\ Listed(x, wk[x])' /\ PlayersBound(bound, x, wk[x])' /\ Serves(state, wk[x])'
                        /\ Watched(state, url, mode, keys, bound, x, wk[x])'
      BY <3>1, Zenon DEF WorkerSound
    <3>2. /\ Listed(x, wk[x]) /\ PlayersBound(bound, x, wk[x]) /\ Serves(state, wk[x])
          /\ Watched(state, url, mode, keys, bound, x, wk[x])
      BY <3>1, Zenon DEF WorkerSound
    <3>3. Listed(x, wk[x])'
      BY <1>1, <3>1, <3>2, Zenon DEF Listed, EndsPrepared
    <3>4. PlayersBound(bound, x, wk[x])'
      BY <1>1, <3>1, <3>2, Zenon DEF PlayersBound
    <3>5. Serves(state, wk[x])'
      BY <1>1, <3>1, <3>2, Zenon DEF Serves, Effective
    <3>6. Watched(state, url, mode, keys, bound, x, wk[x])'
      BY <1>1, <3>1, <3>2, Zenon DEF Watched, Attached
    <3> QED
      BY <3>3, <3>4, <3>5, <3>6, Zenon
  <2> QED
    BY <2>1, <2>2, Zenon
<1>8. ASSUME NEW p \in Players
      PROVE  KeysOf(mode, keys, p)' /\ BoundSound(state, url, keys, bound, wk, p)'
  <2>1. bound[p] # None => bound[p] \in Workers
    BY <1>2, UrlsAssumption DEF ManagerTypes, None, Workers
  <2>2. bound[p] # None => (wk'[bound[p]].alive => wk'[bound[p]] = wk[bound[p]])
    BY <1>3, <1>4, <2>1, Zenon
  <2> QED
    BY <1>1, <1>2, <2>2, Zenon DEF KeysOf, BoundSound
<1> QED
  BY <1>5, <1>6, <1>7, <1>8, Zenon DEF ManagerInv, ManagerSound

\* Initially there is no worker and no player is open.
LEMMA ManagerStart == Init => ManagerInv
<1> SUFFICES ASSUME Init PROVE ManagerInv
  OBVIOUS
<1>1. None \notin Workers /\ None = 0 /\ MaxWorkers \in Nat
  BY UrlsAssumption DEF None, Workers
<1>2. ManagerTypes(state, url, mode, keys, bound, wk)
  <2>1. [NewWorker(None) EXCEPT !.alive = FALSE] \in WorkerType
    BY Zenon DEF NewWorker, WorkerType, None, Idle
  <2>2. wk \in [Workers -> WorkerType]
    BY <2>1, Zenon DEF Init
  <2>3. state \in [Players -> States] /\ url \in [Players -> Urls \cup {None}]
    BY Zenon DEF Init, States
  <2>4. /\ mode \in [Players -> {"exclusive", "multiplex"}]
        /\ keys \in [Players -> [Urls -> Keys \cup {None}]]
    BY Zenon DEF Init
  <2>5. /\ bound \in [Players -> 0 .. made] /\ byKey \in [Keys -> 0 .. made]
        /\ made \in 0 .. MaxWorkers
    BY <1>1 DEF Init
  <2> QED
    BY <2>2, <2>3, <2>4, <2>5, Zenon DEF ManagerTypes
<1>3. KeyLeads(wk)
  BY Zenon DEF Init, KeyLeads
<1>4. \A x \in Workers : WorkerSound(state, url, mode, keys, bound, x, wk[x])
  BY Zenon DEF Init, WorkerSound, NewWorker
<1>5. \A p \in Players : KeysOf(mode, keys, p) /\ BoundSound(state, url, keys, bound, wk, p)
  BY Zenon DEF Init, KeysOf, BoundSound
<1> QED
  BY <1>2, <1>3, <1>4, <1>5, Zenon DEF ManagerInv, ManagerSound

\* One step per action.
LEMMA ManagerStep == ManagerInv /\ [Next]_vars => ManagerInv'
<1> SUFFICES ASSUME ManagerInv, [Next]_vars PROVE ManagerInv'
  OBVIOUS
<1>1. ASSUME NEW p \in Players, close(p) PROVE ManagerInv'
  BY <1>1, CloseStep, Zenon
<1>2. ASSUME NEW p \in Players, pause(p) \/ resume(p) PROVE ManagerInv'
  BY <1>2, TaskStep, Zenon
<1>3. ASSUME NEW p \in Players, videoFrameReady(p) PROVE ManagerInv'
  BY <1>3, FrameStep, Zenon
<1>4. ASSUME NEW p \in Players, NEW u \in Urls, switchStream(p, u) PROVE ManagerInv'
  BY <1>4, SwitchStep, Zenon
<1>5. ASSUME NEW p \in Players, NEW u \in Urls, NEW m \in {"exclusive", "multiplex"}, open(p, u, m)
      PROVE  ManagerInv'
  BY <1>5, OpenStep, Zenon
<1>6. ASSUME NEW w \in Workers, openResultReady(w) \/ takeTask(w) \/ doTask(w) PROVE ManagerInv'
  BY <1>6, ThreadStep, Zenon
<1>7. ASSUME NEW w \in Workers, onWorkerAboutToDelete(w) PROVE ManagerInv'
  BY <1>7, AboutToDeleteStep, Zenon
<1>8. ASSUME NEW w \in Workers, deleteLater(w) PROVE ManagerInv'
  BY <1>8, DeleteStep, Zenon
<1>9. CASE UNCHANGED vars
  <2>1. /\ state' = state /\ url' = url /\ mode' = mode /\ keys' = keys /\ bound' = bound
        /\ byKey' = byKey /\ wk' = wk /\ made' = made
    BY <1>9, Zenon DEF vars
  <2>2. ManagerTypes(state, url, mode, keys, bound, wk)' /\ KeyLeads(wk)'
    BY <2>1, Zenon DEF ManagerInv, ManagerSound, ManagerTypes, KeyLeads
  <2>3. ASSUME NEW x \in Workers PROVE WorkerSound(state, url, mode, keys, bound, x, wk[x])'
    <3>1. WorkerSound(state, url, mode, keys, bound, x, wk[x])
      BY Zenon DEF ManagerInv, ManagerSound
    <3> QED
      BY <2>1, <3>1, Zenon DEF WorkerSound, Listed, EndsPrepared, PlayersBound, Serves, Watched, Attached,
                        Effective
  <2>4. \A p \in Players : KeysOf(mode, keys, p)' /\ BoundSound(state, url, keys, bound, wk, p)'
    BY <2>1, Zenon DEF ManagerInv, ManagerSound, KeysOf, BoundSound
  <2> QED
    BY <2>2, <2>3, <2>4, Zenon DEF ManagerInv, ManagerSound
<1> QED
  BY <1>1, <1>2, <1>3, <1>4, <1>5, <1>6, <1>7, <1>8, <1>9, Zenon DEF Next

\* The manager's maps, its workers and the players agree at all times.
THEOREM ManagerInvariance == Spec => []ManagerInv
  BY ManagerStart, ManagerStep, PTL DEF Spec

\* The invariant says what the three properties say.
LEMMA ManagerServes == ManagerInv => Registered /\ ResumeKept /\ NoLeak
<1> SUFFICES ASSUME ManagerInv PROVE Registered /\ ResumeKept /\ NoLeak
  OBVIOUS
<1>1. KeyLeads(wk) /\ \A x \in Workers : WorkerSound(state, url, mode, keys, bound, x, wk[x])
  BY Zenon DEF ManagerInv, ManagerSound
<1>2. Registered
  <2>1. ASSUME NEW w \in Workers, wk[w].alive, ~wk[w].preparing PROVE byKey[wk[w].key] = w
    <3>1. Listed(w, wk[w])
      BY <1>1, <2>1, Zenon DEF WorkerSound
    <3> QED
      BY <2>1, <3>1, Zenon DEF Listed, EndsPrepared
  <2> QED
    BY <1>1, <2>1, Zenon DEF Registered, KeyLeads
<1>3. ResumeKept
  <2> SUFFICES ASSUME NEW p \in Players, state[p] = "Resume", streamDecoderByPlayer(p) # None,
                      ~wk[streamDecoderByPlayer(p)].preparing
               PROVE  Effective(wk[streamDecoderByPlayer(p)]) # "pause"
    BY Zenon DEF ResumeKept
  <2> DEFINE w == streamDecoderByPlayer(p)
  <2>1. w \in Workers /\ wk[w].alive /\ bound[p] = w
    BY OwnWorker, Zenon
  <2> HIDE DEF w
  <2>2. p \in wk[w].refs /\ Serves(state, wk[w])
    BY <1>1, <2>1, Zenon DEF WorkerSound, PlayersBound
  <2>3. ~wk[w].preparing
    BY Zenon DEF w
  <2>4. Effective(wk[w]) # "pause"
    BY <2>2, <2>3, Zenon DEF Serves
  <2> QED
    BY <2>4, Zenon DEF w
<1>4. NoLeak
  BY <1>1, Zenon DEF NoLeak, WorkerSound, Watched, Attached
<1> QED
  BY <1>2, <1>3, <1>4, Zenon

\* Keys lead to workers that exist, resumed players are served, and no shared
\* stream is left behind, with any number of players, urls and workers.
THEOREM PlayersAreServed == Spec => []PlayersServed
<1>1. ManagerInv => PlayersServed
  BY ManagerServes DEF PlayersServed
<1> QED
  BY <1>1, ManagerInvariance, PTL
-----------------------------------------------------------------------------
(* One player and its render thread. *)

FrameSlots == Kinds \cup Sounds
PlayerSlots == FrameSlots \cup {"playing", "pause", "stop"}

\* A slot of the queue makes the worker release its renderers.
Releasing == \E i \in 1 .. Len(pPosted) : pPosted[i] \in {"stop", "pause"}

\* ... and no frame comes after it.
ReleasesAll ==
    \E i \in 1 .. Len(pPosted) :
        pPosted[i] \in {"stop", "pause"} /\ \A j \in i + 1 .. Len(pPosted) : pPosted[j] \notin FrameSlots

\* The worker has no renderer and will get none.
Empty ==
    /\ pVideo = Player!NoVideo /\ pAudio = Player!NoAudio
    /\ \A j \in 1 .. Len(pPosted) : pPosted[j] \notin FrameSlots

PlayerTypes ==
    /\ pPlayerState \in States /\ pPosted \in Seq(PlayerSlots)
    /\ pVideo.id \in Player!Ids \/ pVideo = Player!NoVideo

\* No frame passes the slot that setPlayerState posts for a stop or a pause.
Quiet == pWorker = "running" /\ pPlayerState # "Playing" => ReleasesAll \/ Empty

\* A renderer that paintGL does not know is announced, or about to be released.
RendererAnnounced ==
    pWorker = "running" /\ pVideo # Player!NoVideo /\ pShown # pVideo.id => pTexture \/ Releasing

PlayerInv ==
    /\ PlayerTypes /\ Quiet /\ RendererAnnounced
    /\ pWorker = "gone" => pVideo = Player!NoVideo /\ pAudio = Player!NoAudio
    /\ Player!TimeoutTrue
-----------------------------------------------------------------------------

\* The head of a queue is taken.
LEMMA HeadTaken ==
    ASSUME NEW q \in Seq(PlayerSlots), q # <<>>
    PROVE  /\ Head(q) = q[1] /\ Tail(q) \in Seq(PlayerSlots) /\ Len(Tail(q)) = Len(q) - 1
           /\ Len(q) \in Nat /\ Len(q) >= 1
           /\ \A i \in 1 .. Len(q) - 1 : Tail(q)[i] = q[i + 1]
OBVIOUS

\* One slot is added.
LEMMA SlotAdded ==
    ASSUME NEW q \in Seq(PlayerSlots), NEW x \in PlayerSlots
    PROVE  /\ q \o <<x>> \in Seq(PlayerSlots) /\ Len(q \o <<x>>) = Len(q) + 1 /\ Len(q) \in Nat
           /\ (q \o <<x>>)[Len(q) + 1] = x
           /\ \A i \in 1 .. Len(q) : (q \o <<x>>)[i] = q[i]
OBVIOUS

\* The slot that is taken is not the one that releases: that one is still there.
LEMMA StillReleasing ==
    ASSUME PlayerTypes, pPosted # <<>>, pPosted' = Tail(pPosted), Head(pPosted) \notin {"stop", "pause"}
    PROVE  (Releasing => Releasing') /\ (ReleasesAll => ReleasesAll')
<1>1. /\ Head(pPosted) = pPosted[1] /\ Len(pPosted') = Len(pPosted) - 1 /\ Len(pPosted) \in Nat
      /\ \A i \in 1 .. Len(pPosted) - 1 : pPosted'[i] = pPosted[i + 1]
  BY HeadTaken, Zenon DEF PlayerTypes
<1>2. ASSUME Releasing PROVE Releasing'
  <2>1. PICK i \in 1 .. Len(pPosted) : pPosted[i] \in {"stop", "pause"}
    BY <1>2, Zenon DEF Releasing
  <2>2. i - 1 \in 1 .. Len(pPosted') /\ pPosted'[i - 1] = pPosted[i]
    BY <1>1, <2>1
  <2> QED
    BY <2>1, <2>2, Zenon DEF Releasing
<1>3. ASSUME ReleasesAll PROVE ReleasesAll'
  <2>1. PICK i \in 1 .. Len(pPosted) :
          pPosted[i] \in {"stop", "pause"} /\ \A j \in i + 1 .. Len(pPosted) : pPosted[j] \notin FrameSlots
    BY <1>3, Zenon DEF ReleasesAll
  <2>2. i - 1 \in 1 .. Len(pPosted') /\ pPosted'[i - 1] = pPosted[i]
    BY <1>1, <2>1
  <2>3. ASSUME NEW j \in (i - 1) + 1 .. Len(pPosted') PROVE pPosted'[j] \notin FrameSlots
    BY <1>1, <2>1
  <2> QED
    BY <2>1, <2>2, <2>3, Zenon DEF ReleasesAll
<1> QED
  BY <1>2, <1>3, Zenon

\* Slots that are no frames do not disturb an empty worker.
LEMMA StillEmpty ==
    ASSUME PlayerTypes, Empty, pPosted # <<>>, pPosted' = Tail(pPosted), UNCHANGED <<pVideo, pAudio>>
    PROVE  Empty'
<1>1. /\ Len(pPosted') = Len(pPosted) - 1 /\ Len(pPosted) \in Nat
      /\ \A i \in 1 .. Len(pPosted) - 1 : pPosted'[i] = pPosted[i + 1]
  BY HeadTaken, Zenon DEF PlayerTypes
<1>2. ASSUME NEW j \in 1 .. Len(pPosted') PROVE pPosted'[j] \notin FrameSlots
  BY <1>1 DEF Empty
<1> QED
  BY <1>2, Zenon DEF Empty

\* A stop or a pause is posted, or nothing.
LEMMA StateSet ==
    ASSUME PlayerInv, NEW s \in {"Stop", "Start", "Pause", "Resume"}, Player!setPlayerState(s),
           s \in {"Start", "Resume"} => pPlayerState # "Playing"
    PROVE  PlayerInv'
<1>1. /\ pPlayerState' = s /\ UNCHANGED <<pVideo, pAudio, pTexture, pShown, pWorker>>
      /\ pPosted' = pPosted \o Player!Prepares(s)
  BY Zenon DEF Player!setPlayerState, Player!render
<1>2. Player!TimeoutTrue'
  BY Zenon DEF PlayerInv, Player!TimeoutTrue, Player!setPlayerState
<1>3. CASE s \in {"Start", "Resume"}
  <2>1. Player!Prepares(s) = <<>>
    BY <1>3, Zenon DEF Player!Prepares
  <2>2. pPosted' = pPosted
    BY <1>1, <2>1 DEF PlayerInv, PlayerTypes
  <2>3. Quiet'
    BY <1>1, <1>3, <2>2, Zenon DEF PlayerInv, Quiet, ReleasesAll, Empty
  <2> QED
    BY <1>1, <1>2, <2>2, <2>3, <1>3, Zenon DEF PlayerInv, PlayerTypes, RendererAnnounced, Releasing, States
<1>4. CASE s \in {"Stop", "Pause"}
  <2>1. PICK x \in {"stop", "pause"} : pPosted' = pPosted \o <<x>>
    BY <1>1, <1>4, Zenon DEF Player!Prepares
  <2>2. /\ pPosted' \in Seq(PlayerSlots) /\ Len(pPosted') = Len(pPosted) + 1 /\ Len(pPosted) \in Nat
        /\ pPosted'[Len(pPosted')] \in {"stop", "pause"}
    BY <2>1, SlotAdded, Zenon DEF PlayerInv, PlayerTypes, PlayerSlots
  <2>3. Len(pPosted') \in 1 .. Len(pPosted')
        /\ \A j \in Len(pPosted') + 1 .. Len(pPosted') : pPosted'[j] \notin FrameSlots
    BY <2>2
  <2>4. ReleasesAll' /\ Releasing'
    BY <2>2, <2>3, Zenon DEF ReleasesAll, Releasing
  <2> QED
    BY <1>1, <1>2, <2>2, <2>4, <1>4, Zenon DEF PlayerInv, PlayerTypes, RendererAnnounced, Quiet, States
<1> QED
  BY <1>3, <1>4, Zenon

\* A frame is posted while the player plays; a slot before it may be.
LEMMA FrameSent ==
    ASSUME PlayerInv, NEW f \in FrameSlots, Player!videoFrameReady(f) PROVE PlayerInv'
<1>1. /\ pPlayerState' = "Playing"
      /\ UNCHANGED <<pVideo, pAudio, pTexture, pShown, pWorker, pTimer, pTimeout, pFailed>>
  BY Zenon DEF Player!videoFrameReady, Player!render, Player!opening
<1>2. PICK q \in {pPosted, pPosted \o <<"playing">>} : pPosted' = q \o <<f>>
  <2>1. CASE pPlayerState = "Playing"
    BY <2>1 DEF Player!videoFrameReady, PlayerInv, PlayerTypes
  <2>2. CASE pPlayerState # "Playing"
    BY <2>2, Zenon DEF Player!videoFrameReady, Player!Prepares
  <2> QED
    BY <2>1, <2>2, Zenon
<1>3. /\ q \in Seq(PlayerSlots) /\ Len(q) >= Len(pPosted) /\ Len(pPosted) \in Nat /\ Len(q) \in Nat
      /\ \A i \in 1 .. Len(pPosted) : q[i] = pPosted[i]
  <2>1. CASE q = pPosted
    BY <2>1 DEF PlayerInv, PlayerTypes
  <2>2. CASE q = pPosted \o <<"playing">>
    BY <2>2, SlotAdded DEF PlayerInv, PlayerTypes, PlayerSlots
  <2> QED
    BY <2>1, <2>2, Zenon
<1>4. /\ pPosted' \in Seq(PlayerSlots) /\ Len(pPosted') = Len(q) + 1
      /\ \A i \in 1 .. Len(q) : pPosted'[i] = q[i]
  BY <1>2, <1>3, SlotAdded DEF PlayerSlots
<1>5. Releasing => Releasing'
  <2>1. \A i \in 1 .. Len(pPosted) : i \in 1 .. Len(pPosted') /\ pPosted'[i] = pPosted[i]
    BY <1>3, <1>4
  <2> QED
    BY <2>1, Zenon DEF Releasing
<1> QED
  BY <1>1, <1>4, <1>5, Zenon DEF PlayerInv, PlayerTypes, Quiet, RendererAnnounced, Player!TimeoutTrue,
     States

\* The render thread takes a slot that is not a frame's.
LEMMA SlotTaken ==
    ASSUME PlayerInv, Player!preparePlaying \/ Player!prepareStop PROVE PlayerInv'
<1>1. /\ pPosted # <<>> /\ pPosted' = Tail(pPosted) /\ pWorker = "running"
      /\ UNCHANGED <<pPlayerState, pTexture, pShown, pTimer, pTimeout, pFailed, pWorker>>
  BY Zenon DEF Player!preparePlaying, Player!prepareStop, Player!Runs, Player!render, Player!opening
<1>2. /\ Head(pPosted) = pPosted[1] /\ Tail(pPosted) \in Seq(PlayerSlots)
      /\ Len(pPosted') = Len(pPosted) - 1
      /\ Len(pPosted) \in Nat /\ Len(pPosted) >= 1
      /\ \A i \in 1 .. Len(pPosted) - 1 : pPosted'[i] = pPosted[i + 1]
  BY <1>1, HeadTaken, Zenon DEF PlayerInv, PlayerTypes
<1>3. CASE Player!preparePlaying
  <2>1. UNCHANGED <<pVideo, pAudio>> /\ Head(pPosted) \notin {"stop", "pause"}
    BY <1>3, Zenon DEF Player!preparePlaying, Player!render, Player!Slot
  <2>2. (Releasing => Releasing') /\ (ReleasesAll => ReleasesAll') /\ (Empty => Empty')
    BY <1>1, <2>1, StillReleasing, StillEmpty, Zenon DEF PlayerInv
  <2> QED
    BY <1>1, <1>2, <2>1, <2>2, Zenon DEF PlayerInv, PlayerTypes, Quiet, RendererAnnounced,
       Player!TimeoutTrue
<1>4. CASE Player!prepareStop
  <2>1. pVideo' = Player!NoVideo /\ pAudio' = Player!NoAudio
    BY <1>4, Zenon DEF Player!prepareStop
  <2>2. ASSUME ReleasesAll \/ Empty PROVE ReleasesAll' \/ Empty'
    <3>1. CASE Empty
      BY <1>1, <2>1, <3>1, StillEmpty, Zenon DEF PlayerInv, Empty
    <3>2. CASE ReleasesAll
      <4>1. PICK i \in 1 .. Len(pPosted) :
              /\ pPosted[i] \in {"stop", "pause"}
              /\ \A j \in i + 1 .. Len(pPosted) : pPosted[j] \notin FrameSlots
        BY <3>2, Zenon DEF ReleasesAll
      <4>2. CASE i = 1
        <5>1. ASSUME NEW j \in 1 .. Len(pPosted') PROVE pPosted'[j] \notin FrameSlots
          BY <1>2, <4>1, <4>2
        <5> QED
          BY <2>1, <5>1, Zenon DEF Empty
      <4>3. CASE i # 1
        <5>1. i - 1 \in 1 .. Len(pPosted') /\ pPosted'[i - 1] = pPosted[i]
          BY <1>2, <4>1, <4>3
        <5>2. ASSUME NEW j \in (i - 1) + 1 .. Len(pPosted') PROVE pPosted'[j] \notin FrameSlots
          BY <1>2, <4>1, <4>3
        <5> QED
          BY <4>1, <5>1, <5>2, Zenon DEF ReleasesAll
      <4> QED
        BY <4>2, <4>3, Zenon
    <3> QED
      BY <2>2, <3>1, <3>2, Zenon
  <2> QED
    BY <1>1, <1>2, <2>1, <2>2, Zenon DEF PlayerInv, PlayerTypes, Quiet, RendererAnnounced,
       Player!TimeoutTrue
<1> QED
  BY <1>3, <1>4, Zenon

\* There is a number for a new renderer.
LEMMA UnusedId == Player!Unused \in Player!Ids
<1>1. \E i \in Player!Ids : i \notin {pVideo.id, pShown, pHeld}
  <2>1. 1 \in Player!Ids /\ 2 \in Player!Ids /\ 3 \in Player!Ids /\ 4 \in Player!Ids
    BY DEF Player!Ids
  <2> QED
    BY <2>1
<1> QED
  BY <1>1, Zenon DEF Player!Unused

\* The render thread takes a frame.
LEMMA FrameTaken ==
    ASSUME PlayerInv, Player!renderAudio \/ Player!renderVideo PROVE PlayerInv'
<1>1. /\ pPosted # <<>> /\ pPosted' = Tail(pPosted) /\ pWorker = "running" /\ Head(pPosted) \in FrameSlots
      /\ UNCHANGED <<pPlayerState, pShown, pTimer, pTimeout, pFailed, pWorker>>
  BY Zenon DEF Player!renderAudio, Player!renderVideo, Player!Runs, Player!opening, Player!Slot, FrameSlots
<1>2. /\ Head(pPosted) = pPosted[1] /\ Tail(pPosted) \in Seq(PlayerSlots) /\ Len(pPosted) \in Nat
      /\ Len(pPosted) >= 1
  BY <1>1, HeadTaken, Zenon DEF PlayerInv, PlayerTypes
<1>3. Head(pPosted) \notin {"stop", "pause"}
  BY <1>1, SlotsAssumption, Zenon DEF FrameSlots
<1>4. (Releasing => Releasing') /\ (ReleasesAll => ReleasesAll')
  BY <1>1, <1>3, StillReleasing, Zenon DEF PlayerInv
<1>5. ~Empty
  BY <1>1, <1>2 DEF Empty
<1>6. Quiet'
  BY <1>1, <1>4, <1>5, Zenon DEF PlayerInv, Quiet
<1>7. CASE Player!renderAudio
  <2>1. UNCHANGED <<pVideo, pTexture>>
    BY <1>7, Zenon DEF Player!renderAudio
  <2> QED
    BY <1>1, <1>2, <1>4, <1>6, <2>1, Zenon DEF PlayerInv, PlayerTypes, RendererAnnounced, Player!TimeoutTrue
<1>8. CASE Player!renderVideo
  <2>1. pTexture' = TRUE /\ (pVideo' = pVideo \/ pVideo'.id \in Player!Ids)
    BY <1>8, UnusedId DEF Player!renderVideo, Player!createRenderer
  <2> QED
    BY <1>1, <1>2, <1>4, <1>6, <2>1, Zenon DEF PlayerInv, PlayerTypes, RendererAnnounced, Player!TimeoutTrue
<1> QED
  BY <1>7, <1>8, Zenon

\* A texture is announced to the player that plays, or will be released.
LEMMA TextureShown ==
    ASSUME PlayerInv, Player!textureReady PROVE PlayerInv'
<1>1. /\ UNCHANGED <<pPlayerState, pPosted, pVideo, pAudio, pTimer, pTimeout, pFailed, pWorker>>
      /\ pPlayerState = "Playing" => pShown' = pVideo.id
  BY Zenon DEF Player!textureReady, Player!opening
<1>2. ReleasesAll => Releasing
  BY Zenon DEF ReleasesAll, Releasing
<1>3. RendererAnnounced'
  BY <1>1, <1>2, Zenon DEF PlayerInv, RendererAnnounced, Quiet, Empty, Releasing
<1> QED
  BY <1>1, <1>3, Zenon DEF PlayerInv, PlayerTypes, Quiet, ReleasesAll, Empty, Player!TimeoutTrue

\* Every step keeps the invariant.
LEMMA PlayerStep == PlayerInv /\ [Player!Next]_pVars => PlayerInv'
<1> SUFFICES ASSUME PlayerInv, [Player!Next]_pVars PROVE PlayerInv'
  OBVIOUS
<1> USE DEF PlayerInv
<1>1. CASE Player!command
  BY <1>1, StateSet, Zenon DEF Player!command
<1>2. CASE \E f \in Kinds \cup Sounds : Player!videoFrameReady(f)
  BY <1>2, FrameSent, Zenon DEF FrameSlots
<1>3. CASE Player!paintGL \/ Player!painted \/ UNCHANGED pVars
  <2>1. UNCHANGED <<pPlayerState, pPosted, pVideo, pAudio, pTexture, pShown, pTimer, pTimeout,
                    pFailed, pWorker>>
    BY <1>3, Zenon DEF Player!paintGL, Player!painted, pVars, Player!render, Player!opening
  <2> QED
    BY <2>1, Zenon DEF PlayerTypes, Quiet, RendererAnnounced, ReleasesAll, Releasing, Empty,
       Player!TimeoutTrue
<1>4. CASE \/ \E e \in {"kStreamOpenFailed", "kStreamOpened"} : Player!onDecoderEventChanged(e)
           \/ Player!streamOpenTimeout
  <2>1. UNCHANGED <<pPlayerState, pPosted, pVideo, pAudio, pTexture, pShown, pWorker>>
    BY <1>4, Zenon DEF Player!onDecoderEventChanged, Player!streamOpenTimeout, Player!render
  <2>2. Player!TimeoutTrue'
    BY <1>4, Zenon DEF Player!onDecoderEventChanged, Player!streamOpenTimeout, Player!TimeoutTrue
  <2> QED
    BY <2>1, <2>2, Zenon DEF PlayerTypes, Quiet, RendererAnnounced, ReleasesAll, Releasing, Empty
<1>5. CASE Player!destructor \/ Player!terminate
  <2>1. UNCHANGED <<pPlayerState, pPosted, pVideo, pAudio, pTexture, pShown, pTimer, pTimeout, pFailed>>
        /\ pWorker' \in {"quit", "killed"}
    BY <1>5, Zenon DEF Player!destructor, Player!terminate, Player!render, Player!opening
  <2> QED
    BY <2>1, Zenon DEF PlayerTypes, Quiet, RendererAnnounced, Player!TimeoutTrue
<1>6. CASE Player!workerDeleted
  <2>1. /\ UNCHANGED <<pPlayerState, pTimer, pTimeout, pFailed>> /\ pWorker' = "gone"
        /\ pPosted' = <<>> /\ pVideo' = Player!NoVideo /\ pAudio' = Player!NoAudio
    BY <1>6, Zenon DEF Player!workerDeleted, Player!opening
  <2> QED
    BY <2>1 DEF PlayerTypes, Quiet, RendererAnnounced, Player!TimeoutTrue
<1> QED
  BY <1>1, <1>2, <1>3, <1>4, <1>5, <1>6, SlotTaken, FrameTaken, TextureShown, Zenon DEF Player!Next

\* Nothing plays, and the worker has nothing.
LEMMA PlayerStart == Player!Init => PlayerInv
<1> SUFFICES ASSUME Player!Init PROVE PlayerInv
  OBVIOUS
<1>1. pPosted \in Seq(PlayerSlots) /\ Len(pPosted) = 0
  BY DEF Player!Init
<1>2. Empty /\ Player!TimeoutTrue /\ pWorker = "running" /\ pPlayerState = "Stop"
  BY <1>1 DEF Player!Init, Empty, Player!TimeoutTrue
<1> QED
  BY <1>1, <1>2, Zenon DEF PlayerInv, PlayerTypes, Quiet, RendererAnnounced, Empty, States

\* The invariant holds of every behaviour, however many slots are waiting.
THEOREM PlayerInvariance == Player!Spec => []PlayerInv
<1> QED
  BY PlayerStart, PlayerStep, PTL DEF Player!Spec, Player!vars, pVars

\* Once the render thread has caught up with a stop or a pause, or has deleted
\* its worker, no renderer and no audio output is left.
THEOREM RenderersReleased == Player!Spec => []Released
<1>1. PlayerInv => Released
  <2> SUFFICES ASSUME PlayerInv, pWorker = "running", pPlayerState \in {"Stop", "Pause"}, pPosted = <<>>
               PROVE  Empty
    BY Zenon DEF Released, Player!Released, PlayerInv, Empty, Player!CaughtUp
  <2>1. ~ReleasesAll
    BY DEF ReleasesAll
  <2> QED
    BY <2>1, Zenon DEF PlayerInv, Quiet
<1> QED
  BY <1>1, PlayerInvariance, PTL

\* What the player shows is what it renders, and its timer of failed opens runs
\* only while the last open has failed.
THEOREM StateIsTrue == Player!Spec => []StateTrue
<1>1. PlayerInv => StateTrue
  <2> SUFFICES ASSUME PlayerInv, pWorker = "running", pPosted = <<>>, ~pTexture, pVideo # Player!NoVideo
               PROVE  pShown = pVideo.id
    BY Zenon DEF StateTrue, Player!TimeoutTrue, Player!PlayingVisible, PlayerInv, Player!CaughtUp
  <2>1. ~Releasing
    BY DEF Releasing
  <2> QED
    BY <2>1, Zenon DEF PlayerInv, RendererAnnounced
<1> QED
  BY <1>1, PlayerInvariance, PTL
-----------------------------------------------------------------------------
(* The planes of a CUDA picture. *)

Copy == <<"copy", cFrame>>
Callback == <<"callback", cFrame>>

\* The stream of plane p while frame is the last one: the copy, the copy and
\* its callback, the callback, or nothing.
StreamOf(p) ==
    /\ cStream[p] \in {<<>>, <<Copy>>, <<Copy, Callback>>, <<Callback>>}
    /\ cStream[p] \in {<<>>, <<Callback>>} => cTexture[p] = cFrame
    /\ cCopySucced[p] => cStream[p] = <<>>

\* Where nothing is under way, where no flag is set, and the planes that wait
\* for their callback to be added.
Settled == {"made", "unusable", "idle", "reset", "draw", "gone"}
Cleared == {"made", "unusable", "idle", "draw", "gone", "callbackY"}
Adding(p) == cPc = "callbackY" \/ (cPc = "callbackUV" /\ p = "UV")

CudaTypes ==
    /\ cFrame \in Nat
    /\ cStream = [p \in Cuda!Planes |-> cStream[p]]
    /\ cCopySucced \in [Cuda!Planes -> BOOLEAN]
    /\ cTexture \in [Cuda!Planes -> Nat]

\* The inductive invariant.
CudaInv ==
    /\ CudaTypes
    /\ \A p \in Cuda!Planes :
         /\ StreamOf(p)
         /\ cPc \in Settled => cStream[p] = <<>>
         /\ cPc \in Cleared => ~cCopySucced[p]
         /\ Adding(p) => ~cCopySucced[p] /\ cStream[p] \in {<<>>, <<Copy>>}

\* Sequences that agree everywhere are equal.
LEMMA SeqEqual ==
    ASSUME NEW S, NEW s \in Seq(S), NEW u \in Seq(S), Len(s) = Len(u),
           \A i \in 1 .. Len(s) : s[i] = u[i]
    PROVE  s = u
OBVIOUS

\* What a stream holds once something is queued on an empty one, and on one
\* with a single entry.
LEMMA Queued ==
    ASSUME NEW x, NEW y
    PROVE  Append(<<>>, x) = <<x>> /\ Append(<<x>>, y) = <<x, y>>
<1>1. Append(<<>>, x) = <<x>>
    OBVIOUS
<1>2. /\ <<x, y>> \in Seq({x, y}) /\ Append(<<x>>, y) \in Seq({x, y})
      /\ Len(Append(<<x>>, y)) = 2 /\ Len(<<x, y>>) = 2
    OBVIOUS
<1>3. \A i \in 1 .. 2 : Append(<<x>>, y)[i] = <<x, y>>[i]
    OBVIOUS
<1>. QED
    BY <1>1, <1>2, <1>3, SeqEqual, Zenon

\* What is left once the first of at most two entries has been carried out.
LEMMA Carried ==
    ASSUME NEW x, NEW y
    PROVE  /\ Head(<<x>>) = x /\ Tail(<<x>>) = <<>>
           /\ Head(<<x, y>>) = x /\ Tail(<<x, y>>) = <<y>>
OBVIOUS

\* Initially the streams are empty and no flag is set.
LEMMA CudaInit == Cuda!Init => CudaInv
BY SMTT(60) DEF Cuda!Init, CudaInv, CudaTypes, StreamOf, Settled, Cleared, Adding, Copy, Callback,
   Cuda!Planes

\* Every step of the render thread and of the streams keeps the invariant.
LEMMA CudaStep == CudaInv /\ [Cuda!Next]_cVars => CudaInv'
<1> SUFFICES ASSUME CudaInv, [Cuda!Next]_cVars PROVE CudaInv'
    OBVIOUS
<1>0. /\ Copy[1] = "copy" /\ Copy[2] = cFrame
      /\ Callback[1] = "callback"
    BY Zenon DEF Copy, Callback
<1> USE DEF CudaInv, CudaTypes, StreamOf, Settled, Cleared, Adding
<1>1. CASE UNCHANGED cVars
    BY <1>1, Zenon DEF cVars, Copy, Callback
<1>2. CASE Cuda!initInteropsResource
    BY <1>2, Zenon DEF Cuda!initInteropsResource, Copy, Callback
<1>3. CASE Cuda!renderFrame
    <2>1. \A p \in Cuda!Planes : cStream[p] = <<>> /\ ~cCopySucced[p]
        BY <1>3, Zenon DEF Cuda!renderFrame
    <2>2. \A p \in Cuda!Planes : cStream'[p] = <<Copy'>>
        <3>1. Append(<<>>, Copy') = <<Copy'>>
            BY Queued, Zenon
        <3>. QED
            BY <1>3, <2>1, <3>1, Zenon DEF Cuda!renderFrame, Copy
    <2>3. CudaTypes'
        BY <1>3 DEF Cuda!renderFrame
    <2>4. UNCHANGED cCopySucced /\ cPc' = "callbackY"
        BY <1>3, Zenon DEF Cuda!renderFrame
    <2>5. <<Copy'>> # <<>> /\ <<Copy'>> # <<Callback'>>
        BY Zenon DEF Copy, Callback
    <2>. QED
        BY <2>1, <2>2, <2>3, <2>4, <2>5, Zenon
<1>4. CASE Cuda!destruct
    BY <1>4, Zenon DEF Cuda!destruct, Copy, Callback
<1>5. ASSUME NEW p \in Cuda!Planes, NEW here, NEW next, Cuda!addCallback(p, here, next),
             \/ p = "Y" /\ here = "callbackY" /\ next = "callbackUV"
             \/ p = "UV" /\ here = "callbackUV" /\ next = "test"
      PROVE  CudaInv'
    <2>1. ~cCopySucced[p] /\ cStream[p] \in {<<>>, <<Copy>>}
        BY <1>5, Zenon DEF Cuda!addCallback
    <2>2. UNCHANGED <<cFrame, cCopySucced, cTexture, Copy, Callback>>
        BY <1>5, Zenon DEF Cuda!addCallback, Copy, Callback
    <2>3. cStream'[p] \in {cStream[p], Append(cStream[p], Callback)}
        BY <1>5, Zenon DEF Cuda!addCallback, Callback
    <2>4. /\ Append(<<>>, Callback) = <<Callback>>
          /\ Append(<<Copy>>, Callback) = <<Copy, Callback>>
        BY Queued, Zenon
    <2>5. /\ <<Copy>> # <<>> /\ <<Copy, Callback>> # <<>>
          /\ <<Copy>> # <<Callback>> /\ <<Copy, Callback>> # <<Callback>>
        BY <1>0, Zenon
    <2>6. /\ cStream'[p] \in {<<>>, <<Copy>>, <<Callback>>, <<Copy, Callback>>}
          /\ cStream'[p] \in {<<>>, <<Callback>>} => cStream[p] = <<>>
        BY <2>1, <2>3, <2>4, <2>5, Zenon
    <2>7. \A q \in Cuda!Planes \ {p} : cStream'[q] = cStream[q]
        BY <1>5, Zenon DEF Cuda!addCallback
    <2>8. CudaTypes'
        BY <1>5, Zenon DEF Cuda!addCallback
    <2>9. cPc = here /\ cPc' = next
        BY <1>5, Zenon DEF Cuda!addCallback
    <2>10. /\ cPc' \notin Settled /\ cPc' \notin Cleared /\ ~Adding(p)'
           /\ \A q \in Cuda!Planes \ {p} : Adding(q)' => Adding(q)
        BY <1>5, <2>9, Zenon
    <2>11. ASSUME NEW q \in Cuda!Planes
           PROVE  /\ StreamOf(q)'
                  /\ Adding(q)' => ~cCopySucced'[q] /\ cStream'[q] \in {<<>>, <<Copy>>}
        <3>1. CASE q = p
            BY <2>1, <2>2, <2>6, <2>10, <3>1, ZenonT(60)
        <3>2. CASE q # p
            BY <2>2, <2>7, <2>10, <3>2, ZenonT(60)
        <3>. QED
            BY <3>1, <3>2, Zenon
    <2>. QED
        BY <2>2, <2>8, <2>10, <2>11, ZenonT(60)
<1>6. CASE Cuda!testCopies
    BY <1>6, Zenon DEF Cuda!testCopies, Cuda!copied, Copy, Callback
<1>7. CASE Cuda!resetFlags
    BY <1>7, Zenon DEF Cuda!resetFlags, Copy, Callback
<1>8. CASE Cuda!drawFrame
    BY <1>8, Zenon DEF Cuda!drawFrame, Copy, Callback
<1>9. ASSUME NEW p \in Cuda!Planes, Cuda!copyDone(p) PROVE CudaInv'
    <2>1. UNCHANGED <<cPc, cFrame, cCopySucced, Copy, Callback>> /\ CudaTypes'
        <3>1. Head(cStream[p])[2] \in Nat
            BY <1>0, <1>9, Carried DEF Cuda!copyDone
        <3>. QED
            BY <1>9, <3>1, Zenon DEF Cuda!copyDone, Copy, Callback
    <2>2. cStream[p] # <<Callback>>
        BY <1>0, <1>9, Carried, Zenon DEF Cuda!copyDone
    <2>3. cStream[p] \in {<<Copy>>, <<Copy, Callback>>}
        BY <1>9, <2>2, Zenon DEF Cuda!copyDone
    <2>4. Head(cStream[p]) = Copy /\ Tail(cStream[p]) \in {<<>>, <<Callback>>}
        <3>1. CASE cStream[p] = <<Copy>>
            BY <3>1, Carried, Zenon
        <3>2. CASE cStream[p] = <<Copy, Callback>>
            <4>1. Head(<<Copy, Callback>>) = Copy /\ Tail(<<Copy, Callback>>) = <<Callback>>
                BY Carried, Zenon
            <4>. QED
                BY <3>2, <4>1, Zenon
        <3>. QED
            BY <2>3, <3>1, <3>2, Zenon
    <2>5. cStream[p] = <<Copy>> => Tail(cStream[p]) = <<>>
        BY Carried, Zenon
    <2>6. cStream'[p] = Tail(cStream[p]) /\ cTexture'[p] = cFrame
        BY <1>0, <1>9, <2>4, Zenon DEF Cuda!copyDone
    <2>7. \A q \in Cuda!Planes \ {p} : cStream'[q] = cStream[q] /\ cTexture'[q] = cTexture[q]
        BY <1>9, Zenon DEF Cuda!copyDone
    <2>8. cStream[p] # <<>>
        BY <1>9, Zenon DEF Cuda!copyDone
    <2>. QED
        BY <2>1, <2>3, <2>4, <2>5, <2>6, <2>7, <2>8, ZenonT(60)
<1>10. ASSUME NEW p \in Cuda!Planes, Cuda!callback(p) PROVE CudaInv'
    <2>1. UNCHANGED <<cFrame, cTexture, Copy, Callback>> /\ CudaTypes'
        BY <1>10, Zenon DEF Cuda!callback, Copy, Callback
    <2>2. cStream[p] # <<Copy>> /\ cStream[p] # <<Copy, Callback>>
        BY <1>0, <1>10, Carried, Zenon DEF Cuda!callback
    <2>3. cStream[p] = <<Callback>> /\ cStream[p] # <<>>
        BY <1>10, <2>2, Zenon DEF Cuda!callback
    <2>4. cStream'[p] = <<>> /\ cCopySucced'[p]
        BY <1>10, <2>3, Carried, Zenon DEF Cuda!callback
    <2>5. \A q \in Cuda!Planes \ {p} :
            cStream'[q] = cStream[q] /\ cCopySucced'[q] = cCopySucced[q]
        BY <1>10, Zenon DEF Cuda!callback
    <2>6. cStream[p] # <<Copy>>
        BY <2>2, Zenon
    <2>7. cPc' = IF cPc = "blocked" THEN "test" ELSE cPc
        BY <1>10, Zenon DEF Cuda!callback
    <2>. QED
        BY <2>1, <2>3, <2>4, <2>5, <2>6, <2>7, Zenon
<1>. QED
    BY <1>1, <1>2, <1>3, <1>4, <1>5, <1>6, <1>7, <1>8, <1>9, <1>10, Zenon
       DEF Cuda!Next, Cuda!RenderThread, Cuda!Stream, Cuda!Planes

\* A renderer draws whole frames: whatever the pace of the two streams, and
\* whether or not the driver takes every callback, both textures hold the
\* frame that is drawn and nothing of it is left in a stream.
THEOREM PlanesWhole == Cuda!Spec => []WholeFrame
<1>1. CudaInv => WholeFrame
    BY Zenon DEF CudaInv, WholeFrame, Cuda!WholeFrame, StreamOf, Settled
<1>. QED
    BY CudaInit, CudaStep, <1>1, PTL DEF Cuda!Spec, Cuda!vars, cVars

-----------------------------------------------------------------------------
(* The worker of a stream. *)

\* Slot x is in a queue, and at most once.
In(x, q) == \E i \in 1 .. Len(q) : q[i] = x
Once(x, q) == \A i, j \in 1 .. Len(q) : q[i] = x /\ q[j] = x => i = j

\* The events that are posted to the UI thread.
Slots == {"openResult", "aboutToDelete", "recording", "finished"}

\* W has a task in hand exactly while D is to carry it out.
Hands ==
    /\ wUq \in Seq(Slots)
    /\ wDoing # "none" <=> wWpc = "emit"
    /\ wDpc \in {"starting", "closing"} => wDoing = "close"
    /\ wDpc = "pausing" => wDoing = "pause"
    /\ ~wDecoder => wQuit

\* W is started once, by the one answer to the opening.
Starts ==
    /\ wOpenpc \in {"idle", "opening"} => wWpc = "none" /\ ~In("openResult", wUq)
    /\ In("openResult", wUq) => wWpc = "none"
    /\ Once("openResult", wUq)

\* A close is asked for, in hand, left to S, announced to the UI thread or
\* carried out: one of these at a time, as only one is ever asked for.
Asked == wTask = "close"
InHand == wDoing = "close"
Left == wSpc # "off"
Announced == In("aboutToDelete", wUq)

OneClose ==
    /\ Once("aboutToDelete", wUq)
    /\ wPreparing \/ ~(Asked \/ InHand \/ Left \/ Announced \/ wQuit)
    /\ Asked => ~(InHand \/ Left \/ Announced \/ wQuit)
    /\ InHand => ~(Left \/ Announced \/ wQuit)
    /\ Left => ~(Announced \/ wQuit)
    /\ Announced => ~wQuit

\* The inductive invariant: unless the application closes twice, the UI thread
\* finds its StreamDecoder.
WorkerInv == Hands /\ Starts /\ (wOdd # "closedTwice" => OneClose /\ ~wNulled)

\* What is left of a queue of slots when the first is run.
LEMMA TakeSlot ==
    ASSUME NEW q \in Seq(Slots), q # <<>>
    PROVE  /\ Tail(q) \in Seq(Slots) /\ In(Head(q), q)
           /\ \A x : In(x, Tail(q)) => In(x, q)
           /\ \A x : Once(x, q) => Once(x, Tail(q)) /\ (Head(q) = x => ~In(x, Tail(q)))
<1>1. /\ Tail(q) \in Seq(Slots) /\ Len(q) \in Nat /\ Len(q) > 0
      /\ Head(q) = q[1] /\ Len(Tail(q)) = Len(q) - 1
    OBVIOUS
<1>2. \A i \in 1 .. Len(Tail(q)) : Tail(q)[i] = q[i + 1] /\ i + 1 \in 1 .. Len(q) /\ i + 1 # 1
    BY <1>1
<1>3. In(Head(q), q)
    BY <1>1 DEF In
<1>4. ASSUME NEW x, In(x, Tail(q)) PROVE In(x, q)
    BY <1>2, <1>4, Zenon DEF In
<1>5. ASSUME NEW x, Once(x, q)
      PROVE  Once(x, Tail(q)) /\ (Head(q) = x => ~In(x, Tail(q)))
  <2>1. ASSUME NEW i \in 1 .. Len(Tail(q)), NEW j \in 1 .. Len(Tail(q)),
               Tail(q)[i] = x, Tail(q)[j] = x
        PROVE  i = j
    <3>1. i + 1 = j + 1
        BY <1>2, <1>5, <2>1, Zenon DEF Once
    <3> QED BY <3>1
  <2>2. ASSUME Head(q) = x, NEW i \in 1 .. Len(Tail(q)), Tail(q)[i] = x PROVE FALSE
    <3>1. q[1] = x /\ q[i + 1] = x /\ 1 \in 1 .. Len(q)
        BY <1>1, <1>2, <2>2
    <3> QED BY <1>2, <1>5, <3>1, Zenon DEF Once
  <2> QED BY <2>1, <2>2, Zenon DEF Once, In
<1> QED BY <1>1, <1>3, <1>4, <1>5, Zenon

\* A slot is posted.
LEMMA AddSlot ==
    ASSUME NEW q \in Seq(Slots), NEW y \in Slots
    PROVE  /\ Append(q, y) \in Seq(Slots)
           /\ \A x : In(x, Append(q, y)) <=> In(x, q) \/ x = y
           /\ \A x : Once(x, q) /\ (x = y => ~In(x, q)) => Once(x, Append(q, y))
<1>1. /\ Append(q, y) \in Seq(Slots) /\ Len(q) \in Nat /\ Len(Append(q, y)) = Len(q) + 1
      /\ Append(q, y)[Len(q) + 1] = y /\ Len(q) + 1 \in 1 .. Len(q) + 1
    OBVIOUS
<1>2. \A i \in 1 .. Len(q) : i \in 1 .. Len(q) + 1 /\ Append(q, y)[i] = q[i]
    BY <1>1
<1>3. \A i \in 1 .. Len(q) + 1 : i \in 1 .. Len(q) \/ i = Len(q) + 1
    BY <1>1
<1>4. ASSUME NEW x PROVE In(x, Append(q, y)) <=> In(x, q) \/ x = y
    BY <1>1, <1>2, <1>3, Zenon DEF In
<1>5. ASSUME NEW x, Once(x, q), x = y => ~In(x, q) PROVE Once(x, Append(q, y))
    BY <1>1, <1>2, <1>3, <1>5, Zenon DEF Once, In
<1> QED BY <1>1, <1>4, <1>5, Zenon

\* There is no event, no task and no W thread yet.
LEMMA WorkerInit == Worker!Init => WorkerInv
<1> SUFFICES ASSUME Worker!Init PROVE WorkerInv
    OBVIOUS
<1>1. wUq = <<>> /\ Len(wUq) = 0 /\ wUq \in Seq(Slots)
    BY DEF Worker!Init
<1>2. \A x : ~In(x, wUq) /\ Once(x, wUq)
    BY <1>1, SMTT(60) DEF In, Once
<1> QED BY <1>1, <1>2, Zenon DEF Worker!Init, WorkerInv, Hands, Starts, OneClose, Asked, InHand, Left,
   Announced

\* One step per operation of the six threads.
LEMMA WorkerStep == WorkerInv /\ [Worker!Next]_wVars => WorkerInv'
<1> SUFFICES ASSUME WorkerInv, [Worker!Next]_wVars PROVE WorkerInv'
    OBVIOUS
<1> USE DEF WorkerInv, Hands, Starts, OneClose, Asked, InHand, Left, Announced
<1> USE DEF Worker!worker, Worker!ui, Worker!sdk, Worker!events, Worker!deleter, Worker!life,
   Worker!env
<1>1. CASE UNCHANGED wVars
    BY <1>1, Zenon DEF wVars
<1>2. CASE Worker!appendTask
    BY <1>2, Zenon DEF Worker!appendTask, Worker!Accept
<1>3. CASE Worker!appendClose
    BY <1>3, Zenon DEF Worker!appendClose, Worker!Accept
<1>4. CASE Worker!onOpenResult
  <2>1. wUq # <<>> /\ wUq' = Tail(wUq) /\ Head(wUq) = "openResult"
    BY <1>4, Zenon DEF Worker!onOpenResult
  <2>2. /\ wUq' \in Seq(Slots)
        /\ \A x : In(x, wUq') => In(x, wUq)
        /\ \A x : Once(x, wUq) => Once(x, wUq') /\ (Head(wUq) = x => ~In(x, wUq'))
        /\ In(Head(wUq), wUq)
    BY <2>1, TakeSlot, Zenon
  <2> QED BY <1>4, <2>1, <2>2, Zenon DEF Worker!onOpenResult
<1>5. CASE Worker!onAboutToDelete
  <2>1. wUq # <<>> /\ wUq' = Tail(wUq) /\ Head(wUq) = "aboutToDelete"
    BY <1>5, Zenon DEF Worker!onAboutToDelete
  <2>2. /\ wUq' \in Seq(Slots)
        /\ \A x : In(x, wUq') => In(x, wUq)
        /\ \A x : Once(x, wUq) => Once(x, wUq') /\ (Head(wUq) = x => ~In(x, wUq'))
        /\ In(Head(wUq), wUq)
    BY <2>1, TakeSlot, Zenon
  <2> QED BY <1>5, <2>1, <2>2, ZenonT(60) DEF Worker!onAboutToDelete
<1>6. CASE Worker!threadWaited
    BY <1>6, Zenon DEF Worker!threadWaited
<1>7. CASE Worker!setRecordingStatus
  <2>1. wUq # <<>> /\ wUq' = Tail(wUq) /\ Head(wUq) = "recording"
    BY <1>7, Zenon DEF Worker!setRecordingStatus
  <2>2. /\ wUq' \in Seq(Slots)
        /\ \A x : In(x, wUq') => In(x, wUq)
        /\ \A x : Once(x, wUq) => Once(x, wUq') /\ (Head(wUq) = x => ~In(x, wUq'))
        /\ In(Head(wUq), wUq)
    BY <2>1, TakeSlot, Zenon
  <2> QED BY <1>7, <2>1, <2>2, Zenon DEF Worker!setRecordingStatus
<1>8. CASE Worker!destructor
    BY <1>8, Zenon DEF Worker!destructor
<1>9. CASE Worker!workerWaited
    BY <1>9, Zenon DEF Worker!workerWaited
<1>10. CASE Worker!run
    BY <1>10, Zenon DEF Worker!run
<1>11. CASE Worker!runSleeps
    BY <1>11, Zenon DEF Worker!runSleeps
<1>12. CASE Worker!openAsync
    BY <1>12, Zenon DEF Worker!openAsync
<1>13. CASE Worker!pause
    BY <1>13, Zenon DEF Worker!pause
<1>14. CASE Worker!pauseWaited
    BY <1>14, Zenon DEF Worker!pauseWaited, Worker!Release
<1>15. CASE Worker!resume
    BY <1>15, Zenon DEF Worker!resume, Worker!Release
<1>16. CASE Worker!safeDelete
    BY <1>16, Zenon DEF Worker!safeDelete
<1>17. CASE Worker!startDeleter
    BY <1>17, Zenon DEF Worker!startDeleter, Worker!Release
<1>18. CASE Worker!closeInD
  <2>1. wUq' = Append(wUq, "aboutToDelete") /\ wUq \in Seq(Slots) /\ "aboutToDelete" \in Slots
    BY <1>18, Zenon DEF Worker!closeInD, Worker!Release, Worker!close, Slots
  <2>2. /\ wUq' \in Seq(Slots)
        /\ \A x : In(x, wUq') <=> In(x, wUq) \/ x = "aboutToDelete"
        /\ \A x : Once(x, wUq) /\ (x = "aboutToDelete" => ~In(x, wUq)) => Once(x, wUq')
    BY <2>1, AddSlot, Zenon
  <2> QED BY <1>18, <2>2, Zenon DEF Worker!closeInD, Worker!Release, Worker!close
<1>19. CASE Worker!record
    BY <1>19, Zenon DEF Worker!record
<1>20. CASE Worker!threadFinishes
  <2>1. wUq' = Append(wUq, "finished") /\ wUq \in Seq(Slots) /\ "finished" \in Slots
    BY <1>20, Zenon DEF Worker!threadFinishes, Slots
  <2>2. /\ wUq' \in Seq(Slots)
        /\ \A x : In(x, wUq') <=> In(x, wUq) \/ x = "finished"
        /\ \A x : Once(x, wUq) /\ (x = "finished" => ~In(x, wUq)) => Once(x, wUq')
    BY <2>1, AddSlot, Zenon
  <2> QED BY <1>20, <2>2, Zenon DEF Worker!threadFinishes
<1>21. CASE Worker!SafeDeleteThread_run
    BY <1>21, Zenon DEF Worker!SafeDeleteThread_run
<1>22. CASE Worker!closeInS
  <2>1. wUq' = Append(wUq, "aboutToDelete") /\ wUq \in Seq(Slots) /\ "aboutToDelete" \in Slots
    BY <1>22, Zenon DEF Worker!closeInS, Worker!close, Slots
  <2>2. /\ wUq' \in Seq(Slots)
        /\ \A x : In(x, wUq') <=> In(x, wUq) \/ x = "aboutToDelete"
        /\ \A x : Once(x, wUq) /\ (x = "aboutToDelete" => ~In(x, wUq)) => Once(x, wUq')
    BY <2>1, AddSlot, Zenon
  <2> QED BY <1>22, <2>2, Zenon DEF Worker!closeInS, Worker!close
<1>23. CASE Worker!DecoderThread_run
    BY <1>23, Zenon DEF Worker!DecoderThread_run
<1>24. CASE Worker!streamEventCallback
    BY <1>24, Zenon DEF Worker!streamEventCallback, Worker!Ends
<1>25. CASE Worker!recordingStatusChanged
  <2>1. wUq' = Append(wUq, "recording") /\ wUq \in Seq(Slots) /\ "recording" \in Slots
    BY <1>25, Zenon DEF Worker!recordingStatusChanged, Slots
  <2>2. /\ wUq' \in Seq(Slots)
        /\ \A x : In(x, wUq') <=> In(x, wUq) \/ x = "recording"
        /\ \A x : Once(x, wUq) /\ (x = "recording" => ~In(x, wUq)) => Once(x, wUq')
    BY <2>1, AddSlot, Zenon
  <2> QED BY <1>25, <2>2, Zenon DEF Worker!recordingStatusChanged
<1>26. CASE Worker!recordingAnswered
    BY <1>26, Zenon DEF Worker!recordingAnswered, Worker!Ends
<1>27. CASE Worker!openCallback
  <2>1. wUq' = Append(wUq, "openResult") /\ wUq \in Seq(Slots) /\ "openResult" \in Slots
    BY <1>27, Zenon DEF Worker!openCallback, Slots
  <2>2. /\ wUq' \in Seq(Slots)
        /\ \A x : In(x, wUq') <=> In(x, wUq) \/ x = "openResult"
        /\ \A x : Once(x, wUq) /\ (x = "openResult" => ~In(x, wUq)) => Once(x, wUq')
    BY <2>1, AddSlot, Zenon
  <2> QED BY <1>27, <2>2, Zenon DEF Worker!openCallback
<1>28. CASE Worker!startDecode
    BY <1>28, Zenon DEF Worker!startDecode
<1>29. CASE Worker!decodeFirstFrame
    BY <1>29, Zenon DEF Worker!decodeFirstFrame
<1>30. CASE Worker!reconnect
    BY <1>30, Zenon DEF Worker!reconnect
<1>31. CASE Worker!reconnected
    BY <1>31, Zenon DEF Worker!reconnected
<1> QED BY ZenonT(60), <1>1, <1>2, <1>3, <1>4, <1>5, <1>6, <1>7, <1>8, <1>9, <1>10, <1>11, <1>12, <1>13,
   <1>14, <1>15, <1>16, <1>17, <1>18, <1>19, <1>20, <1>21, <1>22, <1>23, <1>24, <1>25, <1>26,
      <1>27, <1>28, <1>29, <1>30, <1>31
    DEF Worker!Next, Worker!UiStep, Worker!DStep, Worker!EStep, Worker!SdkStep, Worker!runStep,
       Worker!deleteStep

\* However the tasks, closes, reconnects and recordings of a stream interleave
\* in the worker's threads, the UI thread does not use a StreamDecoder that
\* safeDelete has destroyed, unless the application closes twice.
THEOREM NotDestroyed == Worker!Spec => []DecoderAlive
<1>1. WorkerInv => DecoderAlive
    BY Zenon DEF WorkerInv, DecoderAlive, Worker!DecoderAlive
<1> QED BY <1>1, WorkerInit, WorkerStep, PTL DEF Worker!Spec, Worker!vars, wVars
=============================================================================
