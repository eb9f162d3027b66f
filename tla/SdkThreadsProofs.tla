-------------------------- MODULE SdkThreadsProofs --------------------------
(***************************************************************************)
(* OneThread of Reconnect, and CancelSettles, OutcomeIsTrue,               *)
(* ClosedStaysClosed and EventsInOrder of MCSdkThreads, for any number of  *)
(* attempts, errors, streams, threads and events.                          *)
(*                                                                         *)
(* OneThread is inductive only together with who holds mutex_ at which     *)
(* step and with the fact that the handle which stopReconnect joins        *)
(* without mutex_ stays joinable until that join returns.                  *)
(*                                                                         *)
(* The properties of openAsync need what the task knows at each of its     *)
(* steps: until it opens, the stream is the one from before; a failure at  *)
(* its last look at the flag is a closed stream, or the flag was raised    *)
(* before it opened anything and is still raised; and from then on its     *)
(* result describes the stream, which nobody else touches while the task   *)
(* lives.                                                                  *)
(*                                                                         *)
(* EventsInOrder needs the order of all that still waits: an event that is *)
(* heard is older than the rest of the loop's batch, and that is older     *)
(* than the queue.                                                         *)
(***************************************************************************)
EXTENDS MCSdkThreads, TLAPS

-----------------------------------------------------------------------------
(* The event dispatcher. *)

\* The events of one thread that wait, in a queue q and behind those of a batch b.
Increasing(q) ==
    \A i, j \in 1 .. Len(q) : i < j /\ q[i][1] = q[j][1] => q[i][2] < q[j][2]
Before(b, q) ==
    \A i \in 1 .. Len(b), j \in 1 .. Len(q) : b[i][1] = q[j][1] => b[i][2] < q[j][2]

\* What waits has been triggered and is not older than what was heard last; the
\* thread that made the dispatcher queues nothing.
Waiting(q) ==
    \A i \in 1 .. Len(q) :
        q[i][1] # Main /\ vLast[q[i][1]] <= q[i][2] /\ q[i][2] <= vSent[q[i][1]]

\* Events are a thread and a number of it.
DispatcherTypes ==
    /\ vSent \in [Threads -> Nat] /\ vLast \in [Threads -> Nat]
    /\ vQueue \in Seq(Threads \X Nat)
    /\ vBatch \in [{"loop", "user"} -> Seq(Threads \X Nat)]

\* Only the loop has a batch, and only while it processes.
OneBatch ==
    /\ ~vManual => vBatch["user"] = <<>>
    /\ vLoop # "process" => vBatch["loop"] = <<>>

\* Without manual processing, the events of a thread stand in the order in which
\* it triggered them: what was heard, the loop's batch, the queue.
Order ==
    ~vManual => /\ \A t \in Threads : vLast[t] <= vSent[t]
                /\ Increasing(vBatch["loop"]) /\ Increasing(vQueue)
                /\ Before(vBatch["loop"], vQueue)
                /\ Waiting(vBatch["loop"]) /\ Waiting(vQueue)

\* The loop's thread is there from the start to the join.
Life ==
    /\ vLoop \in {"none", "test", "wait", "process", "ended"}
    /\ vUser \in {"idle", "starting", "joining"}
    /\ (vUser = "idle" /\ ~vActive) \/ vUser = "starting" => vLoop \in {"none", "ended"}
    /\ vUser = "starting" => vActive

\* The inductive invariant.
DispatcherInv == DispatcherTypes /\ OneBatch /\ Order /\ Life

\* What is left of a queue whose first event is taken stays in order, behind it.
LEMMA TakeFirst ==
    ASSUME NEW q \in Seq(Threads \X Nat), q # <<>>
    PROVE  /\ Tail(q) \in Seq(Threads \X Nat) /\ Head(q) = q[1] /\ Head(q) \in Threads \X Nat
           /\ Len(q) > 0 /\ Len(Tail(q)) = Len(q) - 1
           /\ \A i \in 1 .. Len(Tail(q)) : Tail(q)[i] = q[i + 1]
OBVIOUS

\* The queue with one more event.
LEMMA AddLast ==
    ASSUME NEW q \in Seq(Threads \X Nat), NEW e \in Threads \X Nat
    PROVE  /\ Append(q, e) \in Seq(Threads \X Nat) /\ Len(Append(q, e)) = Len(q) + 1
           /\ \A i \in 1 .. Len(q) : Append(q, e)[i] = q[i]
           /\ Append(q, e)[Len(q) + 1] = e
OBVIOUS

\* There is no event and no thread yet.
LEMMA DispatcherInit == Events!Init => DispatcherInv
<1> SUFFICES ASSUME Events!Init PROVE DispatcherInv
    OBVIOUS
<1>1. vBatch["loop"] = <<>> /\ vBatch["user"] = <<>> /\ vQueue = <<>>
    BY DEF Events!Init
<1>2. DispatcherTypes
    BY DEF Events!Init, DispatcherTypes
<1>3. OneBatch /\ Life
    BY <1>1 DEF Events!Init, OneBatch, Life
<1>4. Order
  <2>1. ASSUME NEW t \in Threads PROVE vLast[t] <= vSent[t]
    BY DEF Events!Init
  <2>2. Len(vQueue) = 0 /\ Len(vBatch["loop"]) = 0
    BY <1>1
  <2> QED BY <2>1, <2>2 DEF Order, Increasing, Before, Waiting
<1> QED BY <1>2, <1>3, <1>4 DEF DispatcherInv

\* An event of the dispatcher's thread is heard at once, one of another thread
\* goes to the end of the queue.
LEMMA TriggerInv ==
    ASSUME DispatcherInv, NEW t \in Threads, Events!triggerEvent(t)
    PROVE  DispatcherInv' /\ Events!InOrder
<1> DEFINE e == <<t, vSent[t] + 1>>
<1> USE DEF DispatcherInv
<1>1. e \in Threads \X Nat /\ e[1] = t /\ e[2] = vSent[t] + 1 /\ vSent[t] \in Nat
    BY DEF DispatcherTypes
<1>2. /\ UNCHANGED <<vBatch, vActive, vStop, vLoop, vUser, vListening, vManual>>
      /\ vSent' \in [Threads -> Nat] /\ vSent'[t] = vSent[t] + 1
      /\ \A u \in Threads : u # t => vSent'[u] = vSent[u]
    BY DEF Events!triggerEvent, DispatcherTypes
<1>3. OneBatch' /\ Life'
    BY <1>2 DEF OneBatch, Life
<1>4. CASE t = Main
  <2>1. /\ UNCHANGED vQueue
        /\ vLast' = IF vListening THEN [vLast EXCEPT ![t] = vSent[t] + 1] ELSE vLast
    BY <1>1, <1>4 DEF Events!triggerEvent, Events!isMainThread, Events!Hear
  <2>2. vLast' \in [Threads -> Nat] /\ \A u \in Threads : u # t => vLast'[u] = vLast[u]
    BY <2>1, <1>1 DEF DispatcherTypes
  <2>3. vLast'[t] \in {vLast[t], vSent[t] + 1}
    BY <2>1, <1>1 DEF DispatcherTypes
  <2>4. DispatcherTypes'
    BY <1>2, <2>1, <2>2 DEF DispatcherTypes
  <2>5. Order' /\ Events!InOrder
    <3> SUFFICES ASSUME ~vManual PROVE Order' /\ Events!InOrder
        BY <1>2 DEF Order, Events!InOrder
    <3>1. ASSUME NEW u \in Threads PROVE vLast'[u] >= vLast[u] /\ vLast'[u] <= vSent'[u]
      <4>1. vLast[u] \in Nat /\ vSent[u] \in Nat /\ vLast[u] <= vSent[u]
        BY DEF Order, DispatcherTypes
      <4> QED BY <1>1, <1>2, <2>2, <2>3, <4>1
    <3>2. ASSUME NEW q \in Seq(Threads \X Nat), Waiting(q),
                 \A i \in 1 .. Len(q) : q[i][1] # Main
          PROVE  \A i \in 1 .. Len(q) :
                    q[i][1] # Main /\ vLast'[q[i][1]] <= q[i][2] /\ q[i][2] <= vSent'[q[i][1]]
      <4> TAKE i \in 1 .. Len(q)
      <4>1. q[i] \in Threads \X Nat
        OBVIOUS
      <4>2. q[i][1] \in Threads /\ q[i][1] # t
        BY <1>4, <3>2, <4>1
      <4> QED BY <1>2, <2>2, <3>2, <4>2, Zenon DEF Waiting
    <3>3. Waiting(vBatch["loop"])' /\ Waiting(vQueue)'
        BY <1>2, <2>1, <3>2, ZenonT(60) DEF Order, Waiting, DispatcherTypes
    <3> QED BY <1>2, <2>1, <3>1, <3>3 DEF Order, Increasing, Before, Events!InOrder
  <2> QED BY <1>3, <2>4, <2>5
<1>5. CASE t # Main
  <2>1. vQueue' = Append(vQueue, e) /\ UNCHANGED vLast
    BY <1>5 DEF Events!triggerEvent, Events!isMainThread
  <2>2. /\ vQueue' \in Seq(Threads \X Nat) /\ Len(vQueue') = Len(vQueue) + 1 /\
           Len(vQueue) \in Nat
        /\ \A i \in 1 .. Len(vQueue) : vQueue'[i] = vQueue[i] /\ vQueue[i] \in Threads \X Nat
        /\ vQueue'[Len(vQueue) + 1] = e
    BY <1>1, <2>1, AddLast DEF DispatcherTypes
  <2>3. DispatcherTypes'
    BY <1>2, <2>1, <2>2 DEF DispatcherTypes
  <2>4. Order' /\ Events!InOrder
    <3> SUFFICES ASSUME ~vManual PROVE Order' /\ Events!InOrder
        BY <1>2 DEF Order, Events!InOrder
    <3>1. ASSUME NEW u \in Threads
          PROVE  /\ vLast'[u] = vLast[u] /\ vLast[u] \in Nat /\ vSent[u] \in Nat /\
                    vSent'[u] \in Nat
                 /\ vSent[u] <= vSent'[u] /\ vLast[u] <= vSent[u]
      <4>1. vLast[u] \in Nat /\ vSent[u] \in Nat /\ vLast[u] <= vSent[u]
        BY DEF Order, DispatcherTypes
      <4> QED BY <1>2, <2>1, <4>1
    <3>2. vBatch["loop"] \in Seq(Threads \X Nat) /\ vBatch'["loop"] = vBatch["loop"]
        BY <1>2 DEF DispatcherTypes
    <3>3. Waiting(vBatch["loop"])'
      <4> SUFFICES ASSUME NEW i \in 1 .. Len(vBatch["loop"])
                   PROVE  LET q == vBatch["loop"] IN
                          q[i][1] # Main /\ vLast'[q[i][1]] <= q[i][2] /\
                             q[i][2] <= vSent'[q[i][1]]
        BY <3>2 DEF Waiting
      <4>1. vBatch["loop"][i][1] \in Threads /\ vBatch["loop"][i][2] \in Nat
        BY <3>2
      <4>2. LET q == vBatch["loop"] IN
            q[i][1] # Main /\ vLast[q[i][1]] <= q[i][2] /\ q[i][2] <= vSent[q[i][1]]
        BY DEF Order, Waiting
      <4> QED BY <4>1, <4>2, <3>1, SMTT(60)
    <3>4. Waiting(vQueue)'
      <4> SUFFICES ASSUME NEW i \in 1 .. Len(vQueue')
                   PROVE  /\ vQueue'[i][1] # Main /\ vLast'[vQueue'[i][1]] <= vQueue'[i][2]
                          /\ vQueue'[i][2] <= vSent'[vQueue'[i][1]]
        BY DEF Waiting
      <4>1. CASE i \in 1 .. Len(vQueue)
        <5>1. vQueue[i][1] \in Threads /\ vQueue[i][2] \in Nat /\ vQueue'[i] = vQueue[i]
            BY <4>1, <2>2
        <5>2. /\ vQueue[i][1] # Main /\ vLast[vQueue[i][1]] <= vQueue[i][2]
              /\ vQueue[i][2] <= vSent[vQueue[i][1]]
            BY <4>1 DEF Order, Waiting
        <5> QED BY <5>1, <5>2, <3>1, SMTT(60)
      <4>2. CASE i = Len(vQueue) + 1
        <5>1. vQueue'[i][1] = t /\ vQueue'[i][2] = vSent[t] + 1
            BY <4>2, <1>1, <2>2
        <5> QED BY <5>1, <1>2, <1>5, <3>1
      <4>3. i \in 1 .. Len(vQueue) \/ i = Len(vQueue) + 1
        BY <2>2
      <4> QED BY <4>1, <4>2, <4>3, Zenon
    <3>5. Increasing(vQueue)'
      <4> SUFFICES ASSUME NEW i \in 1 .. Len(vQueue'), NEW j \in 1 .. Len(vQueue'), i < j,
                          vQueue'[i][1] = vQueue'[j][1]
                   PROVE  vQueue'[i][2] < vQueue'[j][2]
        BY DEF Increasing
      <4>1. i \in 1 .. Len(vQueue)
        BY <2>2
      <4>2. CASE j \in 1 .. Len(vQueue)
        BY <4>1, <4>2, <2>2, Zenon DEF Order, Increasing
      <4>3. CASE j = Len(vQueue) + 1
        <5>1. vQueue'[j][1] = t /\ vQueue'[j][2] = vSent[t] + 1 /\ vQueue'[i] = vQueue[i]
            BY <4>1, <4>3, <1>1, <2>2
        <5>2. vQueue[i][2] \in Nat /\ vQueue[i][2] <= vSent[t]
            BY <4>1, <2>2, <5>1, SMTT(60) DEF Order, Waiting
        <5>3. vSent[t] \in Nat
            BY <1>1
        <5>4. vQueue[i][2] < vSent[t] + 1
            BY <5>2, <5>3
        <5> QED BY <5>1, <5>4
      <4>4. j \in 1 .. Len(vQueue) + 1 /\ Len(vQueue) \in Nat
        BY <2>2
      <4>5. j \in 1 .. Len(vQueue) \/ j = Len(vQueue) + 1
        BY <4>4
      <4> QED BY <4>2, <4>3, <4>5, Zenon
    <3>6. Before(vBatch["loop"], vQueue)'
      <4> SUFFICES ASSUME NEW i \in 1 .. Len(vBatch["loop"]), NEW j \in 1 .. Len(vQueue'),
                          vBatch["loop"][i][1] = vQueue'[j][1]
                   PROVE  vBatch["loop"][i][2] < vQueue'[j][2]
        BY <3>2 DEF Before
      <4>1. CASE j \in 1 .. Len(vQueue)
        BY <4>1, <2>2, Zenon DEF Order, Before
      <4>2. CASE j = Len(vQueue) + 1
        <5>1. vQueue'[j][1] = t /\ vQueue'[j][2] = vSent[t] + 1
            BY <4>2, <1>1, <2>2
        <5>2. vBatch["loop"][i][2] \in Nat /\ vBatch["loop"][i][2] <= vSent[t]
            BY <3>2, <5>1, SMTT(60) DEF Order, Waiting
        <5> QED BY <5>1, <5>2, <1>1
      <4>3. j \in 1 .. Len(vQueue) \/ j = Len(vQueue) + 1
        BY <2>2
      <4> QED BY <4>1, <4>2, <4>3, Zenon
    <3>7. ASSUME NEW u \in Threads PROVE vLast'[u] >= vLast[u] /\ vLast'[u] <= vSent'[u]
        BY <3>1
    <3> QED BY <3>2, <3>3, <3>4, <3>5, <3>6, <3>7 DEF Order, Increasing, Events!InOrder
  <2> QED BY <1>3, <2>3, <2>4
<1> QED BY <1>4, <1>5

\* Process() hands the first event of a batch on, with the rest of the batch or
\* without it: what is heard is older than all that still waits.
LEMMA DispatchOrder ==
    ASSUME DispatcherInv, NEW p \in {"loop", "user"}, Events!Dispatch(p), UNCHANGED <<vSent,
       vManual>>
    PROVE  DispatcherTypes' /\ Order' /\ Events!InOrder
<1> DEFINE b == vBatch[p]
           e == Head(b)
<1> USE DEF DispatcherInv
<1>1. b \in Seq(Threads \X Nat) /\ b # <<>>
    BY DEF DispatcherTypes, Events!Dispatch
<1>2. /\ Tail(b) \in Seq(Threads \X Nat) /\ e = b[1] /\ e \in Threads \X Nat
      /\ Len(b) > 0 /\ Len(Tail(b)) = Len(b) - 1 /\ Len(b) \in Nat
      /\ \A i \in 1 .. Len(Tail(b)) : Tail(b)[i] = b[i + 1]
    BY <1>1, TakeFirst
<1>3. /\ vQueue' = vQueue
      /\ vBatch' = [vBatch EXCEPT ![p] = Tail(b)] \/ vBatch' = [vBatch EXCEPT ![p] = <<>>]
      /\ vLast' = IF vListening THEN [vLast EXCEPT ![e[1]] = e[2]] ELSE vLast
    BY DEF Events!Dispatch, Events!Hear
<1> HIDE DEF e
<1>4. /\ vBatch' \in [{"loop", "user"} -> Seq(Threads \X Nat)]
      /\ vBatch'[p] \in {Tail(b), <<>>}
  <2>1. PICK q \in {Tail(b), <<>>} : vBatch' = [vBatch EXCEPT ![p] = q]
    BY <1>3, Zenon
  <2>2. q \in Seq(Threads \X Nat)
    <3>1. <<>> \in Seq(Threads \X Nat)
        OBVIOUS
    <3> QED BY <1>2, <3>1, Zenon
  <2> HIDE DEF b
  <2> QED BY <2>1, <2>2, SMTT(60) DEF DispatcherTypes
<1>5. e[1] \in Threads /\ e[2] \in Nat
    BY <1>2
<1>6. /\ vLast' \in [Threads -> Nat]
      /\ \A u \in Threads : vLast'[u] = vLast[u] \/ (u = e[1] /\ vLast'[u] = e[2])
  <2> HIDE DEF b
  <2>1. vLast \in [Threads -> Nat]
    BY DEF DispatcherTypes
  <2> QED BY <1>3, <1>5, <2>1
<1>7. DispatcherTypes'
    BY <1>3, <1>4, <1>6 DEF DispatcherTypes
<1>8. ASSUME ~vManual PROVE Order' /\ Events!InOrder
  <2>1. p = "loop" /\ Order
    BY <1>1, <1>8 DEF OneBatch
  <2>2. vLast[e[1]] <= e[2] /\ e[2] <= vSent[e[1]] /\ e[1] # Main
    BY <1>2, <1>8, <2>1 DEF Order, Waiting
  <2>3. ASSUME NEW u \in Threads PROVE vLast'[u] >= vLast[u] /\ vLast'[u] <= vSent'[u]
    <3>1. vLast[u] \in Nat /\ vLast'[u] \in Nat /\ vSent[u] \in Nat /\ vLast[u] <= vSent[u]
        BY <1>6, <1>8 DEF Order, DispatcherTypes
    <3> QED BY <1>6, <2>2, <3>1
  <2>4. ASSUME NEW q \in Seq(Threads \X Nat), Waiting(q),
               \A i \in 1 .. Len(q) : q[i][1] = e[1] => e[2] < q[i][2]
        PROVE  \A i \in 1 .. Len(q) :
                  q[i][1] # Main /\ vLast'[q[i][1]] <= q[i][2] /\ q[i][2] <= vSent[q[i][1]]
    <3> TAKE i \in 1 .. Len(q)
    <3>1. q[i][1] \in Threads /\ q[i][2] \in Nat
        OBVIOUS
    <3>2. q[i][1] # Main /\ vLast[q[i][1]] <= q[i][2] /\ q[i][2] <= vSent[q[i][1]]
        BY <2>4 DEF Waiting
    <3>3. q[i][1] = e[1] => e[2] < q[i][2]
        BY <2>4
    <3>4. vLast'[q[i][1]] = vLast[q[i][1]] \/ (q[i][1] = e[1] /\ vLast'[q[i][1]] = e[2])
        BY <1>6, <3>1, SMTT(60)
    <3> QED BY <1>5, <3>1, <3>2, <3>3, <3>4, SMTT(60)
  <2>5. Waiting(vQueue)'
    <3>1. ASSUME NEW i \in 1 .. Len(vQueue) PROVE vQueue[i][1] = e[1] => e[2] < vQueue[i][2]
      <4>1. 1 \in 1 .. Len(vBatch["loop"]) /\ vBatch["loop"][1] = e
        BY <1>2, <2>1
      <4>2. Before(vBatch["loop"], vQueue)
        BY <1>8, <2>1 DEF Order
      <4> QED BY <4>1, <4>2 DEF Before
    <3>2. vQueue \in Seq(Threads \X Nat) /\ Waiting(vQueue)
        BY <1>8 DEF Order, DispatcherTypes
    <3> QED BY <1>3, <2>4, <3>1, <3>2, SMTT(60) DEF Waiting
  <2>6. /\ Waiting(Tail(b)) /\ Increasing(Tail(b)) /\ Before(Tail(b), vQueue)
        /\ \A i \in 1 .. Len(Tail(b)) : Tail(b)[i][1] = e[1] => e[2] < Tail(b)[i][2]
    <3>1. Waiting(b) /\ Increasing(b) /\ Before(b, vQueue)
        BY <1>8, <2>1 DEF Order
    <3>2. \A i \in 1 .. Len(Tail(b)) : i + 1 \in 1 .. Len(b) /\ 1 < i + 1
        BY <1>2, SMTT(60)
    <3>3. Waiting(Tail(b))
        BY <1>2, <3>1, <3>2, SMTT(60) DEF Waiting
    <3>4. Increasing(Tail(b))
      <4> SUFFICES ASSUME NEW i \in 1 .. Len(Tail(b)), NEW j \in 1 .. Len(Tail(b)), i < j,
                          Tail(b)[i][1] = Tail(b)[j][1]
                   PROVE  Tail(b)[i][2] < Tail(b)[j][2]
        BY SMTT(60) DEF Increasing
      <4>1. Tail(b)[i] = b[i + 1] /\ Tail(b)[j] = b[j + 1]
        BY <1>2, Zenon
      <4>2. i + 1 < j + 1
        OBVIOUS
      <4> HIDE DEF b
      <4> QED BY <3>1, <3>2, <4>1, <4>2, SMTT(60) DEF Increasing
    <3>5. Before(Tail(b), vQueue)
        BY <1>2, <3>1, <3>2, ZenonT(60) DEF Before
    <3>6. \A i \in 1 .. Len(Tail(b)) : Tail(b)[i][1] = e[1] => e[2] < Tail(b)[i][2]
      <4> TAKE i \in 1 .. Len(Tail(b))
      <4>1. Tail(b)[i] = b[i + 1] /\ 1 \in 1 .. Len(b)
        BY <1>2
      <4> QED BY <1>2, <3>1, <3>2, <4>1 DEF Increasing
    <3> QED BY <3>3, <3>4, <3>5, <3>6, SMTT(60)
  <2>7. CASE vBatch'[p] = Tail(b)
    <3>1. Waiting(vBatch["loop"])'
        BY <1>2, <2>1, <2>4, <2>6, <2>7, ZenonT(60) DEF Waiting
    <3>2. Increasing(vBatch["loop"])' /\ Before(vBatch["loop"], vQueue)'
        BY <1>3, <2>1, <2>6, <2>7, ZenonT(60) DEF Increasing, Before
    <3>3. Increasing(vQueue)'
        BY <1>3, <1>8, <2>1, Zenon DEF Order, Increasing
    <3> QED BY <1>8, <2>3, <2>5, <3>1, <3>2, <3>3 DEF Order, Events!InOrder
  <2>8. CASE vBatch'[p] = <<>>
    <3>1. Len(vBatch'["loop"]) = 0
        BY <2>1, <2>8
    <3>2. \A i \in 1 .. Len(vBatch'["loop"]) : FALSE
        BY <3>1
    <3>3. Waiting(vBatch["loop"])' /\ Increasing(vBatch["loop"])'
        BY <3>2, Zenon DEF Waiting, Increasing
    <3>4. Before(vBatch["loop"], vQueue)'
        BY <3>2, Zenon DEF Before
    <3> QED BY <1>3, <1>8, <2>1, <2>3, <2>5, <3>3, <3>4 DEF Order, Increasing, Events!InOrder
  <2> QED BY <1>4, <2>7, <2>8, Zenon
<1>9. ASSUME vManual PROVE Order' /\ Events!InOrder
    BY <1>9 DEF Order, Events!InOrder
<1> QED BY <1>7, <1>8, <1>9, Zenon

\* The loop takes the queue over, which waits behind nothing then.
LEMMA SwapOrder ==
    ASSUME DispatcherInv, NEW p \in {"loop", "user"}, Events!Swap(p), p = "loop" \/ vManual,
           UNCHANGED <<vSent, vLast, vManual>>
    PROVE  DispatcherTypes' /\ Order' /\ Events!InOrder
<1> USE DEF DispatcherInv
<1>1. vQueue' = <<>> /\ vBatch' = [vBatch EXCEPT ![p] = vQueue]
    BY DEF Events!Swap
<1>2. DispatcherTypes'
    BY <1>1, SMTT(60) DEF DispatcherTypes
<1>3. ASSUME ~vManual PROVE Order'
  <2>1. vBatch'["loop"] = vQueue /\ Len(vQueue') = 0
    BY <1>1, <1>3, SMTT(60) DEF DispatcherTypes
  <2>2. Waiting(vQueue) /\ Increasing(vQueue)
    BY <1>3, SMTT(60) DEF Order
  <2>3. Waiting(vBatch["loop"])' /\ Increasing(vBatch["loop"])'
    BY <2>1, <2>2 DEF Waiting, Increasing
  <2>4. Waiting(vQueue)' /\ Increasing(vQueue)' /\ Before(vBatch["loop"], vQueue)'
    BY <2>1 DEF Waiting, Increasing, Before
  <2> QED BY <1>3, <2>3, <2>4 DEF Order
<1>4. Events!InOrder
    BY DEF Events!InOrder, DispatcherTypes
<1> QED BY <1>2, <1>3, <1>4 DEF Order

\* Steps that leave the events alone.
LEMMA EventsAlone ==
    ASSUME DispatcherInv, UNCHANGED <<vSent, vLast, vQueue, vBatch, vManual>>
    PROVE  DispatcherTypes' /\ Order' /\ Events!InOrder
<1>1. DispatcherTypes' /\ Order'
    BY DEF DispatcherInv, DispatcherTypes, Order, Waiting, Increasing, Before
<1>2. Events!InOrder
    BY DEF DispatcherInv, Events!InOrder, DispatcherTypes
<1> QED BY <1>1, <1>2, SMTT(60)

\* The loop and the calls: the loop has a batch only between the swap and the
\* end of process(), and the join waits for its end.
LEMMA DispatcherStep == DispatcherInv /\ [Events!Next]_vVars => DispatcherInv' /\
        [Events!InOrder]_vVars
<1> SUFFICES ASSUME DispatcherInv, [Events!Next]_vVars PROVE DispatcherInv' /\
   [Events!InOrder]_vVars
    OBVIOUS
<1>1. CASE UNCHANGED vVars
  <2>1. UNCHANGED <<vSent, vLast, vQueue, vBatch, vActive, vStop, vLoop, vUser, vListening,
     vManual>>
    BY <1>1 DEF vVars
  <2>2. DispatcherTypes' /\ Order'
    BY <2>1, EventsAlone
  <2>3. OneBatch' /\ Life'
    BY <2>1 DEF DispatcherInv, OneBatch, Life
  <2> QED BY <1>1, <2>2, <2>3 DEF DispatcherInv
<1>2. CASE \E t \in Threads : Events!triggerEvent(t)
    BY <1>2, TriggerInv
<1>3. CASE Events!addEventListener \/ Events!removeEventListener
  <2>1. UNCHANGED <<vSent, vLast, vQueue, vBatch, vActive, vLoop, vUser, vManual>>
    BY <1>3 DEF Events!addEventListener, Events!removeEventListener
  <2>2. DispatcherTypes' /\ Order' /\ Events!InOrder
    BY <2>1, EventsAlone
  <2>3. OneBatch' /\ Life'
    BY <2>1 DEF DispatcherInv, OneBatch, Life
  <2> QED BY <2>2, <2>3 DEF DispatcherInv
<1>4. CASE Events!processAsyncEvents
  <2>1. Events!Swap("user") /\ vManual /\ UNCHANGED <<vSent, vLast, vActive, vLoop, vUser,
     vManual>>
    BY <1>4 DEF Events!processAsyncEvents
  <2>2. DispatcherTypes' /\ Order' /\ Events!InOrder
    BY <2>1, SwapOrder
  <2>3. vBatch'["loop"] = vBatch["loop"]
    BY <2>1 DEF Events!Swap, DispatcherInv, DispatcherTypes
  <2>4. OneBatch' /\ Life'
    BY <2>1, <2>3 DEF DispatcherInv, OneBatch, Life
  <2> QED BY <2>2, <2>4 DEF DispatcherInv
<1>5. CASE Events!startAsyncProcessing
  <2>1. UNCHANGED <<vSent, vLast, vQueue, vBatch, vLoop, vManual>>
    BY <1>5 DEF Events!startAsyncProcessing
  <2>2. DispatcherTypes' /\ Order' /\ Events!InOrder
    BY <2>1, EventsAlone
  <2>3. OneBatch' /\ Life'
    BY <1>5 DEF Events!startAsyncProcessing, DispatcherInv, OneBatch, Life
  <2> QED BY <2>2, <2>3 DEF DispatcherInv
<1>6. CASE Events!stopAsyncProcessing
  <2>1. UNCHANGED <<vSent, vLast, vQueue, vBatch, vLoop, vManual>>
    BY <1>6 DEF Events!stopAsyncProcessing
  <2>2. DispatcherTypes' /\ Order' /\ Events!InOrder
    BY <2>1, EventsAlone
  <2>3. OneBatch' /\ Life'
    BY <1>6 DEF Events!stopAsyncProcessing, DispatcherInv, OneBatch, Life
  <2> QED BY <2>2, <2>3 DEF DispatcherInv
<1>7. CASE Events!loopTests
  <2>1. UNCHANGED <<vSent, vLast, vQueue, vBatch, vManual>>
    BY <1>7 DEF Events!loopTests
  <2>2. DispatcherTypes' /\ Order' /\ Events!InOrder
    BY <2>1, EventsAlone
  <2>3. OneBatch' /\ Life'
    BY <1>7 DEF Events!loopTests, DispatcherInv, OneBatch, Life
  <2> QED BY <2>2, <2>3 DEF DispatcherInv
<1>8. CASE Events!loopWaits
  <2>1. Life'
    BY <1>8 DEF Events!loopWaits, DispatcherInv, Life
  <2>2. CASE vQueue # <<>>
    <3>1. Events!Swap("loop") /\ vLoop' = "process" /\ UNCHANGED <<vSent, vLast, vManual>>
        BY <1>8, <2>2 DEF Events!loopWaits
    <3>2. DispatcherTypes' /\ Order' /\ Events!InOrder
        BY <3>1, SwapOrder
    <3>3. OneBatch'
        BY <3>1 DEF Events!Swap, DispatcherInv, OneBatch, DispatcherTypes
    <3> QED BY <2>1, <3>2, <3>3 DEF DispatcherInv
  <2>3. CASE vQueue = <<>>
    <3>1. UNCHANGED <<vSent, vLast, vQueue, vBatch, vManual>> /\ vLoop = "wait"
        BY <1>8, <2>3 DEF Events!loopWaits
    <3>2. DispatcherTypes' /\ Order' /\ Events!InOrder
        BY <3>1, EventsAlone
    <3>3. OneBatch'
        BY <3>1 DEF DispatcherInv, OneBatch
    <3> QED BY <2>1, <3>2, <3>3 DEF DispatcherInv
  <2> QED BY <2>2, <2>3
<1>9. CASE Events!loopProcesses
  <2>1. Life'
    BY <1>9 DEF Events!loopProcesses, DispatcherInv, Life
  <2>2. CASE vBatch["loop"] = <<>>
    <3>1. UNCHANGED <<vSent, vLast, vQueue, vBatch, vManual>>
        BY <1>9, <2>2 DEF Events!loopProcesses
    <3>2. DispatcherTypes' /\ Order' /\ Events!InOrder
        BY <3>1, EventsAlone
    <3>3. OneBatch'
        BY <2>2, <3>1 DEF DispatcherInv, OneBatch
    <3> QED BY <2>1, <3>2, <3>3 DEF DispatcherInv
  <2>3. CASE vBatch["loop"] # <<>>
    <3>1. Events!Dispatch("loop") /\ vLoop = "process" /\ vLoop' = vLoop /\ UNCHANGED <<vSent,
       vManual>>
        BY <1>9, <2>3 DEF Events!loopProcesses
    <3>2. DispatcherTypes' /\ Order' /\ Events!InOrder
        BY <3>1, DispatchOrder
    <3>3. vBatch'["user"] = vBatch["user"]
        BY <3>1, SMTT(60) DEF Events!Dispatch, DispatcherInv, DispatcherTypes
    <3>4. OneBatch'
        BY <3>1, <3>3 DEF DispatcherInv, OneBatch
    <3> QED BY <2>1, <3>2, <3>4 DEF DispatcherInv
  <2> QED BY <2>2, <2>3
<1>10. CASE Events!threadStarts
  <2>1. UNCHANGED <<vSent, vLast, vQueue, vBatch, vManual>>
    BY <1>10, SMTT(60) DEF Events!threadStarts
  <2>2. DispatcherTypes' /\ Order' /\ Events!InOrder
    BY <2>1, EventsAlone
  <2>3. OneBatch' /\ Life'
    BY <1>10 DEF Events!threadStarts, DispatcherInv, OneBatch, Life
  <2> QED BY <2>2, <2>3 DEF DispatcherInv
<1>11. CASE Events!threadJoined
  <2>1. UNCHANGED <<vSent, vLast, vQueue, vBatch, vManual>>
    BY <1>11, SMTT(60) DEF Events!threadJoined
  <2>2. DispatcherTypes' /\ Order' /\ Events!InOrder
    BY <2>1, EventsAlone
  <2>3. OneBatch' /\ Life'
    BY <1>11 DEF Events!threadJoined, DispatcherInv, OneBatch, Life
  <2> QED BY <2>2, <2>3 DEF DispatcherInv
<1>12. CASE Events!userDispatches
  <2>1. Events!Dispatch("user") /\ UNCHANGED <<vSent, vActive, vLoop, vUser, vManual>>
    BY <1>12 DEF Events!userDispatches
  <2>2. DispatcherTypes' /\ Order' /\ Events!InOrder
    BY <2>1, DispatchOrder
  <2>3. vBatch'["loop"] = vBatch["loop"] /\ vManual
    BY <2>1, SMTT(60) DEF Events!Dispatch, DispatcherInv, DispatcherTypes, OneBatch
  <2>4. OneBatch' /\ Life'
    BY <2>1, <2>3 DEF DispatcherInv, OneBatch, Life
  <2> QED BY <2>2, <2>4 DEF DispatcherInv
<1> QED BY <1>1, <1>2, <1>3, <1>4, <1>5, <1>6, <1>7, <1>8, <1>9, <1>10, <1>11, <1>12
           DEF Events!Next, Events!loopStep, Events!callStep

\* For any threads and any number of events, EventDispatcher hands the events of
\* a thread to the listeners in the order of triggerEvent, unless the
\* application processes the queue itself, and its loop hands on nothing once
\* stopAsyncProcessing has returned.
THEOREM EventsKept == Events!Spec => EventsInOrder
<1>1. DispatcherInv => Events!StopIsFinal
    BY DEF DispatcherInv, Life, OneBatch, Events!StopIsFinal
<1>2. DispatcherInv' => Events!StopIsFinal'
    BY <1>1, PTL
<1>3. DispatcherInv /\ [Events!Next]_vVars => [Events!InOrder /\ Events!StopIsFinal']_vVars
    BY <1>2, DispatcherStep
<1> QED BY <1>3, DispatcherInit, DispatcherStep, PTL
   DEF Events!Spec, Events!vars, vVars, EventsInOrder

-----------------------------------------------------------------------------
(* The reconnect thread. *)

\* mutex_ is held across steps by stopReconnect and by startReconnect only.
Owners ==
    /\ mutex = "app" <=> apc \in {"stopFlag", "cleanup"}
    /\ mutex = "event" <=> epc \in {"join", "spawn"}

\* What the join of stopReconnect relies on.
Handles == apc = "join" => handle

Counters == attempt \in 0..MaxAttempts /\ errors \in 0..MaxErrors /\ queued \in 0..errors

Steps ==
    /\ mutex \in {"none", "app", "event"}
    /\ rpc \in {"idle", "test", "close", "check", "open", "wait", "cleanup", "cleanupStop", "end"}
    /\ epc \in {"idle", "lock", "join", "spawn"}
    /\ apc \in {"idle", "stop", "stopFlag", "join", "relock", "cleanup", "open", "close",
       "closeStream"}
    /\ call \in {"open", "close", "stop"}

Booleans ==
    /\ isReconnecting \in BOOLEAN /\ shouldStop \in BOOLEAN /\ handle \in BOOLEAN
    /\ opened \in BOOLEAN /\ demuxing \in BOOLEAN /\ paused \in BOOLEAN
    /\ wasPaused \in BOOLEAN /\ hadDecoder \in BOOLEAN /\ isDecoding \in BOOLEAN

IInv == Counters /\ Steps /\ Booleans /\ Owners /\ Handles /\ OneThread

\* The parts are the type invariant: at most one event is queued per error.
LEMMA Types == ASSUME Counters, Steps, Booleans PROVE TypeOK
<1>1. queued \in 0..MaxErrors
    BY ReconnectAssumption DEF Counters
<1> QED BY <1>1 DEF TypeOK, Counters, Steps, Booleans

\* The initial state, in which there is no reconnect thread.
LEMMA InitInv == Init => IInv
<1> SUFFICES ASSUME Init PROVE IInv
    OBVIOUS
<1>1. Counters
    BY ReconnectAssumption DEF Init, Counters
<1>2. Steps /\ Owners /\ Handles /\ OneThread
    BY DEF Init, Steps, Owners, Handles, OneThread
<1>3. Booleans
    BY Zenon DEF Init, Booleans
<1> QED BY <1>1, <1>2, <1>3 DEF IInv

\* The steps of open(), close() and stopReconnect(): the handle is given up only by
\* the join, when the loop has returned.
LEMMA CallInv == ASSUME IInv, CallStep PROVE IInv'
<1>1. CASE StopTest
  <2>1. Counters'
    BY <1>1, ReconnectAssumption, SMTT(60) DEF IInv, Counters, StopTest, flags, events, application,
       stream, intent
  <2>2. Steps' /\ Owners' /\ Handles' /\ OneThread'
    BY <1>1 DEF IInv, Steps, Owners, Handles, OneThread, StopTest, Resumed, flags, events,
       application, stream, intent
  <2>3. Booleans'
    BY <1>1, Zenon DEF IInv, Booleans, StopTest, flags, events, application, stream, intent
  <2> QED BY <2>1, <2>2, <2>3 DEF IInv
<1>2. CASE StopFlag
  <2>1. Counters'
    BY <1>2, ReconnectAssumption, SMTT(60) DEF IInv, Counters, StopFlag, flags, events, application,
       stream, intent
  <2>2. Steps' /\ Owners' /\ Handles' /\ OneThread'
    BY <1>2 DEF IInv, Steps, Owners, Handles, OneThread, StopFlag, Resumed, flags, events,
       application, stream, intent
  <2>3. Booleans'
    BY <1>2, Zenon DEF IInv, Booleans, StopFlag, flags, events, application, stream, intent
  <2> QED BY <2>1, <2>2, <2>3 DEF IInv
<1>3. CASE StopJoin
  <2>1. Counters'
    BY <1>3, ReconnectAssumption, SMTT(60) DEF IInv, Counters, StopJoin, flags, events, application,
       stream, intent
  <2>2. Steps' /\ Owners' /\ Handles' /\ OneThread'
    BY <1>3 DEF IInv, Steps, Owners, Handles, OneThread, StopJoin, Resumed, flags, events,
       application, stream, intent
  <2>3. Booleans'
    BY <1>3, Zenon DEF IInv, Booleans, StopJoin, flags, events, application, stream, intent
  <2> QED BY <2>1, <2>2, <2>3 DEF IInv
<1>4. CASE StopRelock
  <2>1. Counters'
    BY <1>4, ReconnectAssumption, SMTT(60) DEF IInv, Counters, StopRelock, flags, events, application,
       stream, intent
  <2>2. Steps' /\ Owners' /\ Handles' /\ OneThread'
    BY <1>4 DEF IInv, Steps, Owners, Handles, OneThread, StopRelock, Resumed, flags, events,
       application, stream, intent
  <2>3. Booleans'
    BY <1>4, Zenon DEF IInv, Booleans, StopRelock, flags, events, application, stream, intent
  <2> QED BY <2>1, <2>2, <2>3 DEF IInv
<1>5. CASE StopCleanup
  <2>1. Counters'
    BY <1>5, ReconnectAssumption, SMTT(60) DEF IInv, Counters, StopCleanup, flags, events, application,
       stream, intent
  <2>2. Steps' /\ Owners' /\ Handles' /\ OneThread'
    BY <1>5 DEF IInv, Steps, Owners, Handles, OneThread, StopCleanup, Resumed, flags, events,
       application, stream, intent
  <2>3. Booleans'
    BY <1>5, Zenon DEF IInv, Booleans, StopCleanup, flags, events, application, stream, intent
  <2> QED BY <2>1, <2>2, <2>3 DEF IInv
<1>6. CASE open
  <2>1. Counters'
    BY <1>6, ReconnectAssumption DEF IInv, Counters, open, flags, events, application, stream,
       intent
  <2>2. Steps' /\ Owners' /\ Handles' /\ OneThread'
    BY <1>6 DEF IInv, Steps, Owners, Handles, OneThread, open, Resumed, flags, events,
       application, stream, intent
  <2>3. Booleans'
    BY <1>6, Zenon DEF IInv, Booleans, open, flags, events, application, stream, intent
  <2> QED BY <2>1, <2>2, <2>3 DEF IInv
<1>7. CASE CloseStopDecode
  <2>1. Counters'
    BY <1>7, ReconnectAssumption, SMTT(60) DEF IInv, Counters, CloseStopDecode, flags, events,
       application, stream, intent
  <2>2. Steps' /\ Owners' /\ Handles' /\ OneThread'
    BY <1>7 DEF IInv, Steps, Owners, Handles, OneThread, CloseStopDecode, Resumed, flags,
       events, application, stream, intent
  <2>3. Booleans'
    BY <1>7, Zenon DEF IInv, Booleans, CloseStopDecode, flags, events, application, stream, intent
  <2> QED BY <2>1, <2>2, <2>3 DEF IInv
<1>8. CASE close
  <2>1. Counters'
    BY <1>8, ReconnectAssumption, SMTT(60) DEF IInv, Counters, close, flags, events, application, stream,
       intent
  <2>2. Steps' /\ Owners' /\ Handles' /\ OneThread'
    BY <1>8 DEF IInv, Steps, Owners, Handles, OneThread, close, Resumed, flags, events,
       application, stream, intent
  <2>3. Booleans'
    BY <1>8, Zenon DEF IInv, Booleans, close, flags, events, application, stream, intent
  <2> QED BY <2>1, <2>2, <2>3 DEF IInv
<1> QED BY <1>1, <1>2, <1>3, <1>4, <1>5, <1>6, <1>7, <1>8 DEF CallStep

\* The beginning of a call, and the calls that touch no thread.
LEMMA UserInv == ASSUME IInv, UserCall PROVE IInv'
<1>1. ASSUME NEW c \in {"open", "close", "stop"}, Enter(c) PROVE IInv'
  <2>1. Counters'
    BY <1>1, ReconnectAssumption, SMTT(60) DEF IInv, Counters, Enter, flags, events, application, stream,
       intent
  <2>2. Steps' /\ Owners' /\ Handles' /\ OneThread'
    BY <1>1 DEF IInv, Steps, Owners, Handles, OneThread, Enter, Resumed, flags, events,
       application, stream, intent
  <2>3. Booleans'
    BY <1>1, Zenon DEF IInv, Booleans, Enter, flags, events, application, stream, intent
  <2> QED BY <2>1, <2>2, <2>3 DEF IInv
<1>2. CASE pause
  <2>1. Counters'
    BY <1>2, ReconnectAssumption, SMTT(60) DEF IInv, Counters, pause, flags, events, application, stream,
       intent
  <2>2. Steps' /\ Owners' /\ Handles' /\ OneThread'
    BY <1>2 DEF IInv, Steps, Owners, Handles, OneThread, pause, Resumed, flags, events,
       application, stream, intent
  <2>3. Booleans'
    BY <1>2, Zenon DEF IInv, Booleans, pause, flags, events, application, stream, intent
  <2> QED BY <2>1, <2>2, <2>3 DEF IInv
<1>3. CASE resume
  <2>1. Counters'
    BY <1>3, ReconnectAssumption DEF IInv, Counters, resume, flags, events, application,
       stream, intent
  <2>2. Steps' /\ Owners' /\ Handles' /\ OneThread'
    BY <1>3 DEF IInv, Steps, Owners, Handles, OneThread, resume, Resumed, flags, events,
       application, stream, intent
  <2>3. Booleans'
    BY <1>3, Zenon DEF IInv, Booleans, resume, flags, events, application, stream, intent
  <2> QED BY <2>1, <2>2, <2>3 DEF IInv
<1>4. CASE startDecode
  <2>1. Counters'
    BY <1>4, ReconnectAssumption DEF IInv, Counters, startDecode, flags, events, application,
       stream, intent
  <2>2. Steps' /\ Owners' /\ Handles' /\ OneThread'
    BY <1>4 DEF IInv, Steps, Owners, Handles, OneThread, startDecode, Resumed, flags, events,
       application, stream, intent
  <2>3. Booleans'
    BY <1>4, Zenon DEF IInv, Booleans, startDecode, flags, events, application, stream, intent
  <2> QED BY <2>1, <2>2, <2>3 DEF IInv
<1>5. CASE stopDecode
  <2>1. Counters'
    BY <1>5, ReconnectAssumption DEF IInv, Counters, stopDecode, flags, events, application,
       stream, intent
  <2>2. Steps' /\ Owners' /\ Handles' /\ OneThread'
    BY <1>5 DEF IInv, Steps, Owners, Handles, OneThread, stopDecode, Resumed, flags, events,
       application, stream, intent
  <2>3. Booleans'
    BY <1>5, Zenon DEF IInv, Booleans, stopDecode, flags, events, application, stream, intent
  <2> QED BY <2>1, <2>2, <2>3 DEF IInv
<1> QED BY <1>1, <1>2, <1>3, <1>4, <1>5 DEF UserCall

\* The event thread: mutex_ is held from the test of isReconnecting_ to the new thread.
LEMMA EventInv == ASSUME IInv, EventStep PROVE IInv'
<1>1. CASE OnReadError
  <2>1. Counters'
    BY <1>1, ReconnectAssumption, SMTT(60) DEF IInv, Counters, OnReadError, flags, events, application,
       stream, intent
  <2>2. Steps' /\ Owners' /\ Handles' /\ OneThread'
    BY <1>1 DEF IInv, Steps, Owners, Handles, OneThread, OnReadError, Resumed, flags, events,
       application, stream, intent
  <2>3. Booleans'
    BY <1>1, Zenon DEF IInv, Booleans, OnReadError, flags, events, application, stream, intent
  <2> QED BY <2>1, <2>2, <2>3 DEF IInv
<1>2. CASE startReconnect
  <2>1. Counters'
    BY <1>2, ReconnectAssumption, SMTT(60) DEF IInv, Counters, startReconnect, flags, events,
       application, stream, intent
  <2>2. Steps' /\ Owners' /\ Handles' /\ OneThread'
    BY <1>2 DEF IInv, Steps, Owners, Handles, OneThread, startReconnect, Resumed, flags,
       events, application, stream, intent
  <2>3. Booleans'
    BY <1>2, Zenon DEF IInv, Booleans, startReconnect, flags, events, application, stream, intent
  <2> QED BY <2>1, <2>2, <2>3 DEF IInv
<1>3. CASE StartJoin
  <2>1. Counters'
    BY <1>3, ReconnectAssumption, SMTT(60) DEF IInv, Counters, StartJoin, flags, events, application,
       stream, intent
  <2>2. Steps' /\ Owners' /\ Handles' /\ OneThread'
    BY <1>3 DEF IInv, Steps, Owners, Handles, OneThread, StartJoin, Resumed, flags, events,
       application, stream, intent
  <2>3. Booleans'
    BY <1>3, Zenon DEF IInv, Booleans, StartJoin, flags, events, application, stream, intent
  <2> QED BY <2>1, <2>2, <2>3 DEF IInv
<1>4. CASE StartThread
  <2>1. Counters'
    BY <1>4, ReconnectAssumption DEF IInv, Counters, StartThread, flags, events, application,
       stream, intent
  <2>2. Steps' /\ Owners' /\ Handles' /\ OneThread'
    BY <1>4 DEF IInv, Steps, Owners, Handles, OneThread, StartThread, Resumed, flags, events,
       application, stream, intent
  <2>3. Booleans'
    BY <1>4, Zenon DEF IInv, Booleans, StartThread, flags, events, application, stream, intent
  <2> QED BY <2>1, <2>2, <2>3 DEF IInv
<1> QED BY <1>1, <1>2, <1>3, <1>4 DEF EventStep

\* The reconnect thread, whose loop ends without touching the handle.
LEMMA LoopInv == ASSUME IInv, LoopStep PROVE IInv'
<1>1. CASE LoopTest
  <2>1. Counters'
    BY <1>1, ReconnectAssumption, SMTT(60) DEF IInv, Counters, LoopTest, flags, events, application,
       stream, intent
  <2>2. Steps' /\ Owners' /\ Handles' /\ OneThread'
    BY <1>1 DEF IInv, Steps, Owners, Handles, OneThread, LoopTest, Resumed, flags, events,
       application, stream, intent
  <2>3. Booleans'
    BY <1>1, Zenon DEF IInv, Booleans, LoopTest, flags, events, application, stream, intent
  <2> QED BY <2>1, <2>2, <2>3 DEF IInv
<1>2. CASE AttemptClose
  <2>1. Counters'
    BY <1>2, ReconnectAssumption DEF IInv, Counters, AttemptClose, flags, events, application,
       stream, intent
  <2>2. Steps' /\ Owners' /\ Handles' /\ OneThread'
    BY <1>2 DEF IInv, Steps, Owners, Handles, OneThread, AttemptClose, Resumed, flags, events,
       application, stream, intent
  <2>3. Booleans'
    BY <1>2, Zenon DEF IInv, Booleans, AttemptClose, flags, events, application, stream, intent
  <2> QED BY <2>1, <2>2, <2>3 DEF IInv
<1>3. CASE AttemptCheck
  <2>1. Counters'
    BY <1>3, ReconnectAssumption, SMTT(60) DEF IInv, Counters, AttemptCheck, flags, events, application,
       stream, intent
  <2>2. Steps' /\ Owners' /\ Handles' /\ OneThread'
    BY <1>3 DEF IInv, Steps, Owners, Handles, OneThread, AttemptCheck, Resumed, flags, events,
       application, stream, intent
  <2>3. Booleans'
    BY <1>3, Zenon DEF IInv, Booleans, AttemptCheck, flags, events, application, stream, intent
  <2> QED BY <2>1, <2>2, <2>3 DEF IInv
<1>4. CASE AttemptOpenFails
  <2>1. Counters'
    BY <1>4, ReconnectAssumption, SMTT(60) DEF IInv, Counters, AttemptOpenFails, flags, events,
       application, stream, intent
  <2>2. Steps' /\ Owners' /\ Handles' /\ OneThread'
    BY <1>4 DEF IInv, Steps, Owners, Handles, OneThread, AttemptOpenFails, Resumed, flags,
       events, application, stream, intent
  <2>3. Booleans'
    BY <1>4, Zenon DEF IInv, Booleans, AttemptOpenFails, flags, events, application, stream,
       intent
  <2> QED BY <2>1, <2>2, <2>3 DEF IInv
<1>5. CASE AttemptOpen
  <2>1. Counters'
    BY <1>5, ReconnectAssumption, SMTT(60) DEF IInv, Counters, AttemptOpen, flags, events, application,
       stream, intent
  <2>2. Steps' /\ Owners' /\ Handles' /\ OneThread'
    BY <1>5 DEF IInv, Steps, Owners, Handles, OneThread, AttemptOpen, Resumed, flags, events,
       application, stream, intent
  <2>3. Booleans'
    BY <1>5, Zenon DEF IInv, Booleans, AttemptOpen, flags, events, application, stream, intent
  <2> QED BY <2>1, <2>2, <2>3 DEF IInv
<1>6. CASE LoopWait
  <2>1. Counters'
    BY <1>6, ReconnectAssumption, SMTT(60) DEF IInv, Counters, LoopWait, flags, events, application,
       stream, intent
  <2>2. Steps' /\ Owners' /\ Handles' /\ OneThread'
    BY <1>6 DEF IInv, Steps, Owners, Handles, OneThread, LoopWait, Resumed, flags, events,
       application, stream, intent
  <2>3. Booleans'
    BY <1>6, Zenon DEF IInv, Booleans, LoopWait, flags, events, application, stream, intent
  <2> QED BY <2>1, <2>2, <2>3 DEF IInv
<1>7. CASE LoopCleanup
  <2>1. Counters'
    BY <1>7, ReconnectAssumption, SMTT(60) DEF IInv, Counters, LoopCleanup, flags, events, application,
       stream, intent
  <2>2. Steps' /\ Owners' /\ Handles' /\ OneThread'
    BY <1>7 DEF IInv, Steps, Owners, Handles, OneThread, LoopCleanup, Resumed, flags, events,
       application, stream, intent
  <2>3. Booleans'
    BY <1>7, Zenon DEF IInv, Booleans, LoopCleanup, flags, events, application, stream, intent
  <2> QED BY <2>1, <2>2, <2>3 DEF IInv
<1>8. CASE LoopCleanupStop
  <2>1. Counters'
    BY <1>8, ReconnectAssumption, SMTT(60) DEF IInv, Counters, LoopCleanupStop, flags, events,
       application, stream, intent
  <2>2. Steps' /\ Owners' /\ Handles' /\ OneThread'
    BY <1>8 DEF IInv, Steps, Owners, Handles, OneThread, LoopCleanupStop, Resumed, flags,
       events, application, stream, intent
  <2>3. Booleans'
    BY <1>8, Zenon DEF IInv, Booleans, LoopCleanupStop, flags, events, application, stream, intent
  <2> QED BY <2>1, <2>2, <2>3 DEF IInv
<1>9. CASE LoopEnd
  <2>1. Counters'
    BY <1>9, ReconnectAssumption, SMTT(60) DEF IInv, Counters, LoopEnd, flags, events, application,
       stream, intent
  <2>2. Steps' /\ Owners' /\ Handles' /\ OneThread'
    BY <1>9 DEF IInv, Steps, Owners, Handles, OneThread, LoopEnd, Resumed, flags, events,
       application, stream, intent
  <2>3. Booleans'
    BY <1>9, Zenon DEF IInv, Booleans, LoopEnd, flags, events, application, stream, intent
  <2> QED BY <2>1, <2>2, <2>3 DEF IInv
<1> QED BY <1>1, <1>2, <1>3, <1>4, <1>5, <1>6, <1>7, <1>8, <1>9, SMTT(60) DEF LoopStep

\* The demux thread only adds an event.
LEMMA ErrorInv == ASSUME IInv, ReadError PROVE IInv'
  <1>1. Counters'
    BY ReconnectAssumption, SMTT(60) DEF IInv, Counters, ReadError, flags, events, application, stream,
       intent
  <1>2. Steps' /\ Owners' /\ Handles' /\ OneThread'
    BY DEF IInv, Steps, Owners, Handles, OneThread, ReadError, Resumed, flags, events,
       application, stream, intent
  <1>3. Booleans'
    BY Zenon DEF IInv, Booleans, ReadError, flags, events, application, stream, intent
  <1> QED BY <1>1, <1>2, <1>3 DEF IInv

\* Every step of the specification, or none.
LEMMA StepInv == IInv /\ [Next]_vars => IInv'
<1> SUFFICES ASSUME IInv, [Next]_vars PROVE IInv'
    BY SMTT(60)
<1>1. CASE UNCHANGED vars
    BY <1>1 DEF vars, IInv, Counters, Steps, Booleans, Owners, Handles, OneThread
<1>2. CASE Next
    BY <1>2, CallInv, UserInv, EventInv, LoopInv, ErrorInv DEF Next
<1> QED BY <1>1, <1>2

\* The inductive invariant holds of every behaviour of the reconnect.
THEOREM Invariance == Spec => []IInv
<1> QED BY InitInv, StepInv, PTL DEF Spec

\* Type correctness; in particular reconnectLoop makes at most
\* maxReconnectAttempts attempts per start.
THEOREM TypeCorrect == Spec => []TypeOK
<1>1. IInv => TypeOK
    BY Types DEF IInv
<1> QED BY <1>1, Invariance, PTL

\* reconnectThread_ holds the one reconnect thread there is, whatever the order
\* of startReconnect, stopReconnect and the end of the loop.
THEOREM ThreadUnique == Spec => []OneThread
<1>1. IInv => OneThread
    BY DEF IInv
<1> QED BY <1>1, Invariance, PTL

-----------------------------------------------------------------------------
(* The task of openAsync. *)

\* The types, and who holds mutex_.
OpenSteps ==
    /\ oMutex = IF oTpc \in {"check", "open", "test"} THEN "task" ELSE "none"
    /\ oTpc \in {"none", "lock", "check", "open", "test", "take", "call", "finish"}
    /\ oTurl \in Urls \cup {NoUrl} /\ oResult \in Open!Results
    /\ oApc \in {"idle", "cancel", "raise", "wait", "lower", "body", "gone"}
    /\ oCall \in {"open", "openAsync", "cancel", "close", "destroy"}
    /\ oUrl \in Urls \cup {NoUrl}
    /\ oStream \in Urls \cup {NoUrl} /\ oDecoders \in Urls \cup {NoUrl}
    /\ oTold \in Open!Results \cup {"none", "pending", "dropped"} /\ oBefore \in Urls \cup {NoUrl}

OpenFlags == oInProgress \in BOOLEAN /\ oCancel \in BOOLEAN /\ oCallback \in BOOLEAN

\* When there is a task, who may be waiting for it, and who has been answered.
Running ==
    /\ oInProgress <=> oTpc # "none"
    /\ oApc \in {"lower", "body", "gone"} => oTpc = "none"
    /\ oTpc \in {"none", "finish"} => oTold # "pending"
    /\ oTpc \in {"lock", "check", "open", "test", "take", "call"} => oTold = "pending"
    /\ oApc \in {"idle", "gone"} /\ oCall \in {"close", "destroy"} => oTpc = "none"
    /\ oTpc # "none" => oTurl \in Urls
    /\ oCall \in {"open", "openAsync"} => oUrl \in Urls

\* What an answer says about the stream.
Describes(answer) ==
    /\ answer = "success" => oStream = oTurl /\ oDecoders = oTurl
    /\ answer = "failed" => oStream = NoUrl
    /\ answer = "cancelled" => oStream \in {NoUrl, oBefore}

\* What the task knows about the stream at each of its steps.
Outcome ==
    /\ oTpc \in {"lock", "check", "open"} => oStream = oBefore /\ oResult = "failed"
    /\ oTpc = "test" =>
        /\ oResult \in {"success", "failed"}
        /\ oResult = "success" => oStream = oTurl /\ oDecoders = oTurl
        /\ oResult = "failed" => oStream = NoUrl \/ (oCancel /\ oStream = oBefore)
    /\ oTpc \in {"take", "call", "finish"} => Describes(oResult)
    /\ oTpc = "finish" => oTold \in {oResult, "dropped"}
    /\ oApc \in {"raise", "wait", "lower"} => Describes(oTold)
    /\ oApc = "idle" /\ oCall = "openAsync" => Describes(oTold)

OpenInv == OpenSteps /\ OpenFlags /\ Running /\ Outcome /\ Open!ClosedStaysClosed

\* The initial state: no task and no stream.
LEMMA OpenInit == Open!Init => OpenInv
<1> SUFFICES ASSUME Open!Init PROVE OpenInv
    OBVIOUS
<1>1. OpenSteps /\ Running /\ Outcome /\ Open!ClosedStaysClosed
    BY DEF Open!Init, OpenSteps, Running, Outcome, Describes, Open!ClosedStaysClosed, Open!Results
<1>2. OpenFlags
    BY Zenon DEF Open!Init, OpenFlags
<1> QED BY <1>1, <1>2, SMTT(60) DEF OpenInv

\* A call begins: the task, if there is one, keeps what it knows.
LEMMA EnterInv == ASSUME OpenInv, NEW c \in {"open", "openAsync", "cancel", "close"},
        NEW u \in Urls \cup {NoUrl},
                      c \in {"open", "openAsync"} => u \in Urls, Open!Enter(c, u) PROVE OpenInv'
<1>1. OpenSteps'
    BY UrlAssumption, ZenonT(60) DEF OpenInv, OpenSteps, Running, Open!Results, Open!Enter, Open!flags,
       Open!task, Open!application, Open!opened, Open!history
<1>2. Running'
    BY UrlAssumption, ZenonT(60) DEF OpenInv, OpenSteps, Running, Open!Results, Open!Enter, Open!flags,
       Open!task, Open!application, Open!opened, Open!history
<1>3. Outcome' /\ Open!ClosedStaysClosed'
    BY UrlAssumption, ZenonT(60) DEF OpenInv, OpenSteps, Running, Outcome, Describes,
       Open!ClosedStaysClosed, Open!Results, Open!Enter, Open!flags, Open!task,
          Open!application, Open!opened, Open!history
<1>4. OpenFlags'
    BY Zenon DEF OpenInv, OpenFlags, Open!Enter, Open!flags, Open!task, Open!application,
       Open!opened, Open!history
<1> QED BY <1>1, <1>2, <1>3, <1>4, SMTT(60) DEF OpenInv

\* The destructor begins by forgetting the callback; the task will drop its answer.
LEMMA DestroyInv == ASSUME OpenInv, Open!destroy PROVE OpenInv'
<1>1. OpenSteps'
    BY UrlAssumption, ZenonT(60) DEF OpenInv, OpenSteps, Running, Open!Results, Open!destroy, Open!flags,
       Open!task, Open!application, Open!opened, Open!history
<1>2. Running'
    BY UrlAssumption, ZenonT(60) DEF OpenInv, OpenSteps, Running, Open!Results, Open!destroy, Open!flags,
       Open!task, Open!application, Open!opened, Open!history
<1>3. Outcome' /\ Open!ClosedStaysClosed'
    BY UrlAssumption, ZenonT(60) DEF OpenInv, OpenSteps, Running, Outcome, Describes,
       Open!ClosedStaysClosed, Open!Results, Open!destroy, Open!flags, Open!task,
          Open!application, Open!opened, Open!history
<1>4. OpenFlags'
    BY Zenon DEF OpenInv, OpenFlags, Open!destroy, Open!flags, Open!task, Open!application,
       Open!opened, Open!history
<1> QED BY <1>1, <1>2, <1>3, <1>4, SMTT(60) DEF OpenInv

\* The steps of cancelAsyncOpen and of the calls after it: they touch the stream only
\* when no task is left.
LEMMA AppInv == ASSUME OpenInv, Open!App PROVE OpenInv'
<1>1. CASE Open!CancelTest
  <2>1. OpenSteps'
    BY <1>1, UrlAssumption, ZenonT(60) DEF OpenInv, OpenSteps, Running, Open!Results, Open!CancelTest,
       Open!Cancelled, Open!flags, Open!task, Open!application, Open!opened, Open!history
  <2>2. Running'
    BY <1>1, UrlAssumption, ZenonT(60) DEF OpenInv, OpenSteps, Running, Open!Results, Open!CancelTest,
       Open!Cancelled, Open!flags, Open!task, Open!application, Open!opened, Open!history
  <2>3. Outcome' /\ Open!ClosedStaysClosed'
    BY <1>1, UrlAssumption, ZenonT(60) DEF OpenInv, OpenSteps, Running, Outcome, Describes,
       Open!ClosedStaysClosed, Open!Results, Open!CancelTest, Open!Cancelled, Open!flags,
          Open!task, Open!application, Open!opened, Open!history
  <2>4. OpenFlags'
    BY <1>1, Zenon DEF OpenInv, OpenFlags, Open!CancelTest, Open!Cancelled, Open!flags,
       Open!task, Open!application, Open!opened, Open!history
  <2> QED BY <2>1, <2>2, <2>3, <2>4 DEF OpenInv
<1>2. CASE Open!CancelRaise
  <2>1. OpenSteps'
    BY <1>2, UrlAssumption, ZenonT(60) DEF OpenInv, OpenSteps, Running, Open!Results, Open!CancelRaise,
       Open!flags, Open!task, Open!application, Open!opened, Open!history
  <2>2. Running'
    BY <1>2, UrlAssumption, ZenonT(60) DEF OpenInv, OpenSteps, Running, Open!Results, Open!CancelRaise,
       Open!flags, Open!task, Open!application, Open!opened, Open!history
  <2>3. Outcome' /\ Open!ClosedStaysClosed'
    BY <1>2, UrlAssumption, ZenonT(60) DEF OpenInv, OpenSteps, Running, Outcome, Describes,
       Open!ClosedStaysClosed, Open!Results, Open!CancelRaise, Open!flags, Open!task,
          Open!application, Open!opened, Open!history
  <2>4. OpenFlags'
    BY <1>2, Zenon DEF OpenInv, OpenFlags, Open!CancelRaise, Open!flags, Open!task,
       Open!application, Open!opened, Open!history
  <2> QED BY <2>1, <2>2, <2>3, <2>4 DEF OpenInv
<1>3. CASE Open!CancelWait
  <2>1. OpenSteps'
    BY <1>3, UrlAssumption, ZenonT(60) DEF OpenInv, OpenSteps, Running, Open!Results, Open!CancelWait,
       Open!flags, Open!task, Open!application, Open!opened, Open!history
  <2>2. Running'
    BY <1>3, UrlAssumption, ZenonT(60) DEF OpenInv, OpenSteps, Running, Open!Results, Open!CancelWait,
       Open!flags, Open!task, Open!application, Open!opened, Open!history
  <2>3. Outcome' /\ Open!ClosedStaysClosed'
    BY <1>3, UrlAssumption, ZenonT(60) DEF OpenInv, OpenSteps, Running, Outcome, Describes,
       Open!ClosedStaysClosed, Open!Results, Open!CancelWait, Open!flags, Open!task,
          Open!application, Open!opened, Open!history
  <2>4. OpenFlags'
    BY <1>3, Zenon DEF OpenInv, OpenFlags, Open!CancelWait, Open!flags, Open!task,
       Open!application, Open!opened, Open!history
  <2> QED BY <2>1, <2>2, <2>3, <2>4 DEF OpenInv
<1>4. CASE Open!CancelLower
  <2>1. OpenSteps'
    BY <1>4, UrlAssumption, ZenonT(60) DEF OpenInv, OpenSteps, Running, Open!Results, Open!CancelLower,
       Open!Cancelled, Open!flags, Open!task, Open!application, Open!opened, Open!history
  <2>2. Running'
    BY <1>4, UrlAssumption, ZenonT(60) DEF OpenInv, OpenSteps, Running, Open!Results, Open!CancelLower,
       Open!Cancelled, Open!flags, Open!task, Open!application, Open!opened, Open!history
  <2>3. Outcome' /\ Open!ClosedStaysClosed'
    BY <1>4, UrlAssumption, ZenonT(60) DEF OpenInv, OpenSteps, Running, Outcome, Describes,
       Open!ClosedStaysClosed, Open!Results, Open!CancelLower, Open!Cancelled, Open!flags,
          Open!task, Open!application, Open!opened, Open!history
  <2>4. OpenFlags'
    BY <1>4, Zenon DEF OpenInv, OpenFlags, Open!CancelLower, Open!Cancelled, Open!flags,
       Open!task, Open!application, Open!opened, Open!history
  <2> QED BY <2>1, <2>2, <2>3, <2>4 DEF OpenInv
<1>5. CASE Open!open
  <2>1. OpenSteps'
    BY <1>5, UrlAssumption, ZenonT(60) DEF OpenInv, OpenSteps, Running, Open!Results, Open!open,
       Open!OpenInternal, Open!flags, Open!task, Open!application, Open!opened, Open!history
  <2>2. Running'
    BY <1>5, UrlAssumption, ZenonT(60) DEF OpenInv, OpenSteps, Running, Open!Results, Open!open,
       Open!OpenInternal, Open!flags, Open!task, Open!application, Open!opened, Open!history
  <2>3. Outcome' /\ Open!ClosedStaysClosed'
    BY <1>5, UrlAssumption, ZenonT(60) DEF OpenInv, OpenSteps, Running, Outcome, Describes,
       Open!ClosedStaysClosed, Open!Results, Open!open, Open!OpenInternal, Open!flags,
          Open!task, Open!application, Open!opened, Open!history
  <2>4. OpenFlags'
    BY <1>5, Zenon DEF OpenInv, OpenFlags, Open!open, Open!OpenInternal, Open!flags, Open!task,
       Open!application, Open!opened, Open!history
  <2> QED BY <2>1, <2>2, <2>3, <2>4 DEF OpenInv
<1>6. CASE Open!openAsync
  <2>1. OpenSteps'
    BY <1>6, UrlAssumption, ZenonT(60) DEF OpenInv, OpenSteps, Running, Open!Results, Open!openAsync,
       Open!flags, Open!task, Open!application, Open!opened, Open!history
  <2>2. Running'
    BY <1>6, UrlAssumption, ZenonT(60) DEF OpenInv, OpenSteps, Running, Open!Results, Open!openAsync,
       Open!flags, Open!task, Open!application, Open!opened, Open!history
  <2>3. Outcome' /\ Open!ClosedStaysClosed'
    BY <1>6, UrlAssumption, ZenonT(60) DEF OpenInv, OpenSteps, Running, Outcome, Describes,
       Open!ClosedStaysClosed, Open!Results, Open!openAsync, Open!flags, Open!task,
          Open!application, Open!opened, Open!history
  <2>4. OpenFlags'
    BY <1>6, Zenon DEF OpenInv, OpenFlags, Open!openAsync, Open!flags, Open!task,
       Open!application, Open!opened, Open!history
  <2> QED BY <2>1, <2>2, <2>3, <2>4 DEF OpenInv
<1>7. CASE Open!close
  <2>1. OpenSteps'
    BY <1>7, UrlAssumption, ZenonT(60) DEF OpenInv, OpenSteps, Running, Open!Results, Open!close,
       Open!flags, Open!task, Open!application, Open!opened, Open!history
  <2>2. Running'
    BY <1>7, UrlAssumption, ZenonT(60) DEF OpenInv, OpenSteps, Running, Open!Results, Open!close,
       Open!flags, Open!task, Open!application, Open!opened, Open!history
  <2>3. Outcome' /\ Open!ClosedStaysClosed'
    BY <1>7, UrlAssumption, ZenonT(60) DEF OpenInv, OpenSteps, Running, Outcome, Describes,
       Open!ClosedStaysClosed, Open!Results, Open!close, Open!flags, Open!task,
          Open!application, Open!opened, Open!history
  <2>4. OpenFlags'
    BY <1>7, Zenon DEF OpenInv, OpenFlags, Open!close, Open!flags, Open!task, Open!application,
       Open!opened, Open!history
  <2> QED BY <2>1, <2>2, <2>3, <2>4 DEF OpenInv
<1> QED BY <1>1, <1>2, <1>3, <1>4, <1>5, <1>6, <1>7, SMTT(60) DEF Open!App

\* The steps of the task, whose result stays a description of the stream.
LEMMA TaskInv == ASSUME OpenInv, Open!Task PROVE OpenInv'
<1>1. CASE Open!TaskLock
  <2>1. OpenSteps'
    BY <1>1, UrlAssumption, ZenonT(60) DEF OpenInv, OpenSteps, Running, Open!Results, Open!TaskLock,
       Open!flags, Open!task, Open!application, Open!opened, Open!history
  <2>2. Running'
    BY <1>1, UrlAssumption, ZenonT(60) DEF OpenInv, OpenSteps, Running, Open!Results, Open!TaskLock,
       Open!flags, Open!task, Open!application, Open!opened, Open!history
  <2>3. Outcome' /\ Open!ClosedStaysClosed'
    BY <1>1, UrlAssumption, ZenonT(60) DEF OpenInv, OpenSteps, Running, Outcome, Describes,
       Open!ClosedStaysClosed, Open!Results, Open!TaskLock, Open!flags, Open!task,
          Open!application, Open!opened, Open!history
  <2>4. OpenFlags'
    BY <1>1, Zenon DEF OpenInv, OpenFlags, Open!TaskLock, Open!flags, Open!task,
       Open!application, Open!opened, Open!history
  <2> QED BY <2>1, <2>2, <2>3, <2>4 DEF OpenInv
<1>2. CASE Open!TaskCheck
  <2>1. OpenSteps'
    BY <1>2, UrlAssumption, ZenonT(60) DEF OpenInv, OpenSteps, Running, Open!Results, Open!TaskCheck,
       Open!flags, Open!task, Open!application, Open!opened, Open!history
  <2>2. Running'
    BY <1>2, UrlAssumption, ZenonT(60) DEF OpenInv, OpenSteps, Running, Open!Results, Open!TaskCheck,
       Open!flags, Open!task, Open!application, Open!opened, Open!history
  <2>3. Outcome' /\ Open!ClosedStaysClosed'
    BY <1>2, UrlAssumption, ZenonT(60) DEF OpenInv, OpenSteps, Running, Outcome, Describes,
       Open!ClosedStaysClosed, Open!Results, Open!TaskCheck, Open!flags, Open!task,
          Open!application, Open!opened, Open!history
  <2>4. OpenFlags'
    BY <1>2, Zenon DEF OpenInv, OpenFlags, Open!TaskCheck, Open!flags, Open!task,
       Open!application, Open!opened, Open!history
  <2> QED BY <2>1, <2>2, <2>3, <2>4 DEF OpenInv
<1>3. CASE Open!TaskOpen
  <2>1. OpenSteps'
    BY <1>3, UrlAssumption, ZenonT(60) DEF OpenInv, OpenSteps, Running, Open!Results, Open!TaskOpen,
       Open!OpenInternal, Open!flags, Open!task, Open!application, Open!opened, Open!history
  <2>2. Running'
    BY <1>3, UrlAssumption, ZenonT(60) DEF OpenInv, OpenSteps, Running, Open!Results, Open!TaskOpen,
       Open!OpenInternal, Open!flags, Open!task, Open!application, Open!opened, Open!history
  <2>3. Outcome' /\ Open!ClosedStaysClosed'
    BY <1>3, UrlAssumption, ZenonT(60) DEF OpenInv, OpenSteps, Running, Outcome, Describes,
       Open!ClosedStaysClosed, Open!Results, Open!TaskOpen, Open!OpenInternal, Open!flags,
          Open!task, Open!application, Open!opened, Open!history
  <2>4. OpenFlags'
    BY <1>3, Zenon DEF OpenInv, OpenFlags, Open!TaskOpen, Open!OpenInternal, Open!flags,
       Open!task, Open!application, Open!opened, Open!history
  <2> QED BY <2>1, <2>2, <2>3, <2>4 DEF OpenInv
<1>4. CASE Open!TaskTest
  <2>1. OpenSteps'
    BY <1>4, UrlAssumption, ZenonT(60) DEF OpenInv, OpenSteps, Running, Open!Results, Open!TaskTest,
       Open!flags, Open!task, Open!application, Open!opened, Open!history
  <2>2. Running'
    BY <1>4, UrlAssumption, ZenonT(60) DEF OpenInv, OpenSteps, Running, Open!Results, Open!TaskTest,
       Open!flags, Open!task, Open!application, Open!opened, Open!history
  <2>3. Outcome' /\ Open!ClosedStaysClosed'
    BY <1>4, UrlAssumption, ZenonT(60) DEF OpenInv, OpenSteps, Running, Outcome, Describes,
       Open!ClosedStaysClosed, Open!Results, Open!TaskTest, Open!flags, Open!task,
          Open!application, Open!opened, Open!history
  <2>4. OpenFlags'
    BY <1>4, Zenon DEF OpenInv, OpenFlags, Open!TaskTest, Open!flags, Open!task,
       Open!application, Open!opened, Open!history
  <2> QED BY <2>1, <2>2, <2>3, <2>4 DEF OpenInv
<1>5. CASE Open!TaskTake
  <2>1. OpenSteps'
    BY <1>5, UrlAssumption, ZenonT(60) DEF OpenInv, OpenSteps, Running, Open!Results, Open!TaskTake,
       Open!flags, Open!task, Open!application, Open!opened, Open!history
  <2>2. Running'
    BY <1>5, UrlAssumption, ZenonT(60) DEF OpenInv, OpenSteps, Running, Open!Results, Open!TaskTake,
       Open!flags, Open!task, Open!application, Open!opened, Open!history
  <2>3. Outcome' /\ Open!ClosedStaysClosed'
    BY <1>5, UrlAssumption, ZenonT(60) DEF OpenInv, OpenSteps, Running, Outcome, Describes,
       Open!ClosedStaysClosed, Open!Results, Open!TaskTake, Open!flags, Open!task,
          Open!application, Open!opened, Open!history
  <2>4. OpenFlags'
    BY <1>5, Zenon DEF OpenInv, OpenFlags, Open!TaskTake, Open!flags, Open!task,
       Open!application, Open!opened, Open!history
  <2> QED BY <2>1, <2>2, <2>3, <2>4 DEF OpenInv
<1>6. CASE Open!TaskCall
  <2>1. OpenSteps'
    BY <1>6, UrlAssumption, ZenonT(60) DEF OpenInv, OpenSteps, Running, Open!Results, Open!TaskCall,
       Open!flags, Open!task, Open!application, Open!opened, Open!history
  <2>2. Running'
    BY <1>6, UrlAssumption, ZenonT(60) DEF OpenInv, OpenSteps, Running, Open!Results, Open!TaskCall,
       Open!flags, Open!task, Open!application, Open!opened, Open!history
  <2>3. Outcome' /\ Open!ClosedStaysClosed'
    BY <1>6, UrlAssumption, ZenonT(60) DEF OpenInv, OpenSteps, Running, Outcome, Describes,
       Open!ClosedStaysClosed, Open!Results, Open!TaskCall, Open!flags, Open!task,
          Open!application, Open!opened, Open!history
  <2>4. OpenFlags'
    BY <1>6, Zenon DEF OpenInv, OpenFlags, Open!TaskCall, Open!flags, Open!task,
       Open!application, Open!opened, Open!history
  <2> QED BY <2>1, <2>2, <2>3, <2>4 DEF OpenInv
<1>7. CASE Open!TaskFinish
  <2>1. OpenSteps'
    BY <1>7, UrlAssumption, ZenonT(60) DEF OpenInv, OpenSteps, Running, Open!Results, Open!TaskFinish,
       Open!flags, Open!task, Open!application, Open!opened, Open!history
  <2>2. Running'
    BY <1>7, UrlAssumption, ZenonT(60) DEF OpenInv, OpenSteps, Running, Open!Results, Open!TaskFinish,
       Open!flags, Open!task, Open!application, Open!opened, Open!history
  <2>3. Outcome' /\ Open!ClosedStaysClosed'
    BY <1>7, UrlAssumption, ZenonT(60) DEF OpenInv, OpenSteps, Running, Outcome, Describes,
       Open!ClosedStaysClosed, Open!Results, Open!TaskFinish, Open!flags, Open!task,
          Open!application, Open!opened, Open!history
  <2>4. OpenFlags'
    BY <1>7, Zenon DEF OpenInv, OpenFlags, Open!TaskFinish, Open!flags, Open!task,
       Open!application, Open!opened, Open!history
  <2> QED BY <2>1, <2>2, <2>3, <2>4 DEF OpenInv
<1> QED BY <1>1, <1>2, <1>3, <1>4, <1>5, <1>6, <1>7 DEF Open!Task

\* Every step of the specification, or none.
LEMMA OpenStep == OpenInv /\ [Open!Next]_oVars => OpenInv'
<1> SUFFICES ASSUME OpenInv, [Open!Next]_oVars PROVE OpenInv'
    OBVIOUS
<1>1. CASE UNCHANGED oVars
  <2>1. UNCHANGED <<oMutex, oInProgress, oCancel, oCallback, oTpc, oTurl, oResult, oApc, oCall,
                    oUrl, oStream, oDecoders, oTold, oBefore>>
    BY <1>1 DEF oVars
  <2>2. OpenFlags'
    BY <2>1, Zenon DEF OpenInv, OpenFlags
  <2>3. OpenSteps' /\ Running'
    <3>1. OpenSteps'
        BY <2>1 DEF OpenInv, OpenSteps
    <3>2. Running'
        BY <2>1 DEF OpenInv, Running
    <3> QED BY <3>1, <3>2
  <2>4. Outcome' /\ Open!ClosedStaysClosed'
    BY <2>1 DEF OpenInv, Outcome, Describes, Open!ClosedStaysClosed
  <2> QED BY <2>2, <2>3, <2>4, SMTT(60) DEF OpenInv
<1>2. CASE \E c \in {"open", "openAsync"}, u \in Urls : Open!Enter(c, u)
    BY <1>2, EnterInv
<1>3. CASE \E c \in {"cancel", "close"} : Open!Enter(c, NoUrl)
    BY <1>3, EnterInv
<1> QED BY <1>1, <1>2, <1>3, DestroyInv, AppInv, TaskInv DEF Open!Next

\* The inductive invariant holds of every behaviour.
THEOREM OpenInvariance == Open!Spec => []OpenInv
<1> QED BY OpenInit, OpenStep, PTL DEF Open!Spec, Open!vars, oVars

\* The types, and mutex_ is never left locked by the task.
THEOREM OpenTypes == Open!Spec => []Open!TypeOK
<1>1. OpenInv => Open!TypeOK
    BY DEF OpenInv, OpenSteps, OpenFlags, Open!TypeOK
<1> QED BY <1>1, OpenInvariance, PTL

\* After cancelAsyncOpen no task is left and its callback has been answered,
\* whichever step of the task the cancellation met.
THEOREM Settled == Open!Spec => []CancelSettles
<1>1. OpenInv => CancelSettles
    BY SMTT(60) DEF OpenInv, Running, CancelSettles, Open!CancelSettles
<1> QED BY <1>1, OpenInvariance, PTL

\* The callback's answer describes the stream that the application finds.
THEOREM TrueAnswers == Open!Spec => []OutcomeIsTrue
<1>1. OpenInv => OutcomeIsTrue
    BY DEF OpenInv, Outcome, Describes, OutcomeIsTrue, Open!OutcomeIsTrue
<1> QED BY <1>1, OpenInvariance, PTL

\* close() has the last word over a task that was opening a stream.
THEOREM CloseIsFinal == Open!Spec => []ClosedStaysClosed
<1>1. OpenInv => ClosedStaysClosed
    BY DEF OpenInv, ClosedStaysClosed
<1> QED BY <1>1, OpenInvariance, PTL
=============================================================================
