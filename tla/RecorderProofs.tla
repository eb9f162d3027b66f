--------------------------- MODULE RecorderProofs ---------------------------
(***************************************************************************)
(* The recorder's file is one run of one recording and can be played, for  *)
(* any streams, callers, queue capacity and pair of time bases.            *)
(*                                                                         *)
(* The argument has two layers.  Control ties the state of the recorder to *)
(* the phase of the call that holds its mutex: from the start of a         *)
(* recording to the cleanup of its stop the output is there, outside that  *)
(* the queues and the file are empty.  Tracks follows the packets of one   *)
(* medium of one stream, by their numbers, through the four places they    *)
(* can be in: the rest of the stream, the demux thread's hand, the queue   *)
(* and the file.  The places are in order, and a number missing in between *)
(* is one that was lost on the way to the queue.                           *)
(***************************************************************************)
EXTENDS Recorder, TLAPS
-----------------------------------------------------------------------------
(* Types. *)

Waiting == {"idle", "closeRecording", "closeStream"}
Starting == {"startQueues", "startThread"}
Stopping == {"abort", "join", "stopped"}
Holding == Starting \cup Stopping \cup {"closeJoin", "openJoin"}

Times == [pts : Stamps, dts : Stamps]
QueuedType == [packet : PacketType, stream : Nat, recording : Nat]
WrittenType == [packet : PacketType, stream : Nat, recording : Nat, out : Times]

CallTypes ==
    /\ mutex \in Callers \cup {NoCaller} /\ call \in [Callers -> Waiting \cup Holding]
    /\ closing \subseteq Callers
    /\ \A c \in Callers : call[c] \in Holding <=> mutex = c

DataTypes ==
    /\ stream \in Nat /\ opens \in Nat /\ recordings \in Nat
    /\ rest \in Seq(PacketType)
    /\ dpc \in {"none", "read", "write"} /\ (dpc = "write" => pkt \in PacketType)
    /\ isRecording \in BOOLEAN /\ mapping \in BOOLEAN
    /\ aborted \in [Media -> BOOLEAN]
    /\ rpc \in {"none", "top"} \cup Media /\ hasKeyFrame \in BOOLEAN
    /\ queue \in [Media -> Seq(QueuedType)]
    /\ file \in Seq(WrittenType)
    /\ first \in [Media -> Times]
    /\ \A m \in Media : first[m] = NoFirst[m] \/ first[m] \in [pts : Nat, dts : Nat]

TypeOK == CallTypes /\ DataTypes
-----------------------------------------------------------------------------
(* What the holder of the mutex is doing, and what is there meanwhile. *)

Phase == IF mutex = NoCaller THEN "free" ELSE call[mutex]

\* From the start of a recording to the cleanup of its stop.
Recording == (isRecording /\ Phase # "stopped") \/ Phase \in Starting

\* The output is that of the last recording and ready to be written.
Ready ==
    /\ output = recordings /\ output # 0 /\ input # 0 /\ mapping
    /\ \A m \in Media : layout[m] \in formatInfoMap[format][m] \cup {"none"}

\* Between recordings, when nothing can enter a queue.
Quiet == (~isRecording /\ Phase # "startThread") \/ Phase = "stopped"

Control ==
    /\ isRecording => Phase \notin Starting
    /\ Phase \in Stopping => isRecording
    /\ rpc # "none" => isRecording /\ Phase # "stopped"
    /\ Recording => Ready
    /\ Quiet => queue = Empty
    /\ (~isRecording \/ Phase = "stopped") => file = <<>>
    /\ Phase \in {"join", "stopped"} => \A m \in Media : aborted[m]
    /\ (~isRecording /\ Phase # "startThread") => dpc # "write" \/ \A m \in Media : aborted[m]
    /\ Phase = "openJoin" => opens < Len(Inputs)

\* The recording thread has met its key frame if there is something in the file.
KeyFrames ==
    /\ rpc # "none" => (hasKeyFrame <=> file # <<>>)
    /\ rpc = "audio" => hasKeyFrame
    /\ KeyFrameFirst

\* What is in the file has been converted with the first stamps of its medium.
Stamped ==
    \A i \in DOMAIN file :
        LET m == file[i].packet.media
        IN  first[m] # NoFirst[m] /\ file[i].out = Convert(file[i].packet, first[m])
-----------------------------------------------------------------------------
(* The numbers of the packets of medium m of stream s: in the file, in the   *)
(* queue, in the demux thread's hand, and still to be read.                  *)

InFile(s, m) ==
    {file[i].packet.n : i \in {j \in DOMAIN file : file[j].packet.media = m /\ file[j].stream = s}}
InQueue(s, m) == {queue[m][i].packet.n : i \in {j \in DOMAIN queue[m] : queue[m][j].stream = s}}
InHand(s, m) == IF dpc = "write" /\ stream = s /\ pkt.media = m THEN {pkt.n} ELSE {}
ToRead(s, m) ==
    IF stream = s THEN {rest[i].n : i \in {j \in DOMAIN rest : rest[j].media = m}} ELSE {}
Lost(s, m) == {k \in Nat : <<s, m, k>> \in lost}

Below(A, B) == \A a \in A, b \in B : a < b
NoGap(A, B) == \A a, b \in A : \A k \in Nat : a < k /\ k < b => k \in B

\* What is written, queued, in hand and to be read is in this order, and what
\* is missing in between has not been queued.
Ordered(F, Q, H, R) == Below(F, Q \cup H \cup R) /\ Below(Q, H \cup R) /\ Below(H, R)
Dense(F, Q, H, R, L) ==
    NoGap(F \cup Q \cup H \cup R, F \cup Q \cup H \cup R \cup L) /\ NoGap(H \cup R, H \cup R)
Track(F, Q, H, R, L) == Ordered(F, Q, H, R) /\ Dense(F, Q, H, R, L)

Tracks ==
    \A s \in Nat, m \in Media :
        Track(InFile(s, m), InQueue(s, m), InHand(s, m), ToRead(s, m), Lost(s, m))

\* Each of the sequences is in order, and holds what belongs there.
FileSorted ==
    \A i, j \in DOMAIN file :
        i < j /\ file[i].packet.media = file[j].packet.media /\ file[i].stream = file[j].stream
        => file[i].packet.n < file[j].packet.n
QueueSorted ==
    \A m \in Media : \A i, j \in DOMAIN queue[m] :
        i < j /\ queue[m][i].stream = queue[m][j].stream
        => queue[m][i].packet.n < queue[m][j].packet.n
RestSorted ==
    \A i, j \in DOMAIN rest : i < j /\ rest[i].media = rest[j].media => rest[i].n < rest[j].n

\* No packet is of a stream yet to be opened, or in the queue of the other medium.
Placed ==
    /\ stream <= opens
    /\ \A i \in DOMAIN file : file[i].stream <= opens
    /\ \A m \in Media : \A i \in DOMAIN queue[m] :
        queue[m][i].stream <= opens /\ queue[m][i].packet.media = m

Sequenced == Tracks /\ FileSorted /\ QueueSorted /\ RestSorted /\ Placed

\* The inductive invariant.
Inv == TypeOK /\ Control /\ OwnPackets /\ KeyFrames /\ Stamped /\ Sequenced
-----------------------------------------------------------------------------
(* Time stamps. *)

\* A quotient is the largest number whose product with the divisor fits.
LEMMA Quotient ==
    ASSUME NEW a \in Nat, NEW d \in Nat \ {0}
    PROVE  a \div d \in Nat /\ d * (a \div d) <= a /\ a < d * (a \div d) + d
OBVIOUS

\* A dividend that is larger by the divisor has a larger quotient.
LEMMA QuotientGrows ==
    ASSUME NEW a \in Nat, NEW b \in Nat, NEW d \in Nat \ {0}, a + d <= b
    PROVE  a \div d < b \div d
<1> DEFINE p == a \div d
           q == b \div d
<1>1. p \in Nat /\ q \in Nat /\ a < d * p + d /\ d * p <= a /\ b < d * q + d
  BY Quotient, Zenon
<1> HIDE DEF p, q
<1>2. SUFFICES ASSUME q <= p PROVE FALSE
  BY <1>1 DEF p, q
<1>3. d * q <= d * p
  BY <1>1, <1>2
<1> QED
  BY <1>1, <1>3

\* av_rescale_q gives a time of the output, and keeps times apart if the
\* output's clock is no coarser.
LEMMA Rescaled ==
    ASSUME NEW x \in Nat, NEW y \in Nat
    PROVE  /\ av_rescale_q(x) \in Nat
           /\ x < y /\ Num >= Den => av_rescale_q(x) < av_rescale_q(y)
<1> DEFINE a == 2 * x * Num + Den
           b == 2 * y * Num + Den
<1>1. Num \in Nat \ {0} /\ Den \in Nat \ {0} /\ 2 * Den \in Nat \ {0}
  BY RecorderAssumption
<1>2. a \in Nat /\ b \in Nat
  BY <1>1
<1>3. av_rescale_q(x) \in Nat
  BY <1>1, <1>2, Quotient, Zenon DEF av_rescale_q
<1>4. ASSUME x < y, Num >= Den PROVE av_rescale_q(x) < av_rescale_q(y)
  <2>1. PICK z \in Nat : y = x + 1 + z
    <3>1. y - x - 1 \in Nat /\ y = x + 1 + (y - x - 1)
      BY <1>4
    <3> QED
      BY <3>1, Zenon
  <2>2. 2 * y * Num = 2 * x * Num + 2 * Num + 2 * z * Num /\ 2 * z * Num \in Nat
    BY <1>1, <2>1
  <2>3. a + 2 * Den <= b
    BY <1>1, <1>2, <1>4, <2>2
  <2> QED
    BY <1>1, <1>2, <2>3, QuotientGrows, Zenon DEF av_rescale_q
<1> QED
  BY <1>3, <1>4, Zenon

\* The first stamps of a medium are times.
LEMMA FirstTimes == ASSUME NEW p \in PacketType PROVE FirstOf(p) \in [pts : Nat, dts : Nat]
BY RecorderAssumption, Zenon DEF FirstOf, PacketType, Stamps

\* What a time stamp becomes.
LEMMA RelativeType ==
    ASSUME NEW t \in Stamps, NEW t0 \in Nat
    PROVE  Relative(t, t0) \in Stamps /\ (t # NoPts => Relative(t, t0) \in Nat)
<1>1. CASE t = NoPts
  BY <1>1, Zenon DEF Relative, Stamps
<1>2. CASE t # NoPts
  <2>1. t \in Nat
    BY <1>2, Zenon DEF Stamps
  <2>2. (IF t < t0 THEN 0 ELSE t - t0) \in Nat
    BY <2>1
  <2>3. av_rescale_q(IF t < t0 THEN 0 ELSE t - t0) \in Nat
    BY <2>2, Rescaled, Zenon
  <2> QED
    BY <1>2, <2>3, Zenon DEF Relative, Stamps
<1> QED
  BY <1>1, <1>2, Zenon

\* What convertTimestamp gives: no negative time, and no DTS after its PTS.
LEMMA ConvertType ==
    ASSUME NEW p \in PacketType, NEW f \in [pts : Nat, dts : Nat]
    PROVE  /\ Convert(p, f) \in Times
           /\ {Convert(p, f).pts, Convert(p, f).dts} \ {NoPts} \subseteq Nat
           /\ NoPts \notin {Convert(p, f).pts, Convert(p, f).dts}
              => Convert(p, f).dts <= Convert(p, f).pts
<1> DEFINE x == Relative(p.pts, f.pts)
           y == Relative(p.dts, f.dts)
<1>1. x \in Stamps /\ y \in Stamps
  BY RelativeType, Zenon DEF PacketType
<1>2. Convert(p, f) = [pts |-> x, dts |-> IF NoPts \notin {x, y} /\ y > x THEN x ELSE y]
  BY Zenon DEF Convert
<1> HIDE DEF x, y
<1> QED
  BY <1>1, <1>2, RecorderAssumption DEF Times, Stamps

\* Packets that are not reordered keep apart.
LEMMA ConvertKeepsApart ==
    ASSUME NEW a \in PacketType, NEW b \in PacketType, NEW f \in [pts : Nat, dts : Nat],
           a.dts # NoPts, b.dts # NoPts, a.pts = a.dts, b.pts = b.dts, a.dts < b.dts,
           b.dts > f.dts, Num >= Den, f.pts = f.dts
    PROVE  Convert(a, f).dts < Convert(b, f).dts
<1> DEFINE x == IF a.dts < f.dts THEN 0 ELSE a.dts - f.dts
           y == IF b.dts < f.dts THEN 0 ELSE b.dts - f.dts
<1>1. a.dts \in Nat /\ b.dts \in Nat /\ f.dts \in Nat
  BY Zenon DEF PacketType, Stamps
<1>2. x \in Nat /\ y \in Nat /\ x < y
  BY <1>1
<1>3. Relative(a.dts, f.dts) = av_rescale_q(x) /\ Relative(b.dts, f.dts) = av_rescale_q(y)
  BY <1>1, RecorderAssumption, Zenon DEF Relative
<1> HIDE DEF x, y
<1>4. av_rescale_q(x) \in Nat /\ av_rescale_q(y) \in Nat /\ av_rescale_q(x) < av_rescale_q(y)
  BY <1>2, Rescaled, Zenon
<1>5. Convert(a, f).dts = av_rescale_q(x) /\ Convert(b, f).dts = av_rescale_q(y)
  BY <1>3, <1>4, Zenon DEF Convert
<1> QED
  BY <1>4, <1>5, Zenon
-----------------------------------------------------------------------------
(* Phases. *)

\* c has the mutex and goes on with its call.
LEMMA Held ==
    ASSUME CallTypes, NEW c \in Callers, mutex \in {NoCaller, c}, NEW step \in Holding,
           Hold(c, step), closing' \subseteq Callers
    PROVE  CallTypes' /\ Phase' = step
<1>1. NoCaller \notin Callers
  BY RecorderAssumption, Zenon
<1>2. Waiting \cap Holding = {}
  BY Zenon DEF Waiting, Holding, Starting, Stopping
<1>3. call' \in [Callers -> Waiting \cup Holding]
  BY Zenon DEF CallTypes, Hold
<1> QED
  BY <1>1, <1>2, <1>3, Zenon DEF CallTypes, Hold, Phase

\* c gives the mutex back.
LEMMA Left ==
    ASSUME CallTypes, NEW c \in Callers, mutex \in {NoCaller, c}, NEW step \in Waiting,
           Leave(c, step), closing' \subseteq Callers
    PROVE  CallTypes' /\ Phase' = "free"
<1>1. NoCaller \notin Callers
  BY RecorderAssumption, Zenon
<1>2. Waiting \cap Holding = {}
  BY Zenon DEF Waiting, Holding, Starting, Stopping
<1>3. call' \in [Callers -> Waiting \cup Holding]
  BY Zenon DEF CallTypes, Leave
<1> QED
  BY <1>1, <1>2, <1>3, Zenon DEF CallTypes, Leave, Phase

\* Where c is when it begins or goes on with a call.
LEMMA Begun ==
    ASSUME NEW c \in Callers, NEW step
    PROVE  /\ Enter(c, step) => mutex = NoCaller /\ Phase = "free"
           /\ At(c, step) => mutex = c /\ Phase = step
BY RecorderAssumption, Zenon DEF Enter, At, Phase

\* A step that leaves the callers alone leaves the holder of the mutex where it is.
LEMMA SamePhase ==
    CallTypes /\ UNCHANGED callers => CallTypes' /\ Phase' = Phase
BY Zenon DEF CallTypes, callers, Phase

\* The calls keep to the mutex, and what a phase of a recording needs is there.
LEMMA ControlStep == TypeOK /\ Control /\ [Next]_vars => CallTypes' /\ Control'
<1> SUFFICES ASSUME TypeOK, Control, [Next]_vars PROVE CallTypes' /\ Control'
  OBVIOUS
<1>a. CallTypes /\ closing \subseteq Callers /\ Recorders \subseteq Callers
  BY RecorderAssumption, Zenon DEF TypeOK, CallTypes
<1>b. recordings \in Nat /\ dpc \in {"none", "read", "write"}
  BY Zenon DEF TypeOK, DataTypes
<1>1. ASSUME NEW c \in Recorders, NEW ext \in Extensions, Refused(c, ext)
      PROVE  CallTypes' /\ Control'
  <2>1. Phase = "free" /\ Phase' = "free" /\ CallTypes'
    BY <1>a, <1>1, Begun, SamePhase, Zenon DEF Refused
  <2> QED
    BY <2>1, <1>1, Zenon DEF Refused, Control, Recording, Ready, Quiet, Starting, Stopping, flags, queues,
       demux, thread, written
<1>2. ASSUME NEW c \in Recorders, NEW ext \in Extensions, startRecording(c, ext)
      PROVE  CallTypes' /\ Control'
  <2>0. Phase = "free" /\ mutex = NoCaller /\ UNCHANGED <<closing, demux, flags, aborted, rpc>>
    BY <1>a, <1>2, Begun, Zenon DEF startRecording
  <2>1. ~isRecording /\ rpc = "none" /\ queue = Empty /\ file = <<>>
    BY <2>0, <1>2, Zenon DEF startRecording, Control, Quiet
  <2>2. CASE initOutputContextFails(ext)
    <3>1. Phase' = "free" /\ CallTypes'
      BY <1>a, <2>0, <2>2, SamePhase, Zenon DEF initOutputContextFails, callers
    <3> QED
      BY <2>0, <2>1, <2>2, <3>1, Zenon DEF initOutputContextFails, Control, Recording, Quiet, Starting, Stopping,
         flags, demux
  <2>3. CASE createStreamMappingFails
    <3>1. Phase' = "free" /\ CallTypes'
      BY <1>a, <2>0, <2>3, SamePhase, Zenon DEF createStreamMappingFails, callers
    <3> QED
      BY <2>0, <2>1, <2>3, <3>1, Zenon DEF createStreamMappingFails, cleanup, Control, Recording, Quiet, Starting,
         Stopping, flags, demux
  <2>4. CASE initOutputContext(ext) /\ mapping' = TRUE /\ Hold(c, "startQueues")
    <3>1. Phase' = "startQueues" /\ CallTypes'
      BY <1>a, <2>0, <2>4, Held, Zenon DEF Holding, Starting
    <3>2. output' = recordings' /\ output' # 0 /\ input' # 0 /\ mapping'
      BY <1>b, <1>2, <2>4 DEF startRecording, initOutputContext
    <3>3. layout' = codecs /\ format' = detectContainerFormat(ext)
      BY <2>4, Zenon DEF initOutputContext
    <3>4. Ready'
      BY <1>2, <3>2, <3>3, Zenon DEF startRecording, validateFormatCompatibility, Ready
    <3> QED
      BY <2>0, <2>1, <2>4, <3>1, <3>4, Zenon DEF initOutputContext, Control, Recording, Quiet, Starting, Stopping,
         flags, demux
  <2> QED
    BY <1>2, <2>2, <2>3, <2>4, Zenon DEF startRecording
<1>3. ASSUME NEW c \in Callers, StartQueues(c) PROVE CallTypes' /\ Control'
  <2>1. Phase = "startQueues" /\ Phase' = "startThread" /\ CallTypes'
    BY <1>a, <1>3, Begun, Held DEF StartQueues, Holding, Starting
  <2> QED
    BY <1>3, <2>1, Zenon DEF StartQueues, Control, Recording, Ready, Quiet, Starting, Stopping, flags, contexts,
       thread, written, demux
<1>4. ASSUME NEW c \in Callers, StartThread(c) PROVE CallTypes' /\ Control'
  <2>1. Phase = "startThread" /\ Phase' = "free" /\ CallTypes'
    BY <1>a, <1>4, Begun, Left, Zenon DEF StartThread, Waiting
  <2> QED
    BY <1>4, <2>1, Zenon DEF StartThread, Control, Recording, Ready, Quiet, Starting, Stopping, contexts, queues,
       written, demux
<1>5. ASSUME NEW c \in Callers, NEW step, stopRecording(c, step) PROVE CallTypes' /\ Control'
  <2>1. Phase = "free" /\ Phase' = "abort" /\ CallTypes'
    BY <1>a, <1>5, Begun, Held, Zenon DEF stopRecording, Holding, Stopping
  <2> QED
    BY <1>5, <2>1, Zenon DEF stopRecording, Control, Recording, Ready, Quiet, Starting, Stopping, contexts, queues,
       thread, written, demux
<1>6. ASSUME NEW c \in Callers, AbortQueues(c) PROVE CallTypes' /\ Control'
  <2>1. Phase = "abort" /\ Phase' = "join" /\ CallTypes'
    BY <1>a, <1>6, Begun, Held DEF AbortQueues, Holding, Stopping
  <2> QED
    BY <1>6, <2>1, Zenon DEF AbortQueues, Control, Recording, Ready, Quiet, Starting, Stopping, flags, contexts,
       thread, written, demux
<1>7. ASSUME NEW c \in Callers, Cleanup(c) PROVE CallTypes' /\ Control'
  <2>1. Phase = "join" /\ Phase' = "stopped" /\ CallTypes'
    BY <1>a, <1>7, Begun, Held DEF Cleanup, Holding, Stopping
  <2> QED
    BY <1>7, <2>1, Zenon DEF Cleanup, cleanup, Control, Recording, Quiet, Starting, Stopping, flags, thread, demux
<1>8. ASSUME NEW c \in Callers, Stopped(c) PROVE CallTypes' /\ Control'
  <2>1. Phase = "stopped" /\ Phase' = "free" /\ CallTypes'
    BY <1>a, <1>8, Begun, Left, Zenon DEF Stopped, Waiting
  <2> QED
    BY <1>8, <2>1, Zenon DEF Stopped, Control, Recording, Quiet, Starting, Stopping, queues, contexts, thread,
       written, demux
<1>9. ASSUME NEW c \in Callers, close(c) \/ AlreadyStopped(c) PROVE CallTypes' /\ Control'
  <2>1. Phase = "free" /\ Phase' = "free" /\ CallTypes'
    BY <1>a, <1>9, Begun, Left, Zenon DEF close, AlreadyStopped, Waiting
  <2> QED
    BY <1>9, <2>1 DEF close, AlreadyStopped, Control, Recording, Ready, Quiet, Starting, Stopping, flags,
       queues, contexts, thread, written, demux
<1>10. ASSUME NEW c \in Callers, NEW step, NEW next \in {"closeJoin", "openJoin"},
              Interrupt(c, step, next), next = "openJoin" => opens < Len(Inputs)
       PROVE  CallTypes' /\ Control'
  <2>1. Phase = "free" /\ Phase' = next /\ CallTypes'
    BY <1>a, <1>10, Begun, Held, Zenon DEF Interrupt, Holding
  <2> QED
    BY <1>10, <2>1, Zenon DEF Interrupt, Control, Recording, Ready, Quiet, Starting, Stopping, flags,
       queues, contexts, thread, written, source
<1>11. ASSUME NEW c \in Callers, CloseStream(c) PROVE CallTypes' /\ Control'
  <2>1. Phase = "closeJoin" /\ Phase' = "free" /\ CallTypes'
    BY <1>a, <1>11, Begun, Left, Zenon DEF CloseStream, Waiting
  <2> QED
    BY <1>11, <2>1, Zenon DEF CloseStream, Control, Recording, Ready, Quiet, Starting, Stopping, flags,
       queues, contexts, thread, written
<1>12. ASSUME NEW c \in Callers, OpenStream(c) PROVE CallTypes' /\ Control'
  <2>1. Phase = "openJoin" /\ Phase' = "free" /\ CallTypes'
    BY <1>a, <1>12, Begun, Left, Zenon DEF OpenStream, Waiting
  <2>2. dpc' # "write"
    BY <1>12, Zenon DEF OpenStream
  <2> QED
    BY <1>12, <2>1, <2>2, Zenon DEF OpenStream, Control, Recording, Ready, Quiet, Starting, Stopping, flags,
       queues, contexts, thread, written
<1>13. CASE Read
  <2>1. Phase' = Phase /\ CallTypes'
    BY <1>a, <1>13, SamePhase, Zenon DEF Read
  <2> QED
    BY <1>13, <2>1, Zenon DEF Read, Control, Recording, Ready, Quiet, Starting, Stopping, flags,
       queues, contexts, thread
<1>14. CASE writePacket
  <2>1. Phase' = Phase /\ CallTypes'
    BY <1>a, <1>14, SamePhase, Zenon DEF writePacket
  <2>2. pkt.media \in Media
    BY <1>14, Zenon DEF writePacket, TypeOK, DataTypes, PacketType
  <2>3. Quiet => queue' = queue
    BY <1>14, <2>2, Zenon DEF writePacket, Control, Quiet
  <2>4. UNCHANGED <<source, flags, aborted, contexts, thread, file, recordings>> /\ dpc' = "read"
    BY <1>14, Zenon DEF writePacket
  <2> QED
    BY <2>1, <2>3, <2>4, Zenon DEF Control, Recording, Ready, Quiet, Starting, Stopping, flags, contexts, thread,
       source
<1>15. CASE ThreadEnds
  <2>1. Phase' = Phase /\ CallTypes'
    BY <1>a, <1>15, SamePhase, Zenon DEF ThreadEnds
  <2> QED
    BY <1>15, <2>1, Zenon DEF ThreadEnds, source, Control, Recording, Ready, Quiet, Starting, Stopping, flags,
       queues, contexts, thread, written
<1>16. CASE LoopTop
  <2>1. Phase' = Phase /\ CallTypes'
    BY <1>a, <1>16, SamePhase, Zenon DEF LoopTop
  <2> QED
    BY <1>16, <2>1, Zenon DEF LoopTop, source, Control, Recording, Ready, Quiet, Starting, Stopping, flags,
       queues, contexts, written, demux
<1>17. ASSUME NEW m \in Media, Pop(m) PROVE CallTypes' /\ Control'
  <2>1. Phase' = Phase /\ CallTypes'
    BY <1>a, <1>17, SamePhase, Zenon DEF Pop
  <2>2. isRecording /\ Phase # "stopped"
    BY <1>17, Zenon DEF Pop, Control, Media
  <2> QED
    BY <1>17, <2>1, <2>2, Zenon DEF Pop, source, Control, Recording, Ready, Quiet, Starting, Stopping, flags, demux
<1>18. CASE UNCHANGED vars
  <2>1. Phase' = Phase /\ CallTypes'
    BY <1>a, <1>18, SamePhase, Zenon DEF vars
  <2> QED
    BY <1>18, <2>1, Zenon DEF vars, source, Control, Recording, Ready, Quiet, Starting, Stopping, flags,
       queues, contexts, written, demux, thread
<1> QED
  BY Zenon, <1>a, <1>1, <1>2, <1>3, <1>4, <1>5, <1>6, <1>7, <1>8, <1>9, <1>10, <1>11, <1>12, <1>13, <1>14, <1>15,
     <1>16, <1>17, <1>18 DEF Next, open, Return, Start, Stop, Close, Demux, Record
-----------------------------------------------------------------------------
(* The recording thread takes a packet. *)

\* What processPacket appends to the file, and the first stamps it uses.
FirstFor(q) ==
    IF first[q.packet.media] = NoFirst[q.packet.media] THEN FirstOf(q.packet) ELSE first[q.packet.media]
Entry(q) ==
    [packet |-> q.packet, stream |-> q.stream, recording |-> q.recording,
     out |-> Convert(q.packet, FirstFor(q))]

\* The first stamps used are times, and what is appended is an entry.
LEMMA EntryType ==
    ASSUME DataTypes, NEW q \in QueuedType
    PROVE  FirstFor(q) \in [pts : Nat, dts : Nat] /\ Entry(q) \in WrittenType
<1>1. q.packet \in PacketType /\ q.packet.media \in Media /\ q.stream \in Nat /\ q.recording \in Nat
  BY Zenon DEF QueuedType, PacketType
<1>2. FirstFor(q) \in [pts : Nat, dts : Nat]
  BY <1>1, FirstTimes, Zenon DEF FirstFor, DataTypes
<1>3. Convert(q.packet, FirstFor(q)) \in Times
  BY <1>1, <1>2, ConvertType, Zenon
<1> QED
  BY <1>1, <1>2, <1>3, Zenon DEF Entry, WrittenType

\* A pop finds nothing, leaves out a picture before the key frame, or writes.
Finds(m) == queue[m] = <<>> /\ UNCHANGED <<queue, first, hasKeyFrame, file>>
Takes(m) == queue[m] # <<>> /\ queue' = [queue EXCEPT ![m] = Tail(@)]
Skips(m) ==
    /\ Takes(m) /\ m = "video" /\ ~hasKeyFrame
    /\ UNCHANGED <<first, hasKeyFrame, file>>
Writes(m) ==
    LET q == Head(queue[m])
    IN  /\ Takes(m) /\ ~AwaitsKeyFrame(q.packet)
        /\ hasKeyFrame' = (hasKeyFrame \/ q.packet.media = "video")
        /\ first' = [first EXCEPT ![q.packet.media] = FirstFor(q)]
        /\ file' = Append(file, Entry(q))

\* The head of a queue is a packet of its medium.
LEMMA HeadType ==
    ASSUME DataTypes, Placed, NEW m \in Media, queue[m] # <<>>
    PROVE  /\ Head(queue[m]) \in QueuedType /\ Head(queue[m]) = queue[m][1] /\ 1 \in DOMAIN queue[m]
           /\ Head(queue[m]).packet \in PacketType /\ Head(queue[m]).packet.media = m
<1>1. queue[m] \in Seq(QueuedType)
  BY Zenon DEF DataTypes
<1>2. Head(queue[m]) = queue[m][1] /\ 1 \in DOMAIN queue[m] /\ queue[m][1] \in QueuedType
  BY <1>1
<1> QED
  BY <1>2 DEF Placed, QueuedType

\* What one turn of processQueuePackets does with a queue: it finds nothing, skips
\* the packet at its head or writes it.
LEMMA PopCases ==
    ASSUME DataTypes, Control, Placed, NEW m \in Media, Pop(m)
    PROVE  Finds(m) \/ Skips(m) \/ Writes(m)
<1>1. Ready
  BY Zenon DEF Pop, Control, Recording, Media
<1>2. CASE queue[m] # <<>> /\ queue' = [queue EXCEPT ![m] = Tail(@)] /\ processPacket(Head(queue[m]))
  <2> DEFINE q == Head(queue[m])
  <2>1. q.packet.media = m
    BY <1>2, HeadType, Zenon
  <2>2. CASE AwaitsKeyFrame(q.packet)
    BY <1>2, <2>1, <2>2, Zenon DEF processPacket, AwaitsKeyFrame, Skips, Takes
  <2>3. CASE ~AwaitsKeyFrame(q.packet)
    BY <1>1, <1>2, <2>3, Zenon DEF processPacket, Writes, Takes, Ready, Entry, FirstFor
  <2> QED
    BY <2>2, <2>3, Zenon
<1> QED
  BY <1>2, Zenon DEF Pop, Finds

\* Types of what is queued and written.
LEMMA DataStep == TypeOK /\ Control /\ Placed /\ [Next]_vars => DataTypes'
<1> SUFFICES ASSUME TypeOK, Control, Placed, [Next]_vars PROVE DataTypes'
  OBVIOUS
<1>a. DataTypes /\ Recorders \subseteq Callers
  BY RecorderAssumption, Zenon DEF TypeOK
<1>b. Empty \in [Media -> Seq(QueuedType)]
  <2>1. <<>> \in Seq(QueuedType)
    OBVIOUS
  <2> QED
    BY <2>1, Zenon DEF Empty
<1>c. <<>> \in Seq(WrittenType)
  OBVIOUS
<1>d. NoFirst \in [Media -> Times]
  BY Zenon DEF NoFirst, Times, Stamps
<1>1. ASSUME NEW c \in Recorders, NEW ext \in Extensions, Refused(c, ext) PROVE DataTypes'
  BY <1>a, <1>1, Zenon DEF Refused, DataTypes, source, demux, flags, queues, thread, written
<1>2. ASSUME NEW c \in Recorders, NEW ext \in Extensions, startRecording(c, ext) PROVE DataTypes'
  <2>1. recordings' \in Nat
    BY <1>a, <1>2 DEF startRecording, DataTypes
  <2>2. CASE initOutputContextFails(ext)
    BY <1>a, <1>2, <2>1, <2>2, Zenon DEF startRecording, initOutputContextFails, DataTypes, source, demux, flags
  <2>3. CASE createStreamMappingFails
    BY <1>a, <1>b, <1>c, <1>d, <1>2, <2>1, <2>3, Zenon DEF startRecording, createStreamMappingFails, cleanup, DataTypes,
       source, demux, flags
  <2>4. CASE initOutputContext(ext) /\ mapping' = TRUE
    BY <1>a, <1>2, <2>1, <2>4, Zenon DEF startRecording, initOutputContext, DataTypes, source, demux, flags
  <2> QED
    BY <1>2, <2>2, <2>3, <2>4, Zenon DEF startRecording
<1>3. ASSUME NEW c \in Callers, StartQueues(c) \/ AbortQueues(c) PROVE DataTypes'
  BY <1>a, <1>3, Zenon DEF StartQueues, AbortQueues, DataTypes, source, demux, flags, contexts, thread, written
<1>4. ASSUME NEW c \in Callers, StartThread(c) PROVE DataTypes'
  BY <1>a, <1>4, Zenon DEF StartThread, DataTypes, source, demux, queues, contexts, written
<1>5. ASSUME NEW c \in Callers, NEW step, stopRecording(c, step) PROVE DataTypes'
  BY <1>a, <1>5, Zenon DEF stopRecording, DataTypes, source, demux, queues, contexts, thread, written
<1>6. ASSUME NEW c \in Callers, Cleanup(c) PROVE DataTypes'
  BY <1>a, <1>b, <1>c, <1>d, <1>6, Zenon DEF Cleanup, cleanup, DataTypes, source, demux, flags, thread
<1>7. ASSUME NEW c \in Callers, Stopped(c) PROVE DataTypes'
  BY <1>a, <1>7, Zenon DEF Stopped, DataTypes, source, demux, queues, contexts, thread, written
<1>8. ASSUME NEW c \in Callers, close(c) \/ AlreadyStopped(c) PROVE DataTypes'
  BY <1>a, <1>8, Zenon DEF close, AlreadyStopped, DataTypes, source, demux, flags, queues, contexts, thread, written
<1>9. ASSUME NEW c \in Callers, NEW step, NEW next, Interrupt(c, step, next) PROVE DataTypes'
  BY <1>a, <1>9, Zenon DEF Interrupt, DataTypes, source, flags, queues, contexts, thread, written
<1>10. ASSUME NEW c \in Callers, CloseStream(c) PROVE DataTypes'
  <2>1. rest' \in Seq(PacketType) /\ stream' \in Nat
    BY <1>10 DEF CloseStream, NoStream
  <2> QED
    BY <1>a, <1>10, <2>1, Zenon DEF CloseStream, DataTypes, flags, queues, contexts, thread, written
<1>11. ASSUME NEW c \in Callers, OpenStream(c) PROVE DataTypes'
  <2>1. rest' \in Seq(PacketType) /\ stream' \in Nat /\ opens' \in Nat /\ dpc' \in {"none", "read"}
    <3>1. opens' \in Nat
      BY <1>a, <1>11 DEF OpenStream, DataTypes
    <3>2. CASE NoStream /\ dpc' = dpc
      BY <1>11, <3>1, <3>2 DEF OpenStream, NoStream
    <3>3. opens' \in DOMAIN Inputs /\ Inputs[opens'] \subseteq InputType
      BY <1>a, <1>11, <3>1, Begun, RecorderAssumption DEF OpenStream, Control, DataTypes
    <3>4. ASSUME NEW i \in Inputs[opens'], stream' = opens', rest' = i.packets, dpc' = "read"
          PROVE  rest' \in Seq(PacketType)
      BY <3>3, <3>4, Zenon DEF InputType
    <3> QED
      BY <1>11, <3>1, <3>2, <3>4, Zenon DEF OpenStream
  <2> QED
    BY <1>a, <1>11, <2>1, Zenon DEF OpenStream, DataTypes, flags, queues, contexts, thread, written
<1>12. CASE Read
  <2>1. Head(rest) \in PacketType /\ Tail(rest) \in Seq(PacketType)
    BY <1>a, <1>12 DEF Read, DataTypes
  <2> QED
    BY <1>a, <1>12, <2>1, Zenon DEF Read, DataTypes, flags, queues, contexts, thread
<1>13. CASE writePacket
  <2>1. pkt \in PacketType /\ pkt.media \in Media /\ Queued \in QueuedType
    BY <1>a, <1>13, Zenon DEF writePacket, DataTypes, PacketType, Queued, QueuedType
  <2>2. queue' \in [Media -> Seq(QueuedType)]
    <3>1. Append(queue[pkt.media], Queued) \in Seq(QueuedType)
      BY <1>a, <2>1 DEF DataTypes
    <3> QED
      BY <1>a, <1>13, <3>1, Zenon DEF writePacket, DataTypes
  <2> QED
    BY <1>a, <1>13, <2>2, Zenon DEF writePacket, DataTypes, source, flags, contexts, thread
<1>14. CASE ThreadEnds
  BY <1>a, <1>14, Zenon DEF ThreadEnds, DataTypes, source, flags, queues, contexts, thread, written
<1>15. CASE LoopTop
  BY <1>a, <1>15, Zenon DEF LoopTop, DataTypes, source, demux, flags, queues, contexts, written, Media
<1>16. ASSUME NEW m \in Media, Pop(m) PROVE DataTypes'
  <2>1. UNCHANGED <<source, demux, flags, aborted, mapping, recordings>>
        /\ rpc' \in {"none", "top"} \cup Media
    BY <1>16, Zenon DEF Pop, Media
  <2>2. CASE Finds(m)
    BY <1>a, <2>1, <2>2, Zenon DEF Finds, DataTypes, source, demux, flags
  <2>3. ASSUME Takes(m) PROVE queue' \in [Media -> Seq(QueuedType)]
    <3>1. Tail(queue[m]) \in Seq(QueuedType)
      BY <1>a, <2>3 DEF Takes, DataTypes
    <3> QED
      BY <1>a, <2>3, <3>1, Zenon DEF Takes, DataTypes
  <2>4. CASE Skips(m)
    BY <1>a, <2>1, <2>3, <2>4, Zenon DEF Skips, DataTypes, source, demux, flags
  <2>5. CASE Writes(m)
    <3> DEFINE q == Head(queue[m])
    <3>1. q \in QueuedType /\ q.packet.media = m
      BY <1>a, <2>5, HeadType, Zenon DEF Writes, Takes
    <3>2. FirstFor(q) \in [pts : Nat, dts : Nat] /\ Entry(q) \in WrittenType
      BY <1>a, <3>1, EntryType, Zenon
    <3>3. FirstFor(q) \in Times
      BY <3>2, Zenon DEF Times, Stamps
    <3>4. first' = [first EXCEPT ![m] = FirstFor(q)]
      BY <2>5, <3>1, Zenon DEF Writes
    <3>5. first' \in [Media -> Times]
      BY <1>a, <3>3, <3>4, Zenon DEF DataTypes
    <3>6. \A k \in Media : first'[k] = NoFirst[k] \/ first'[k] \in [pts : Nat, dts : Nat]
      BY <1>a, <3>2, <3>4, Zenon DEF DataTypes
    <3>7. file' \in Seq(WrittenType) /\ hasKeyFrame' \in BOOLEAN
      BY <1>a, <2>5, <3>2 DEF Writes, DataTypes
    <3> QED
      BY <1>a, <2>1, <2>3, <2>5, <3>5, <3>6, <3>7, Zenon DEF Writes, DataTypes, source, demux, flags
  <2> QED
    BY <1>a, <1>16, <2>2, <2>4, <2>5, PopCases, Zenon
<1>17. CASE UNCHANGED vars
  BY <1>a, <1>17, Zenon DEF vars, DataTypes, source, demux, flags, queues, contexts, thread, written
<1> QED
  BY Zenon, <1>a, <1>1, <1>2, <1>3, <1>4, <1>5, <1>6, <1>7, <1>8, <1>9, <1>10, <1>11, <1>12, <1>13, <1>14, <1>15,
     <1>16, <1>17 DEF Next, open, Return, Start, Stop, Close, Demux, Record
-----------------------------------------------------------------------------
(* The kinds of steps, as the packets see them. *)

Elsewhere ==
    /\ UNCHANGED <<file, queue, first, hasKeyFrame, recordings, stream, opens, rest, pkt, lost>>
    /\ dpc' = "write" <=> dpc = "write"
    /\ rpc' # "none" => rpc # "none"
    /\ rpc' = "audio" => rpc = "audio"

\* The recording thread begins.
Begins ==
    /\ UNCHANGED <<file, queue, first, recordings, stream, opens, rest, pkt, lost, dpc>>
    /\ file = <<>> /\ rpc' = "top" /\ hasKeyFrame' = FALSE

\* A recording is prepared, or is over.
Clears ==
    /\ UNCHANGED <<stream, opens, rest, pkt, dpc, rpc>>
    /\ rpc = "none" /\ file' = <<>> /\ queue' = Empty

\* A stream is closed or opened.
Streams ==
    /\ UNCHANGED <<file, queue, first, hasKeyFrame, recordings, rpc, lost>>
    /\ dpc = "none" /\ dpc' # "write"
    /\ \/ stream' = 0 /\ rest' = <<>> /\ opens' >= opens
       \/ stream' = opens + 1 /\ opens' = opens + 1 /\ Numbered(rest')

\* What a step may do to the packets: nothing, begin a recording, clear up after one,
\* open or close a stream, or pass one packet on.
LEMMA StepKinds ==
    TypeOK /\ Control /\ [Next]_vars =>
        Elsewhere \/ Begins \/ Clears \/ Streams \/ Read \/ writePacket \/ \E m \in Media : Pop(m)
<1> SUFFICES ASSUME TypeOK, Control, [Next]_vars
             PROVE  Elsewhere \/ Begins \/ Clears \/ Streams \/ Read \/ writePacket
                    \/ \E m \in Media : Pop(m)
  OBVIOUS
<1>a. DataTypes /\ Recorders \subseteq Callers
  BY RecorderAssumption, Zenon DEF TypeOK
<1>1. ASSUME NEW c \in Recorders, NEW ext \in Extensions, Refused(c, ext) PROVE Elsewhere
  BY <1>1, Zenon DEF Refused, Elsewhere, source, demux, flags, queues, thread, written
<1>2. ASSUME NEW c \in Recorders, NEW ext \in Extensions, startRecording(c, ext) PROVE Clears
  <2>1. Phase = "free" /\ ~isRecording
    BY <1>a, <1>2, Begun, Zenon DEF startRecording
  <2>2. rpc = "none" /\ queue = Empty /\ file = <<>>
    BY <2>1, Zenon DEF Control, Quiet
  <2> QED
    BY <1>2, <2>2, Zenon DEF startRecording, initOutputContextFails, createStreamMappingFails, initOutputContext,
       cleanup, Clears, source, demux
<1>3. ASSUME NEW c \in Callers, StartQueues(c) \/ AbortQueues(c) PROVE Elsewhere
  BY <1>3, Zenon DEF StartQueues, AbortQueues, Elsewhere, source, demux, flags, contexts, thread, written
<1>4. ASSUME NEW c \in Callers, StartThread(c) PROVE Begins
  <2>1. file = <<>>
    BY <1>4, Begun, Zenon DEF StartThread, Control, Starting
  <2> QED
    BY <1>4, <2>1, Zenon DEF StartThread, Begins, source, demux, queues, contexts, written
<1>5. ASSUME NEW c \in Callers, NEW step, stopRecording(c, step) PROVE Elsewhere
  BY <1>5, Zenon DEF stopRecording, Elsewhere, source, demux, queues, contexts, thread, written
<1>6. ASSUME NEW c \in Callers, Cleanup(c) PROVE Clears
  BY <1>6, Zenon DEF Cleanup, cleanup, Clears, source, demux, thread
<1>7. ASSUME NEW c \in Callers, Stopped(c) PROVE Elsewhere
  BY <1>7, Zenon DEF Stopped, Elsewhere, source, demux, queues, contexts, thread, written
<1>8. ASSUME NEW c \in Callers, close(c) \/ AlreadyStopped(c) PROVE Elsewhere
  BY <1>8, Zenon DEF close, AlreadyStopped, Elsewhere, source, demux, flags, queues, contexts, thread, written
<1>9. ASSUME NEW c \in Callers, NEW step, NEW next, Interrupt(c, step, next) PROVE Elsewhere
  BY <1>9, Zenon DEF Interrupt, Elsewhere, source, flags, queues, contexts, thread, written
<1>10. ASSUME NEW c \in Callers, CloseStream(c) PROVE Streams
  <2>1. opens' >= opens
    BY <1>a, <1>10 DEF CloseStream, DataTypes
  <2> QED
    BY <1>10, <2>1, Zenon DEF CloseStream, NoStream, Streams, queues, contexts, thread, written
<1>11. ASSUME NEW c \in Callers, OpenStream(c) PROVE Streams
  <2>1. opens' = opens + 1 /\ opens' >= opens /\ opens' \in DOMAIN Inputs
    BY <1>a, <1>11, Begun, RecorderAssumption DEF OpenStream, Control, DataTypes
  <2>2. \A i \in Inputs[opens'] : Numbered(i.packets)
    BY <2>1, RecorderAssumption, Zenon
  <2>3. dpc = "none" /\ dpc' # "write"
    BY <1>11, Zenon DEF OpenStream
  <2>4. \/ stream' = 0 /\ rest' = <<>>
        \/ stream' = opens' /\ Numbered(rest')
    BY <1>11, <2>2, Zenon DEF OpenStream, NoStream
  <2> QED
    BY <1>11, <2>1, <2>3, <2>4, Zenon DEF OpenStream, Streams, queues, contexts, thread, written
<1>12. CASE ThreadEnds
  BY <1>12, Zenon DEF ThreadEnds, Elsewhere, source, queues, contexts, thread, written
<1>13. CASE LoopTop
  BY <1>13, Zenon DEF LoopTop, Elsewhere, source, demux, queues, contexts, written
<1>14. CASE UNCHANGED vars
  BY <1>14, Zenon DEF vars, Elsewhere, source, demux, flags, queues, contexts, thread, written
<1> QED
  BY <1>a, <1>1, <1>2, <1>3, <1>4, <1>5, <1>6, <1>7, <1>8, <1>9, <1>10, <1>11, <1>12, <1>13, <1>14, Zenon
     DEF Next, open, Return, Start, Stop, Close, Demux, Record
-----------------------------------------------------------------------------
(* What is in the file. *)

\* Appending keeps what is there.
LEMMA Appended ==
    ASSUME NEW S, NEW s \in Seq(S), NEW e \in S
    PROVE  /\ Append(s, e) \in Seq(S) /\ DOMAIN Append(s, e) = DOMAIN s \cup {Len(s) + 1}
           /\ \A i \in DOMAIN s : Append(s, e)[i] = s[i]
           /\ Append(s, e)[Len(s) + 1] = e /\ Len(s) + 1 \notin DOMAIN s
OBVIOUS

\* The tail is the sequence, one place on.
LEMMA Tailed ==
    ASSUME NEW S, NEW s \in Seq(S), s # <<>>
    PROVE  /\ Tail(s) \in Seq(S) /\ Head(s) = s[1] /\ 1 \in DOMAIN s /\ Head(s) \in S
           /\ \A i \in DOMAIN Tail(s) : i + 1 \in DOMAIN s /\ Tail(s)[i] = s[i + 1]
           /\ \A i \in DOMAIN s : i # 1 => i - 1 \in DOMAIN Tail(s) /\ s[i] = Tail(s)[i - 1]
OBVIOUS

\* Nothing is written before a key frame of the video has been found.
LEMMA KeyFramesStep == TypeOK /\ Control /\ Placed /\ KeyFrames /\ [Next]_vars => KeyFrames'
<1> SUFFICES ASSUME TypeOK, Control, Placed, KeyFrames, [Next]_vars PROVE KeyFrames'
  OBVIOUS
<1>a. DataTypes /\ file \in Seq(WrittenType) /\ hasKeyFrame \in BOOLEAN
  BY Zenon DEF TypeOK, DataTypes
<1>1. CASE Elsewhere
  BY <1>1, Zenon DEF Elsewhere, KeyFrames, KeyFrameFirst
<1>2. CASE Begins
  BY <1>2, Zenon DEF Begins, KeyFrames, KeyFrameFirst
<1>3. CASE Clears
  BY <1>3, Zenon DEF Clears, KeyFrames, KeyFrameFirst
<1>4. CASE Streams
  BY <1>4, Zenon DEF Streams, KeyFrames, KeyFrameFirst
<1>5. CASE Read \/ writePacket
  BY <1>5 DEF Read, writePacket, KeyFrames, KeyFrameFirst, thread
<1>6. ASSUME NEW m \in Media, Pop(m) PROVE KeyFrames'
  <2>1. rpc = m /\ rpc' = (IF m = "video" /\ hasKeyFrame' THEN "audio" ELSE "top")
        /\ rpc # "none"
    BY <1>6, Zenon DEF Pop, Media
  <2>2. CASE Finds(m) \/ Skips(m)
    BY <2>1, <2>2 DEF Finds, Skips, KeyFrames, KeyFrameFirst
  <2>3. CASE Writes(m)
    <3> DEFINE q == Head(queue[m])
    <3>1. q \in QueuedType /\ q.packet.media = m /\ Entry(q) \in WrittenType
      BY <1>a, <2>3, HeadType, EntryType, Zenon DEF Writes, Takes
    <3>2. file' = Append(file, Entry(q)) /\ hasKeyFrame' = (hasKeyFrame \/ m = "video")
          /\ ~AwaitsKeyFrame(q.packet)
      BY <2>3, <3>1, Zenon DEF Writes
    <3>3. file' # <<>> /\ (file # <<>> => file'[1] = file[1]) /\ (file = <<>> => file'[1] = Entry(q))
      BY <1>a, <3>1, <3>2
    <3>4. m = "audio" => hasKeyFrame
      BY <2>1, Zenon DEF KeyFrames
    <3>5. hasKeyFrame' = TRUE
      BY <3>2, <3>4, Zenon DEF Media
    <3>6. file = <<>> => m = "video" /\ q.packet.key
      <4>1. file = <<>> => ~hasKeyFrame
        BY <2>1, Zenon DEF KeyFrames
      <4> QED
        BY <3>1, <3>2, <3>4, <4>1, Zenon DEF AwaitsKeyFrame, Media
    <3>7. KeyFrameFirst'
      BY <3>1, <3>3, <3>6 DEF KeyFrames, KeyFrameFirst, Entry
    <3> QED
      BY <3>3, <3>5, <3>7, Zenon DEF KeyFrames
  <2> QED
    BY <1>a, <1>6, <2>2, <2>3, PopCases, Zenon
<1> QED
  BY <1>1, <1>2, <1>3, <1>4, <1>5, <1>6, StepKinds, Zenon

\* Every packet queued or written is of the recording of the moment: the queues are
\* empty when another begins.
LEMMA OwnStep == TypeOK /\ Control /\ Placed /\ OwnPackets /\ [Next]_vars => OwnPackets'
<1> SUFFICES ASSUME TypeOK, Control, Placed, OwnPackets, [Next]_vars PROVE OwnPackets'
  OBVIOUS
<1>a. DataTypes /\ file \in Seq(WrittenType) /\ queue \in [Media -> Seq(QueuedType)]
  BY Zenon DEF TypeOK, DataTypes
<1>1. CASE Elsewhere \/ Begins \/ Streams
  BY <1>1, Zenon DEF Elsewhere, Begins, Streams, OwnPackets
<1>2. CASE Clears
  BY <1>2 DEF Clears, OwnPackets, Empty
<1>3. CASE Read
  BY <1>3, Zenon DEF Read, OwnPackets, queues
<1>4. CASE writePacket
  <2>1. pkt.media \in Media /\ Queued \in QueuedType /\ Queued.recording = recordings
    BY <1>a, <1>4, Zenon DEF writePacket, DataTypes, PacketType, Queued, QueuedType
  <2>2. UNCHANGED <<file, recordings>>
        /\ (queue' = queue \/ queue' = [queue EXCEPT ![pkt.media] = Append(@, Queued)])
    BY <1>4, Zenon DEF writePacket
  <2>3. ASSUME NEW m \in Media, NEW i \in DOMAIN queue'[m] PROVE queue'[m][i].recording = recordings
    <3>1. CASE queue'[m] = queue[m]
      BY <3>1, Zenon DEF OwnPackets
    <3>2. CASE queue'[m] = Append(queue[m], Queued)
      BY <1>a, <2>1, <2>3, <3>2, Appended DEF OwnPackets
    <3> QED
      BY <1>a, <2>1, <2>2, <3>1, <3>2, Zenon
  <2> QED
    BY <2>2, <2>3, Zenon DEF OwnPackets
<1>5. ASSUME NEW m \in Media, Pop(m) PROVE OwnPackets'
  <2>0. recordings' = recordings
    BY <1>5, Zenon DEF Pop
  <2>1. CASE Finds(m)
    BY <2>0, <2>1, Zenon DEF Finds, OwnPackets
  <2>2. ASSUME Takes(m), NEW k \in Media, NEW i \in DOMAIN queue'[k]
        PROVE  queue'[k][i].recording = recordings
    <3>1. CASE k # m
      BY <1>a, <2>2, <3>1, Zenon DEF Takes, OwnPackets
    <3>2. CASE k = m
      <4>1. queue'[k] = Tail(queue[k]) /\ queue[k] \in Seq(QueuedType) /\ queue[k] # <<>>
        BY <1>a, <2>2, <3>2, Zenon DEF Takes
      <4>2. i + 1 \in DOMAIN queue[k] /\ queue'[k][i] = queue[k][i + 1]
        BY <2>2, <4>1, Tailed
      <4> QED
        BY <4>2, Zenon DEF OwnPackets
    <3> QED
      BY <3>1, <3>2, Zenon
  <2>3. CASE Skips(m)
    BY <2>0, <2>2, <2>3, Zenon DEF Skips, OwnPackets
  <2>4. CASE Writes(m)
    <3> DEFINE q == Head(queue[m])
    <3>1. q \in QueuedType /\ q = queue[m][1] /\ 1 \in DOMAIN queue[m] /\ Entry(q) \in WrittenType
      BY <1>a, <2>4, HeadType, EntryType, Zenon DEF Writes, Takes
    <3>2. Entry(q).recording = recordings
      BY <3>1, Zenon DEF OwnPackets, Entry
    <3>3. file' = Append(file, Entry(q)) /\ Takes(m)
      BY <2>4, Zenon DEF Writes
    <3>4. \A i \in DOMAIN file' : file'[i].recording = recordings
      BY <1>a, <3>1, <3>2, <3>3, Appended DEF OwnPackets
    <3> QED
      BY <2>0, <2>2, <3>3, <3>4, Zenon DEF OwnPackets
  <2> QED
    BY <1>a, <1>5, <2>1, <2>3, <2>4, PopCases, Zenon
<1> QED
  BY <1>1, <1>2, <1>3, <1>4, <1>5, StepKinds, Zenon

\* What has been written keeps the stamps it was converted with: the first stamps of
\* a medium are set once in a recording.
LEMMA StampedStep == TypeOK /\ Control /\ Placed /\ Stamped /\ [Next]_vars => Stamped'
<1> SUFFICES ASSUME TypeOK, Control, Placed, Stamped, [Next]_vars PROVE Stamped'
  OBVIOUS
<1>a. DataTypes /\ file \in Seq(WrittenType)
  BY Zenon DEF TypeOK, DataTypes
<1>1. CASE Elsewhere \/ Begins \/ Streams
  BY <1>1, Zenon DEF Elsewhere, Begins, Streams, Stamped
<1>2. CASE Clears
  BY <1>2 DEF Clears, Stamped
<1>3. CASE Read \/ writePacket
  BY <1>3, Zenon DEF Read, writePacket, Stamped, contexts
<1>4. ASSUME NEW m \in Media, Pop(m) PROVE Stamped'
  <2>1. CASE Finds(m) \/ Skips(m)
    BY <2>1, Zenon DEF Finds, Skips, Stamped
  <2>2. CASE Writes(m)
    <3> DEFINE q == Head(queue[m])
    <3>1. q \in QueuedType /\ q.packet.media = m /\ Entry(q) \in WrittenType
          /\ FirstFor(q) \in [pts : Nat, dts : Nat]
      BY <1>a, <2>2, HeadType, EntryType, Zenon DEF Writes, Takes
    <3>2. file' = Append(file, Entry(q)) /\ first' = [first EXCEPT ![m] = FirstFor(q)]
      BY <2>2, <3>1, Zenon DEF Writes
    <3>3. FirstFor(q) # NoFirst[m]
      BY <3>1, RecorderAssumption DEF NoFirst
    <3>4. first'[m] = FirstFor(q) /\ \A k \in Media : first[k] # NoFirst[k] => first'[k] = first[k]
      BY <1>a, <3>1, <3>2, Zenon DEF FirstFor, DataTypes
    <3>5. ASSUME NEW i \in DOMAIN file'
          PROVE  /\ first'[file'[i].packet.media] # NoFirst[file'[i].packet.media]
                 /\ file'[i].out = Convert(file'[i].packet, first'[file'[i].packet.media])
      <4>1. CASE i \in DOMAIN file
        <5>1. file'[i] = file[i]
          BY <1>a, <3>1, <3>2, <4>1, Appended
        <5>2. file[i] \in WrittenType
          BY <1>a, <4>1
        <5>3. file[i].packet.media \in Media
          BY <5>2, Zenon DEF WrittenType, PacketType
        <5> QED
          BY <3>4, <4>1, <5>1, <5>3, Zenon DEF Stamped
      <4>2. CASE i = Len(file) + 1
        <5>1. file'[i] = Entry(q)
          BY <1>a, <3>1, <3>2, <4>2, Appended
        <5> QED
          BY <3>1, <3>3, <3>4, <5>1 DEF Entry
      <4>3. i \in DOMAIN file \/ i = Len(file) + 1
        BY <1>a, <3>1, <3>2, <3>5, Appended
      <4> QED
        BY <4>1, <4>2, <4>3, Zenon
    <3> QED
      BY <3>5, Zenon DEF Stamped, NoFirst
  <2> QED
    BY <1>a, <1>4, <2>1, <2>2, PopCases, Zenon
<1> QED
  BY <1>1, <1>2, <1>3, <1>4, StepKinds, Zenon
-----------------------------------------------------------------------------
(* How packets move along a track. *)

\* Without its least element a set has no gaps either.
LEMMA DropLeast ==
    ASSUME NEW A \in SUBSET Nat, NEW B, NEW n \in Nat, NoGap({n} \cup A, {n} \cup B), Below({n}, A)
    PROVE  NoGap(A, B)
<1> SUFFICES ASSUME NEW a \in A, NEW b \in A, NEW k \in Nat, a < k, k < b PROVE k \in B
  BY Zenon DEF NoGap
<1>1. k \in {n} \cup B
  BY Zenon DEF NoGap
<1>2. n < a
  BY Zenon DEF Below
<1> QED
  BY <1>1, <1>2

\* The packet read goes into the demux thread's hand.
LEMMA TrackRead ==
    ASSUME NEW F \in SUBSET Nat, NEW Q \in SUBSET Nat, NEW R \in SUBSET Nat, NEW L, NEW n \in Nat,
           Track(F, Q, {}, {n} \cup R, L), Below({n}, R)
    PROVE  Track(F, Q, {n}, R, L)
<1>1. Ordered(F, Q, {n}, R)
  BY Zenon DEF Track, Ordered, Below
<1>2. F \cup Q \cup {n} \cup R = F \cup Q \cup {} \cup ({n} \cup R) /\ {n} \cup R = {} \cup ({n} \cup R)
  OBVIOUS
<1>3. Dense(F, Q, {n}, R, L)
  BY <1>2, Zenon DEF Track, Dense
<1> QED
  BY <1>1, <1>3, Zenon DEF Track

\* The packet in hand is queued.
LEMMA TrackPush ==
    ASSUME NEW F \in SUBSET Nat, NEW Q \in SUBSET Nat, NEW R \in SUBSET Nat, NEW L, NEW n \in Nat,
           Track(F, Q, {n}, R, L)
    PROVE  Track(F, Q \cup {n}, {}, R, L)
<1>1. Ordered(F, Q \cup {n}, {}, R)
  BY Zenon DEF Track, Ordered, Below
<1>2. F \cup (Q \cup {n}) \cup {} \cup R = F \cup Q \cup {n} \cup R
  OBVIOUS
<1>3. NoGap(R, R)
  BY DropLeast, Zenon DEF Track, Ordered, Dense
<1>4. {} \cup R = R
  OBVIOUS
<1> QED
  BY <1>1, <1>2, <1>3, <1>4, Zenon DEF Track, Dense

\* The packet in hand is not queued: it is lost, or nothing is there before it.
LEMMA TrackDrop ==
    ASSUME NEW F \in SUBSET Nat, NEW Q \in SUBSET Nat, NEW R \in SUBSET Nat, NEW L, NEW M,
           NEW n \in Nat, Track(F, Q, {n}, R, L), L \subseteq M,
           n \in M \/ (F = {} /\ Q = {})
    PROVE  Track(F, Q, {}, R, M)
<1>1. Ordered(F, Q, {}, R)
  BY Zenon DEF Track, Ordered, Below
<1>2. NoGap(R, R)
  BY DropLeast, Zenon DEF Track, Ordered, Dense
<1>3. NoGap(F \cup Q \cup R, F \cup Q \cup R \cup M)
  <2>1. CASE F = {} /\ Q = {}
    BY <1>2, <2>1, Zenon DEF NoGap
  <2>2. CASE n \in M
    BY <2>2, Zenon DEF Track, Dense, NoGap
  <2> QED
    BY <2>1, <2>2, Zenon
<1>4. F \cup Q \cup {} \cup R = F \cup Q \cup R /\ {} \cup R = R
  OBVIOUS
<1> QED
  BY <1>1, <1>2, <1>3, <1>4, Zenon DEF Track, Dense

\* The first packet of the queue is written.
LEMMA TrackWrite ==
    ASSUME NEW F \in SUBSET Nat, NEW Q \in SUBSET Nat, NEW H \in SUBSET Nat, NEW R \in SUBSET Nat,
           NEW L, NEW n \in Nat, Track(F, {n} \cup Q, H, R, L), Below({n}, Q)
    PROVE  Track(F \cup {n}, Q, H, R, L)
<1>1. Ordered(F \cup {n}, Q, H, R)
  BY Zenon DEF Track, Ordered, Below
<1>2. (F \cup {n}) \cup Q \cup H \cup R = F \cup ({n} \cup Q) \cup H \cup R
  OBVIOUS
<1>3. Dense(F \cup {n}, Q, H, R, L)
  BY <1>2, Zenon DEF Track, Dense
<1> QED
  BY <1>1, <1>3, Zenon DEF Track

\* The first packet of the queue is left out, when nothing is written yet.
LEMMA TrackSkip ==
    ASSUME NEW Q \in SUBSET Nat, NEW H \in SUBSET Nat, NEW R \in SUBSET Nat,
           NEW L, NEW n \in Nat, Track({}, {n} \cup Q, H, R, L), Below({n}, Q)
    PROVE  Track({}, Q, H, R, L)
<1> DEFINE A == {} \cup Q \cup H \cup R
<1>1. Ordered({}, Q, H, R) /\ Below({n}, A)
  BY Zenon DEF Track, Ordered, Below
<1>2. {} \cup ({n} \cup Q) \cup H \cup R = {n} \cup A
      /\ {} \cup ({n} \cup Q) \cup H \cup R \cup L = {n} \cup (A \cup L) /\ A \in SUBSET Nat
  OBVIOUS
<1>3. NoGap(A, A \cup L)
  BY <1>1, <1>2, DropLeast, Zenon DEF Track, Dense
<1> QED
  BY <1>1, <1>3, Zenon DEF Track, Dense

\* What is written and queued is removed.
LEMMA TrackClear ==
    ASSUME NEW F \in SUBSET Nat, NEW Q \in SUBSET Nat, NEW H \in SUBSET Nat, NEW R \in SUBSET Nat,
           NEW L, NEW M, Track(F, Q, H, R, L)
    PROVE  Track({}, {}, H, R, M)
BY Zenon DEF Track, Ordered, Dense, Below, NoGap

\* What is to be read is dropped.
LEMMA TrackClose ==
    ASSUME NEW F \in SUBSET Nat, NEW Q \in SUBSET Nat, NEW R \in SUBSET Nat, NEW L,
           Track(F, Q, {}, R, L)
    PROVE  Track(F, Q, {}, {}, L)
BY DEF Track, Ordered, Dense, Below, NoGap

\* A new stream.
LEMMA TrackOpen ==
    ASSUME NEW R \in SUBSET Nat, NEW L, NoGap(R, R)
    PROVE  Track({}, {}, {}, R, L)
BY Zenon DEF Track, Ordered, Dense, Below, NoGap

\* The numbers are numbers.
LEMMA TrackTypes ==
    ASSUME DataTypes, NEW s, NEW m \in Media
    PROVE  /\ InFile(s, m) \in SUBSET Nat /\ InQueue(s, m) \in SUBSET Nat
           /\ InHand(s, m) \in SUBSET Nat /\ ToRead(s, m) \in SUBSET Nat
<1>1. \A i \in DOMAIN file : file[i].packet.n \in Nat
  <2>1. \A i \in DOMAIN file : file[i] \in WrittenType
    BY DEF DataTypes
  <2> QED
    BY <2>1, Zenon DEF WrittenType, PacketType
<1>2. \A i \in DOMAIN queue[m] : queue[m][i].packet.n \in Nat
  <2>1. \A i \in DOMAIN queue[m] : queue[m][i] \in QueuedType
    BY DEF DataTypes
  <2> QED
    BY <2>1, Zenon DEF QueuedType, PacketType
<1>3. \A i \in DOMAIN rest : rest[i].n \in Nat
  <2>1. \A i \in DOMAIN rest : rest[i] \in PacketType
    BY DEF DataTypes
  <2> QED
    BY <2>1, Zenon DEF PacketType
<1>4. dpc = "write" => pkt.n \in Nat
  BY Zenon DEF DataTypes, PacketType
<1> QED
  BY <1>1, <1>2, <1>3, <1>4, Zenon DEF InFile, InQueue, InHand, ToRead
-----------------------------------------------------------------------------
(* The steps of the packets. *)

\* Without a stream mapping there is nothing in the file and in the queues.
LEMMA Unmapped == Control /\ ~mapping => file = <<>> /\ queue = Empty
BY Zenon DEF Control, Recording, Quiet, Ready, Starting, Stopping

\* What is not queued is lost, if there is a file to lose it from.
LEMMA LostThen ==
    ASSUME NEW p \in PacketType, lost' = NotQueued(p), NEW s, NEW m
    PROVE  /\ Lost(s, m) \subseteq Lost(s, m)'
           /\ s = stream /\ m = p.media /\ mapping => p.n \in Lost(s, m)'
           /\ ~(s = stream /\ m = p.media) => Lost(s, m)' = Lost(s, m)
BY Zenon DEF Lost, NotQueued, PacketType

\* What is to be read before and after a read.
LEMMA ReadOne ==
    ASSUME DataTypes, RestSorted, Read, NEW s, NEW m \in Media
    PROVE  /\ Head(rest) \in PacketType
           /\ s = stream /\ m = Head(rest).media =>
                ToRead(s, m) = {Head(rest).n} \cup ToRead(s, m)' /\ Below({Head(rest).n}, ToRead(s, m)')
           /\ ~(s = stream /\ m = Head(rest).media) => ToRead(s, m)' = ToRead(s, m)
<1>1. rest \in Seq(PacketType) /\ rest # <<>> /\ rest' = Tail(rest) /\ stream' = stream
  BY Zenon DEF DataTypes, Read
<1>2. /\ Head(rest) = rest[1] /\ 1 \in DOMAIN rest /\ Head(rest) \in PacketType
      /\ \A i \in DOMAIN rest' : i + 1 \in DOMAIN rest /\ rest'[i] = rest[i + 1]
      /\ \A i \in DOMAIN rest : i # 1 => i - 1 \in DOMAIN rest' /\ rest[i] = rest'[i - 1]
  BY <1>1, Tailed, Zenon
<1>3. \A i \in DOMAIN rest' : rest'[i].media = Head(rest).media => Head(rest).n < rest'[i].n
  <2>1. \A i \in DOMAIN rest' : i \in Nat /\ 1 < i + 1
    <3>1. rest' \in Seq(PacketType)
      BY <1>1
    <3> QED
      BY <3>1
  <2> QED
    BY <1>2, <2>1, Zenon DEF RestSorted
<1>4. CASE s = stream
  <2>1. ToRead(s, m) = {rest[i].n : i \in {j \in DOMAIN rest : rest[j].media = m}}
        /\ ToRead(s, m)' = {rest'[i].n : i \in {j \in DOMAIN rest' : rest'[j].media = m}}
    BY <1>1, <1>4, Zenon DEF ToRead
  <2>2. ToRead(s, m)' \subseteq ToRead(s, m)
    BY <1>2, <2>1
  <2>3. \A x \in ToRead(s, m) : x \in ToRead(s, m)' \/ (x = Head(rest).n /\ m = Head(rest).media)
    BY <1>2, <2>1
  <2>4. m = Head(rest).media => Head(rest).n \in ToRead(s, m)
    BY <1>2, <2>1
  <2>5. m = Head(rest).media => Below({Head(rest).n}, ToRead(s, m)')
    BY <1>3, <2>1, Zenon DEF Below
  <2>6. m = Head(rest).media => ToRead(s, m) = {Head(rest).n} \cup ToRead(s, m)'
    BY <2>2, <2>3, <2>4, Zenon
  <2>7. m # Head(rest).media => ToRead(s, m)' = ToRead(s, m)
    BY <2>2, <2>3, Zenon
  <2> QED
    BY <1>2, <1>4, <2>5, <2>6, <2>7, Zenon
<1>5. CASE s # stream
  BY <1>1, <1>2, <1>5, Zenon DEF ToRead
<1> QED
  BY <1>4, <1>5, Zenon

\* Reading takes the first packet of the rest into the demux thread's hand.
LEMMA ReadTracks ==
    ASSUME DataTypes, Control, RestSorted, Tracks, Read PROVE Tracks'
<1> SUFFICES ASSUME NEW s \in Nat, NEW m \in Media
             PROVE  Track(InFile(s, m), InQueue(s, m), InHand(s, m), ToRead(s, m), Lost(s, m))'
  BY Zenon DEF Tracks
<1> DEFINE p == Head(rest)
           n == Head(rest).n
           F == InFile(s, m)
           Q == InQueue(s, m)
           R == ToRead(s, m)'
           L == Lost(s, m)
           M == Lost(s, m)'
<1>1. Track(F, Q, InHand(s, m), ToRead(s, m), L) /\ InHand(s, m) = {}
  BY Zenon DEF Tracks, Read, InHand
<1>2. F \in SUBSET Nat /\ Q \in SUBSET Nat /\ p \in PacketType /\ n \in Nat
  BY TrackTypes, ReadOne, Zenon DEF PacketType
<1>3. InFile(s, m)' = F /\ InQueue(s, m)' = Q
  BY Zenon DEF Read, queues, InFile, InQueue
<1>4. CASE ~(s = stream /\ m = p.media)
  <2>1. R = ToRead(s, m)
    BY <1>4, ReadOne, Zenon
  <2>2. InHand(s, m)' = {}
    BY <1>4, Zenon DEF Read, InHand
  <2>3. M = L
    BY <1>2, <1>4, LostThen, Zenon DEF Read, Lost
  <2> QED
    BY <1>1, <1>3, <2>1, <2>2, <2>3, Zenon
<1>5. CASE s = stream /\ m = p.media
  <2>1. ToRead(s, m) = {n} \cup R /\ Below({n}, R)
    BY <1>5, ReadOne, Zenon
  <2>2. R \in SUBSET Nat
    BY <2>1, TrackTypes, Zenon
  <2> HIDE DEF F, Q, R, L, M, n, p
  <2>3. Track(F, Q, {n}, R, L)
    BY <1>1, <1>2, <2>1, <2>2, TrackRead, Zenon
  <2>4. CASE isRecording
    <3>1. InHand(s, m)' = {n} /\ M = L
      BY <1>5, <2>4, Zenon DEF Read, InHand, Lost, p, n, L, M
    <3> QED
      BY <1>3, <2>3, <3>1, Zenon DEF R, M
  <2>5. CASE ~isRecording
    <3>1. InHand(s, m)' = {} /\ lost' = NotQueued(p)
      BY <2>5, Zenon DEF Read, InHand, p
    <3>2. L \subseteq M /\ (mapping => n \in M)
      BY <1>2, <1>5, <3>1, LostThen, Zenon DEF p, n, L, M
    <3>3. ~mapping => F = {} /\ Q = {}
      BY Unmapped DEF F, Q, InFile, InQueue, Empty
    <3>4. Track(F, Q, {}, R, M)
      BY <1>2, <2>2, <2>3, <3>2, <3>3, TrackDrop, Zenon
    <3> QED
      BY <1>3, <3>1, <3>4, Zenon DEF R, M
  <2> QED
    BY <2>4, <2>5, Zenon
<1> QED
  BY <1>4, <1>5, Zenon

\* What is in a queue after a push.
LEMMA PushOne ==
    ASSUME DataTypes, dpc = "write", queue' = [queue EXCEPT ![pkt.media] = Append(@, Queued)],
           NEW s, NEW m \in Media
    PROVE  /\ s = stream /\ m = pkt.media => InQueue(s, m)' = InQueue(s, m) \cup {pkt.n}
           /\ ~(s = stream /\ m = pkt.media) => InQueue(s, m)' = InQueue(s, m)
<1>1. pkt.media \in Media /\ Queued \in QueuedType /\ Queued.stream = stream /\ Queued.packet.n = pkt.n
  BY Zenon DEF DataTypes, PacketType, Queued, QueuedType
<1>2. CASE m # pkt.media
  <2>1. queue'[m] = queue[m]
    BY <1>2, Zenon DEF DataTypes
  <2> QED
    BY <1>2, <2>1, Zenon DEF InQueue
<1>3. CASE m = pkt.media
  <2>1. queue'[m] = Append(queue[m], Queued) /\ queue[m] \in Seq(QueuedType)
    BY <1>3, Zenon DEF DataTypes
  <2>2. /\ DOMAIN queue'[m] = DOMAIN queue[m] \cup {Len(queue[m]) + 1}
        /\ \A i \in DOMAIN queue[m] : queue'[m][i] = queue[m][i]
        /\ queue'[m][Len(queue[m]) + 1] = Queued
    BY <1>1, <2>1, Appended
  <2>3. InQueue(s, m) = {queue[m][i].packet.n : i \in {j \in DOMAIN queue[m] : queue[m][j].stream = s}}
        /\ InQueue(s, m)' = {queue'[m][i].packet.n :
                                i \in {j \in DOMAIN queue'[m] : queue'[m][j].stream = s}}
    BY Zenon DEF InQueue
  <2>4. InQueue(s, m) \subseteq InQueue(s, m)' /\ (s = stream => pkt.n \in InQueue(s, m)')
    BY <1>1, <2>2, <2>3
  <2>5. \A x \in InQueue(s, m)' : x \in InQueue(s, m) \/ (s = stream /\ x = pkt.n)
    BY <1>1, <2>2, <2>3
  <2> QED
    BY <1>3, <2>4, <2>5, Zenon
<1> QED
  BY <1>2, <1>3, Zenon

\* A packet in hand goes to the end of its queue or is lost.
LEMMA PushTracks ==
    ASSUME DataTypes, Control, Tracks, writePacket PROVE Tracks'
<1> SUFFICES ASSUME NEW s \in Nat, NEW m \in Media
             PROVE  Track(InFile(s, m), InQueue(s, m), InHand(s, m), ToRead(s, m), Lost(s, m))'
  BY Zenon DEF Tracks
<1> DEFINE F == InFile(s, m)
           Q == InQueue(s, m)
           R == ToRead(s, m)
           L == Lost(s, m)
           M == Lost(s, m)'
<1>1. Track(F, Q, InHand(s, m), R, L) /\ dpc = "write" /\ pkt \in PacketType
  BY Zenon DEF Tracks, writePacket, DataTypes
<1>2. F \in SUBSET Nat /\ Q \in SUBSET Nat /\ R \in SUBSET Nat /\ pkt.n \in Nat
  BY <1>1, TrackTypes, Zenon DEF PacketType
<1>3. InFile(s, m)' = F /\ ToRead(s, m)' = R /\ InHand(s, m)' = {}
  BY Zenon DEF writePacket, source, InFile, ToRead, InHand
<1>4. CASE ~(s = stream /\ m = pkt.media)
  <2>1. InHand(s, m) = {}
    BY <1>4, Zenon DEF InHand
  <2>2. InQueue(s, m)' = Q
    <3>1. CASE queue' = queue
      BY <3>1, Zenon DEF InQueue
    <3>2. CASE queue' = [queue EXCEPT ![pkt.media] = Append(@, Queued)]
      BY <1>1, <1>4, <3>2, PushOne, Zenon
    <3> QED
      BY <3>1, <3>2, Zenon DEF writePacket
  <2>3. M = L
    BY <1>1, <1>4, LostThen, Zenon DEF writePacket, Lost
  <2> QED
    BY <1>1, <1>3, <2>1, <2>2, <2>3, Zenon
<1>5. CASE s = stream /\ m = pkt.media
  <2>1. InHand(s, m) = {pkt.n}
    BY <1>1, <1>5, Zenon DEF InHand
  <2>2. CASE queue' = [queue EXCEPT ![pkt.media] = Append(@, Queued)] /\ lost' = lost
    <3>1. InQueue(s, m)' = Q \cup {pkt.n} /\ M = L
      BY <1>1, <1>5, <2>2, PushOne, Zenon DEF Lost
    <3> HIDE DEF F, Q, R, L, M
    <3>2. Track(F, Q \cup {pkt.n}, {}, R, L)
      BY <1>1, <1>2, <2>1, TrackPush, Zenon
    <3> QED
      BY <1>3, <3>1, <3>2, Zenon DEF M
  <2>3. CASE queue' = queue /\ lost' = NotQueued(pkt)
    <3>1. InQueue(s, m)' = Q
      BY <2>3, Zenon DEF InQueue
    <3>2. L \subseteq M /\ (mapping => pkt.n \in M)
      BY <1>1, <1>5, <2>3, LostThen, Zenon
    <3>3. ~mapping => F = {} /\ Q = {}
      BY Unmapped DEF InFile, InQueue, Empty
    <3> HIDE DEF F, Q, R, L, M
    <3>4. Track(F, Q, {}, R, M)
      BY <1>1, <1>2, <2>1, <3>2, <3>3, TrackDrop, Zenon
    <3> QED
      BY <1>3, <3>1, <3>4, Zenon DEF M
  <2> QED
    BY <2>2, <2>3, Zenon DEF writePacket
<1> QED
  BY <1>4, <1>5, Zenon

\* What is in a queue before and after a pop.
LEMMA TakeOne ==
    ASSUME DataTypes, QueueSorted, NEW m \in Media, Takes(m), NEW s, NEW k \in Media
    PROVE  /\ s = Head(queue[m]).stream /\ k = m =>
                /\ InQueue(s, k) = {Head(queue[m]).packet.n} \cup InQueue(s, k)'
                /\ Below({Head(queue[m]).packet.n}, InQueue(s, k)')
           /\ ~(s = Head(queue[m]).stream /\ k = m) => InQueue(s, k)' = InQueue(s, k)
<1> DEFINE q == Head(queue[m])
<1>1. queue[m] \in Seq(QueuedType) /\ queue[m] # <<>> /\ queue'[m] = Tail(queue[m])
  BY Zenon DEF DataTypes, Takes
<1>2. /\ q = queue[m][1] /\ 1 \in DOMAIN queue[m]
      /\ \A i \in DOMAIN queue'[m] : i + 1 \in DOMAIN queue[m] /\ queue'[m][i] = queue[m][i + 1]
      /\ \A i \in DOMAIN queue[m] : i # 1 => i - 1 \in DOMAIN queue'[m] /\ queue[m][i] = queue'[m][i - 1]
  BY <1>1, Tailed
<1>3. \A i \in DOMAIN queue'[m] : queue'[m][i].stream = q.stream => q.packet.n < queue'[m][i].packet.n
  <2>1. \A i \in DOMAIN queue'[m] : i \in Nat /\ 1 < i + 1
    <3>1. queue'[m] \in Seq(QueuedType)
      BY <1>1
    <3> QED
      BY <3>1
  <2> QED
    BY <1>2, <2>1 DEF QueueSorted
<1>4. CASE k = m
  <2>1. InQueue(s, k) = {queue[m][i].packet.n : i \in {j \in DOMAIN queue[m] : queue[m][j].stream = s}}
        /\ InQueue(s, k)' = {queue'[m][i].packet.n :
                                i \in {j \in DOMAIN queue'[m] : queue'[m][j].stream = s}}
    BY <1>4, Zenon DEF InQueue
  <2>2. InQueue(s, k)' \subseteq InQueue(s, k)
    BY <1>2, <2>1
  <2>3. \A x \in InQueue(s, k) : x \in InQueue(s, k)' \/ (x = q.packet.n /\ s = q.stream)
    BY <1>2, <2>1
  <2>4. s = q.stream => q.packet.n \in InQueue(s, k)
    BY <1>2, <2>1
  <2>5. s = q.stream => Below({q.packet.n}, InQueue(s, k)')
    BY <1>3, <2>1, Zenon DEF Below
  <2>6. s = q.stream => InQueue(s, k) = {q.packet.n} \cup InQueue(s, k)'
    BY <2>2, <2>3, <2>4, Zenon
  <2>7. s # q.stream => InQueue(s, k)' = InQueue(s, k)
    BY <2>2, <2>3, Zenon
  <2> QED
    BY <1>4, <2>5, <2>6, <2>7, Zenon
<1>5. CASE k # m
  <2>1. queue'[k] = queue[k]
    BY <1>5, Zenon DEF DataTypes, Takes
  <2> QED
    BY <1>5, <2>1, Zenon DEF InQueue
<1> QED
  BY <1>4, <1>5, Zenon

\* What is in the file after a packet has been written.
LEMMA WriteOne ==
    ASSUME DataTypes, NEW q \in QueuedType, file' = Append(file, Entry(q)), NEW s, NEW m
    PROVE  /\ s = q.stream /\ m = q.packet.media => InFile(s, m)' = InFile(s, m) \cup {q.packet.n}
           /\ ~(s = q.stream /\ m = q.packet.media) => InFile(s, m)' = InFile(s, m)
<1>1. Entry(q) \in WrittenType /\ Entry(q).stream = q.stream /\ Entry(q).packet = q.packet
  BY EntryType, Zenon DEF Entry
<1>2. /\ DOMAIN file' = DOMAIN file \cup {Len(file) + 1}
      /\ \A i \in DOMAIN file : file'[i] = file[i]
      /\ file'[Len(file) + 1] = Entry(q)
  <2>1. file \in Seq(WrittenType)
    BY Zenon DEF DataTypes
  <2> QED
    BY <1>1, <2>1, Appended
<1>3. InFile(s, m) = {file[i].packet.n :
                        i \in {j \in DOMAIN file : file[j].packet.media = m /\ file[j].stream = s}}
      /\ InFile(s, m)' = {file'[i].packet.n :
                            i \in {j \in DOMAIN file' : file'[j].packet.media = m /\ file'[j].stream = s}}
  BY Zenon DEF InFile
<1>4. InFile(s, m) \subseteq InFile(s, m)'
      /\ (s = q.stream /\ m = q.packet.media => q.packet.n \in InFile(s, m)')
  BY <1>1, <1>2, <1>3
<1>5. \A x \in InFile(s, m)' :
        x \in InFile(s, m) \/ (s = q.stream /\ m = q.packet.media /\ x = q.packet.n)
  BY <1>1, <1>2, <1>3
<1> QED
  BY <1>4, <1>5, Zenon

\* A packet at the head of a queue goes to the end of the file or, before the key
\* frame, is skipped: then nothing of an earlier packet is in the file.
LEMMA PopTracks ==
    ASSUME DataTypes, Control, Placed, KeyFrames, QueueSorted, Tracks, NEW m \in Media, Pop(m)
    PROVE  Tracks'
<1> SUFFICES ASSUME NEW s \in Nat, NEW k \in Media
             PROVE  Track(InFile(s, k), InQueue(s, k), InHand(s, k), ToRead(s, k), Lost(s, k))'
  BY Zenon DEF Tracks
<1> DEFINE q == Head(queue[m])
           n == Head(queue[m]).packet.n
           F == InFile(s, k)
           Q == InQueue(s, k)'
           H == InHand(s, k)
           R == ToRead(s, k)
           L == Lost(s, k)
<1>1. Track(F, InQueue(s, k), H, R, L)
  BY Zenon DEF Tracks
<1>2. F \in SUBSET Nat /\ InQueue(s, k) \in SUBSET Nat /\ H \in SUBSET Nat /\ R \in SUBSET Nat
  BY TrackTypes, Zenon
<1>3. H' = H /\ R' = R /\ L' = L
  BY Zenon DEF Pop, source, demux, InHand, ToRead, Lost
<1>4. CASE Finds(m)
  <2>1. F' = F /\ Q = InQueue(s, k)
    BY <1>4, Zenon DEF Finds, InFile, InQueue
  <2> QED
    BY <1>1, <1>3, <2>1, Zenon
<1>5. CASE Skips(m)
  <2>1. Takes(m) /\ F' = F /\ file = <<>> /\ F = {}
    BY <1>5 DEF Skips, InFile, KeyFrames, Pop, Media
  <2>2. CASE ~(s = q.stream /\ k = m)
    <3>1. Q = InQueue(s, k)
      BY <2>1, <2>2, TakeOne, Zenon
    <3> QED
      BY <1>1, <1>3, <2>1, <3>1, Zenon
  <2>3. CASE s = q.stream /\ k = m
    <3>1. InQueue(s, k) = {n} \cup Q /\ Below({n}, Q)
      BY <2>1, <2>3, TakeOne, ZenonT(60)
    <3>2. n \in Nat /\ Q \in SUBSET Nat
      BY <1>2, <3>1, Zenon
    <3> HIDE DEF F, Q, H, R, L, n
    <3>3. Track({}, Q, H, R, L)
      BY <1>1, <1>2, <2>1, <3>1, <3>2, TrackSkip, Zenon
    <3> QED
      BY <1>3, <2>1, <3>3, Zenon DEF F, Q, H, R, L
  <2> QED
    BY <2>2, <2>3, Zenon
<1>6. CASE Writes(m)
  <2>1. Takes(m) /\ file' = Append(file, Entry(q)) /\ queue[m] # <<>>
    BY <1>6, Zenon DEF Writes, Takes
  <2>2. q \in QueuedType /\ q.packet.media = m
    BY <2>1, HeadType, Zenon
  <2>3. CASE ~(s = q.stream /\ k = m)
    <3>1. Q = InQueue(s, k)
      BY <2>1, <2>3, TakeOne, Zenon
    <3>2. F' = F
      BY <2>1, <2>2, <2>3, WriteOne, Zenon
    <3> QED
      BY <1>1, <1>3, <3>1, <3>2, Zenon
  <2>4. CASE s = q.stream /\ k = m
    <3>1. InQueue(s, k) = {n} \cup Q /\ Below({n}, Q)
      BY <2>1, <2>4, TakeOne, ZenonT(60)
    <3>2. F' = F \cup {n}
      BY <2>1, <2>2, <2>4, WriteOne, Zenon
    <3>3. n \in Nat /\ Q \in SUBSET Nat
      BY <1>2, <3>1, Zenon
    <3> HIDE DEF F, Q, H, R, L, n
    <3>4. Track(F \cup {n}, Q, H, R, L)
      BY <1>1, <1>2, <3>1, <3>3, TrackWrite, Zenon
    <3> QED
      BY <1>3, <3>2, <3>4, Zenon DEF F, Q, H, R, L
  <2> QED
    BY <2>3, <2>4, Zenon
<1> QED
  BY <1>4, <1>5, <1>6, PopCases, Zenon

\* The packets of a new stream are numbered without a gap.
LEMMA NumberedTrack ==
    ASSUME NEW packets \in Seq(PacketType), Numbered(packets), NEW m
    PROVE  LET R == {packets[i].n : i \in {j \in DOMAIN packets : packets[j].media = m}}
           IN  R \in SUBSET Nat /\ NoGap(R, R)
<1> DEFINE R == {packets[i].n : i \in {j \in DOMAIN packets : packets[j].media = m}}
<1>1. \A i \in DOMAIN packets : packets[i].n \in Nat
  <2>1. \A i \in DOMAIN packets : packets[i] \in PacketType
    OBVIOUS
  <2> QED
    BY <2>1, Zenon DEF PacketType
<1>2. ASSUME NEW a \in R, NEW b \in R, NEW k \in Nat, a < k, k < b PROVE k \in R
  <2>1. PICK i \in DOMAIN packets : packets[i].media = m /\ a = packets[i].n
    OBVIOUS
  <2>2. PICK j \in DOMAIN packets : packets[j].media = m /\ b = packets[j].n
    OBVIOUS
  <2>3. i \in Nat /\ j \in Nat /\ i # j /\ a \in Nat /\ b \in Nat
    BY <1>1, <1>2, <2>1, <2>2
  <2>4. ~(j < i)
    BY <1>1, <1>2, <2>1, <2>2, <2>3 DEF Numbered
  <2>5. i < j /\ k \in a + 1 .. b - 1
    BY <1>2, <2>3, <2>4
  <2>6. PICK h \in i .. j : packets[h].n = k /\ packets[h].media = packets[i].media
    BY <2>1, <2>2, <2>5, ZenonT(60) DEF Numbered
  <2>7. h \in DOMAIN packets
    BY <2>1, <2>2
  <2> QED
    BY <2>1, <2>6, <2>7, Zenon
<1> QED
  BY <1>1, <1>2, Zenon DEF NoGap

\* A stream that is opened has a new number and nothing of it is queued or written;
\* one that is closed leaves what is queued as it is.
LEMMA StreamTracks ==
    ASSUME DataTypes, DataTypes', Placed, Tracks, Streams PROVE Tracks'
<1> SUFFICES ASSUME NEW s \in Nat, NEW m \in Media
             PROVE  Track(InFile(s, m), InQueue(s, m), InHand(s, m), ToRead(s, m), Lost(s, m))'
  BY Zenon DEF Tracks
<1> DEFINE F == InFile(s, m)
           Q == InQueue(s, m)
           R == ToRead(s, m)
           L == Lost(s, m)
<1>1. Track(F, Q, InHand(s, m), R, L)
  BY Zenon DEF Tracks
<1>2. F \in SUBSET Nat /\ Q \in SUBSET Nat /\ R \in SUBSET Nat
  BY TrackTypes, Zenon
<1>3. F' = F /\ Q' = Q /\ L' = L /\ InHand(s, m) = {} /\ InHand(s, m)' = {}
  BY Zenon DEF Streams, InFile, InQueue, Lost, InHand
<1>4. CASE R' = {}
  <2> HIDE DEF F, Q, R, L
  <2>1. Track(F, Q, {}, {}, L)
    BY <1>1, <1>2, <1>3, TrackClose, Zenon
  <2> QED
    BY <1>3, <1>4, <2>1, Zenon DEF F, Q, R, L
<1>5. CASE s = opens + 1 /\ stream' = s /\ Numbered(rest')
  <2>1. F = {} /\ Q = {}
    <3>1. \A i \in DOMAIN file : file[i].stream # s
      <4>1. \A i \in DOMAIN file : file[i] \in WrittenType /\ file[i].stream <= opens
        BY DEF DataTypes, Placed
      <4> QED
        BY <1>5, <4>1 DEF WrittenType, DataTypes
    <3>2. \A i \in DOMAIN queue[m] : queue[m][i].stream # s
      <4>1. \A i \in DOMAIN queue[m] : queue[m][i] \in QueuedType /\ queue[m][i].stream <= opens
        BY DEF DataTypes, Placed
      <4> QED
        BY <1>5, <4>1 DEF QueuedType, DataTypes
    <3> QED
      BY <3>1, <3>2, Zenon DEF InFile, InQueue
  <2>2. R' \in SUBSET Nat /\ NoGap(R', R')
    <3>1. rest' \in Seq(PacketType)
      BY Zenon DEF DataTypes
    <3>2. R' = {rest'[i].n : i \in {j \in DOMAIN rest' : rest'[j].media = m}}
      BY <1>5, Zenon DEF ToRead
    <3> QED
      BY <1>5, <3>1, <3>2, NumberedTrack, Zenon
  <2> HIDE DEF F, Q, R, L
  <2>3. Track({}, {}, {}, R', L)
    BY <2>2, TrackOpen, Zenon
  <2> QED
    BY <1>3, <2>1, <2>3, Zenon DEF F, Q, R, L
<1>6. R' = {} \/ (s = opens + 1 /\ stream' = s /\ Numbered(rest'))
  BY DEF Streams, ToRead
<1> QED
  BY <1>4, <1>5, <1>6, Zenon

\* Clearing the queues and the file leaves no gap.
LEMMA ClearTracks ==
    ASSUME DataTypes, Tracks, Clears PROVE Tracks'
<1> SUFFICES ASSUME NEW s \in Nat, NEW m \in Media
             PROVE  Track(InFile(s, m), InQueue(s, m), InHand(s, m), ToRead(s, m), Lost(s, m))'
  BY Zenon DEF Tracks
<1> DEFINE H == InHand(s, m)
           R == ToRead(s, m)
           M == Lost(s, m)'
<1>1. Track(InFile(s, m), InQueue(s, m), H, R, Lost(s, m))
  BY Zenon DEF Tracks
<1>2. InFile(s, m) \in SUBSET Nat /\ InQueue(s, m) \in SUBSET Nat /\ H \in SUBSET Nat /\ R \in SUBSET Nat
  BY TrackTypes, Zenon
<1>3. H' = H /\ R' = R /\ InFile(s, m)' = {} /\ InQueue(s, m)' = {}
  BY DEF Clears, Empty, InFile, InQueue, InHand, ToRead
<1> HIDE DEF H, R, M
<1>4. Track({}, {}, H, R, M)
  BY <1>1, <1>2, TrackClear, Zenon
<1> QED
  BY <1>3, <1>4, Zenon DEF H, R, M

\* Every step keeps the packets of every stream in order and without gaps.
LEMMA TracksStep == Inv /\ DataTypes' /\ [Next]_vars => Tracks'
<1> SUFFICES ASSUME Inv, DataTypes', [Next]_vars PROVE Tracks'
  OBVIOUS
<1>a. TypeOK /\ DataTypes /\ Control /\ KeyFrames /\ Tracks /\ QueueSorted /\ RestSorted /\ Placed
  BY Zenon DEF Inv, TypeOK, Sequenced
<1>1. CASE Elsewhere \/ Begins
  <2>1. UNCHANGED <<file, queue, stream, rest, pkt, lost>> /\ (dpc' = "write" <=> dpc = "write")
    BY <1>1, Zenon DEF Elsewhere, Begins
  <2>2. \A s \in Nat, m \in Media :
          /\ InFile(s, m)' = InFile(s, m) /\ InQueue(s, m)' = InQueue(s, m)
          /\ InHand(s, m)' = InHand(s, m) /\ ToRead(s, m)' = ToRead(s, m) /\ Lost(s, m)' = Lost(s, m)
    BY <2>1 DEF InFile, InQueue, InHand, ToRead, Lost
  <2> QED
    BY <1>a, <2>2, Zenon DEF Tracks
<1> QED
  BY <1>a, <1>1, ClearTracks, StreamTracks, ReadTracks, PushTracks, PopTracks, StepKinds, Zenon

\* A packet keeps its place in the queue of its medium.
LEMMA PlacedStep == TypeOK /\ Control /\ Placed /\ DataTypes' /\ [Next]_vars => Placed'
<1> SUFFICES ASSUME TypeOK, Control, Placed, DataTypes', [Next]_vars PROVE Placed'
  OBVIOUS
<1>a. DataTypes /\ file \in Seq(WrittenType) /\ queue \in [Media -> Seq(QueuedType)]
  BY Zenon DEF TypeOK, DataTypes
<1>1. CASE Elsewhere \/ Begins
  BY <1>1, Zenon DEF Elsewhere, Begins, Placed
<1>2. CASE Clears
  BY <1>2 DEF Clears, Placed, Empty
<1>3. CASE Streams
  <2>1. opens' >= opens /\ stream' <= opens' /\ opens \in Nat /\ opens' \in Nat
    BY <1>3 DEF Streams, DataTypes, TypeOK
  <2>2. \A i \in DOMAIN file : file[i].stream \in Nat
    <3>1. \A i \in DOMAIN file : file[i] \in WrittenType
      BY <1>a
    <3> QED
      BY <3>1, Zenon DEF WrittenType
  <2>3. \A m \in Media : \A i \in DOMAIN queue[m] : queue[m][i].stream \in Nat
    <3>1. \A m \in Media : \A i \in DOMAIN queue[m] : queue[m][i] \in QueuedType
      BY <1>a
    <3> QED
      BY <3>1, Zenon DEF QueuedType
  <2>4. UNCHANGED <<file, queue>>
    BY <1>3, Zenon DEF Streams
  <2> QED
    BY <2>1, <2>2, <2>3, <2>4 DEF Placed
<1>4. CASE Read
  BY <1>4, Zenon DEF Read, Placed, queues
<1>5. CASE writePacket
  <2>1. pkt.media \in Media /\ Queued \in QueuedType /\ Queued.stream = stream /\ Queued.packet = pkt
    BY <1>a, <1>5, Zenon DEF writePacket, DataTypes, PacketType, Queued, QueuedType
  <2>2. UNCHANGED <<file, stream, opens>>
        /\ (queue' = queue \/ queue' = [queue EXCEPT ![pkt.media] = Append(@, Queued)])
    BY <1>5, Zenon DEF writePacket, source
  <2>3. ASSUME NEW m \in Media, NEW i \in DOMAIN queue'[m]
        PROVE  queue'[m][i].stream <= opens /\ queue'[m][i].packet.media = m
    <3>1. CASE queue'[m] = queue[m]
      BY <3>1, Zenon DEF Placed
    <3>2. CASE m = pkt.media /\ queue'[m] = Append(queue[m], Queued)
      BY <1>a, <2>1, <2>3, <3>2, Appended DEF Placed
    <3> QED
      BY <1>a, <2>1, <2>2, <3>1, <3>2, Zenon
  <2> QED
    BY <2>2, <2>3, Zenon DEF Placed
<1>6. ASSUME NEW m \in Media, Pop(m) PROVE Placed'
  <2>0. UNCHANGED <<stream, opens>>
    BY <1>6, Zenon DEF Pop, source
  <2>1. CASE Finds(m)
    BY <2>0, <2>1, Zenon DEF Finds, Placed
  <2>2. ASSUME Takes(m), NEW k \in Media, NEW i \in DOMAIN queue'[k]
        PROVE  queue'[k][i].stream <= opens /\ queue'[k][i].packet.media = k
    <3>1. CASE k # m
      BY <1>a, <2>2, <3>1, Zenon DEF Takes, Placed
    <3>2. CASE k = m
      <4>1. queue'[k] = Tail(queue[k]) /\ queue[k] \in Seq(QueuedType) /\ queue[k] # <<>>
        BY <1>a, <2>2, <3>2, Zenon DEF Takes
      <4>2. i + 1 \in DOMAIN queue[k] /\ queue'[k][i] = queue[k][i + 1]
        BY <2>2, <4>1, Tailed
      <4> QED
        BY <4>2, Zenon DEF Placed
    <3> QED
      BY <3>1, <3>2, Zenon
  <2>3. CASE Skips(m)
    BY <2>0, <2>2, <2>3, Zenon DEF Skips, Placed
  <2>4. CASE Writes(m)
    <3> DEFINE q == Head(queue[m])
    <3>1. q \in QueuedType /\ q = queue[m][1] /\ 1 \in DOMAIN queue[m] /\ Entry(q) \in WrittenType
      BY <1>a, <2>4, HeadType, EntryType, Zenon DEF Writes, Takes
    <3>2. Entry(q).stream <= opens
      BY <3>1, Zenon DEF Placed, Entry
    <3>3. file' = Append(file, Entry(q)) /\ Takes(m)
      BY <2>4, Zenon DEF Writes
    <3>4. \A i \in DOMAIN file' : file'[i].stream <= opens
      BY <1>a, <3>1, <3>2, <3>3, Appended DEF Placed
    <3>5. stream <= opens
      BY Zenon DEF Placed
    <3> QED
      BY <2>0, <2>2, <3>3, <3>4, <3>5, Zenon DEF Placed
  <2> QED
    BY <1>a, <1>6, <2>1, <2>3, <2>4, PopCases, Zenon
<1> QED
  BY <1>1, <1>2, <1>3, <1>4, <1>5, <1>6, StepKinds, Zenon

\* What is to be read stays in order.
LEMMA RestSortedStep == TypeOK /\ Control /\ RestSorted /\ [Next]_vars => RestSorted'
<1> SUFFICES ASSUME TypeOK, Control, RestSorted, [Next]_vars PROVE RestSorted'
  OBVIOUS
<1>1. CASE UNCHANGED rest
  BY <1>1, Zenon DEF RestSorted
<1>2. CASE Streams
  BY <1>2 DEF Streams, RestSorted, Numbered
<1>3. CASE Read
  <2>1. rest \in Seq(PacketType) /\ rest # <<>> /\ rest' = Tail(rest) /\ rest' \in Seq(PacketType)
    BY <1>3 DEF TypeOK, DataTypes, Read
  <2>2. \A i \in DOMAIN rest' : i \in Nat /\ i + 1 \in DOMAIN rest /\ rest'[i] = rest[i + 1]
    BY <2>1, Tailed
  <2> QED
    BY <2>2 DEF RestSorted
<1> QED
  BY <1>1, <1>2, <1>3, StepKinds, Zenon DEF Elsewhere, Begins, Clears, writePacket, Pop, source

\* A packet goes to the end of the queue, after those of its stream, and leaves
\* it at the head.
LEMMA QueueSortedStep ==
    TypeOK /\ Control /\ Placed /\ Tracks /\ QueueSorted /\ [Next]_vars => QueueSorted'
<1> SUFFICES ASSUME TypeOK, Control, Placed, Tracks, QueueSorted, [Next]_vars PROVE QueueSorted'
  OBVIOUS
<1>a. DataTypes /\ queue \in [Media -> Seq(QueuedType)]
  BY Zenon DEF TypeOK, DataTypes
<1>1. CASE UNCHANGED queue
  BY <1>1, Zenon DEF QueueSorted
<1>2. CASE Clears
  BY <1>2 DEF Clears, QueueSorted, Empty
<1>3. CASE writePacket
  <2>1. pkt.media \in Media /\ Queued \in QueuedType /\ Queued.stream = stream /\ Queued.packet = pkt
    BY <1>a, <1>3, Zenon DEF writePacket, DataTypes, PacketType, Queued, QueuedType
  <2>2. ASSUME NEW m \in Media, NEW i \in DOMAIN queue'[m], NEW j \in DOMAIN queue'[m], i < j,
               queue'[m][i].stream = queue'[m][j].stream
        PROVE  queue'[m][i].packet.n < queue'[m][j].packet.n
    <3>1. CASE queue'[m] = queue[m]
      BY <2>2, <3>1, Zenon DEF QueueSorted
    <3>2. CASE m = pkt.media /\ queue'[m] = Append(queue[m], Queued)
      <4>1. queue[m] \in Seq(QueuedType)
        BY <1>a, Zenon
      <4>2. i \in DOMAIN queue[m] /\ (j \in DOMAIN queue[m] \/ j = Len(queue[m]) + 1)
        BY <2>1, <2>2, <3>2, <4>1
      <4>3. CASE j \in DOMAIN queue[m]
        BY <2>1, <2>2, <3>2, <4>1, <4>2, <4>3, Appended DEF QueueSorted
      <4>4. CASE j = Len(queue[m]) + 1
        <5>1. queue'[m][j] = Queued /\ queue'[m][i] = queue[m][i]
          BY <2>1, <3>2, <4>1, <4>2, <4>4, Appended
        <5>2. queue[m][i].packet.n \in InQueue(stream, m)
          BY <2>1, <2>2, <4>2, <5>1, Zenon DEF InQueue
        <5>3. pkt.n \in InHand(stream, m) /\ stream \in Nat
          BY <1>a, <1>3, <3>2, Zenon DEF writePacket, InHand, DataTypes
        <5>4. Below(InQueue(stream, m), InHand(stream, m) \cup ToRead(stream, m))
          BY <5>3, Zenon DEF Tracks, Track, Ordered
        <5> QED
          BY <2>1, <5>1, <5>2, <5>3, <5>4, Zenon DEF Below
      <4> QED
        BY <4>2, <4>3, <4>4, Zenon
    <3> QED
      BY <1>a, <1>3, <2>1, <3>1, <3>2, Zenon DEF writePacket
  <2> QED
    BY <2>2, Zenon DEF QueueSorted
<1>4. ASSUME NEW m \in Media, Pop(m), Takes(m) PROVE QueueSorted'
  <2>1. ASSUME NEW k \in Media, NEW i \in DOMAIN queue'[k], NEW j \in DOMAIN queue'[k], i < j,
               queue'[k][i].stream = queue'[k][j].stream
        PROVE  queue'[k][i].packet.n < queue'[k][j].packet.n
    <3>1. CASE k # m
      <4>1. queue'[k] = queue[k]
        BY <1>a, <1>4, <3>1, Zenon DEF Takes
      <4> QED
        BY <2>1, <4>1, Zenon DEF QueueSorted
    <3>2. CASE k = m
      <4>1. queue'[k] = Tail(queue[k]) /\ queue[k] \in Seq(QueuedType) /\ queue[k] # <<>>
        BY <1>a, <1>4, <3>2, Zenon DEF Takes
      <4>2. /\ i + 1 \in DOMAIN queue[k] /\ queue'[k][i] = queue[k][i + 1]
            /\ j + 1 \in DOMAIN queue[k] /\ queue'[k][j] = queue[k][j + 1]
        BY <2>1, <4>1, Tailed
      <4>3. i + 1 < j + 1
        <5>1. queue'[k] \in Seq(QueuedType)
          BY <4>1
        <5> QED
          BY <2>1, <5>1
      <4> QED
        BY <2>1, <4>2, <4>3, Zenon DEF QueueSorted
    <3> QED
      BY <3>1, <3>2, Zenon
  <2> QED
    BY <2>1, Zenon DEF QueueSorted
<1>5. ASSUME NEW m \in Media, Pop(m) PROVE Takes(m) \/ UNCHANGED queue
  BY <1>a, <1>5, PopCases, Zenon DEF Finds, Skips, Writes
<1> QED
  BY <1>1, <1>2, <1>3, <1>4, <1>5, StepKinds, Zenon DEF Elsewhere, Begins, Streams, Read, queues

\* The packet written comes after those of its stream in the file.
LEMMA FileSortedStep ==
    TypeOK /\ Control /\ Placed /\ Tracks /\ FileSorted /\ [Next]_vars => FileSorted'
<1> SUFFICES ASSUME TypeOK, Control, Placed, Tracks, FileSorted, [Next]_vars PROVE FileSorted'
  OBVIOUS
<1>a. DataTypes /\ file \in Seq(WrittenType)
  BY Zenon DEF TypeOK, DataTypes
<1>1. CASE UNCHANGED file
  BY <1>1, Zenon DEF FileSorted
<1>2. CASE Clears
  BY <1>2 DEF Clears, FileSorted
<1>3. ASSUME NEW m \in Media, Pop(m), Writes(m) PROVE FileSorted'
  <2> DEFINE q == Head(queue[m])
  <2>1. q \in QueuedType /\ q = queue[m][1] /\ 1 \in DOMAIN queue[m] /\ q.packet.media = m
        /\ q.stream \in Nat
    BY <1>a, <1>3, HeadType, Zenon DEF Writes, Takes, QueuedType
  <2>2. Entry(q) \in WrittenType /\ Entry(q).stream = q.stream /\ Entry(q).packet = q.packet
    BY <1>a, <2>1, EntryType, Zenon DEF Entry
  <2>3. file' = Append(file, Entry(q))
    BY <1>3, Zenon DEF Writes
  <2>4. ASSUME NEW i \in DOMAIN file', NEW j \in DOMAIN file', i < j,
               file'[i].packet.media = file'[j].packet.media, file'[i].stream = file'[j].stream
        PROVE  file'[i].packet.n < file'[j].packet.n
    <3>1. i \in DOMAIN file /\ (j \in DOMAIN file \/ j = Len(file) + 1)
      BY <1>a, <2>2, <2>3, <2>4
    <3>2. CASE j \in DOMAIN file
      BY <1>a, <2>2, <2>3, <2>4, <3>1, <3>2, Appended DEF FileSorted
    <3>3. CASE j = Len(file) + 1
      <4>1. file'[j] = Entry(q) /\ file'[i] = file[i]
        BY <1>a, <2>2, <2>3, <3>1, <3>3, Appended
      <4>2. file[i].packet.n \in InFile(q.stream, m)
        BY <2>1, <2>2, <2>4, <3>1, <4>1, Zenon DEF InFile
      <4>3. q.packet.n \in InQueue(q.stream, m)
        BY <2>1, Zenon DEF InQueue
      <4>4. Below(InFile(q.stream, m), InQueue(q.stream, m))
        BY <2>1, Zenon DEF Tracks, Track, Ordered, Below
      <4> QED
        BY <2>2, <4>1, <4>2, <4>3, <4>4, Zenon DEF Below
    <3> QED
      BY <3>1, <3>2, <3>3, Zenon
  <2> QED
    BY <2>4, Zenon DEF FileSorted
<1>4. ASSUME NEW m \in Media, Pop(m) PROVE Writes(m) \/ UNCHANGED file
  BY <1>a, <1>4, PopCases, Zenon DEF Finds, Skips
<1> QED
  BY <1>1, <1>2, <1>3, <1>4, StepKinds, Zenon DEF Elsewhere, Begins, Streams, Read, writePacket
-----------------------------------------------------------------------------
(* The theorems. *)

\* Nothing is recorded in the initial state.
LEMMA InvInit == Init => Inv
<1> SUFFICES ASSUME Init PROVE Inv
  OBVIOUS
<1>1. CallTypes /\ Phase = "free"
  BY RecorderAssumption, Zenon DEF Init, CallTypes, Phase, Waiting, Holding, Starting, Stopping
<1>2. <<>> \in Seq(QueuedType) /\ <<>> \in Seq(WrittenType) /\ <<>> \in Seq(PacketType)
  OBVIOUS
<1>3. DataTypes
  BY <1>2, Zenon DEF Init, DataTypes, Empty, NoFirst, Times, Stamps
<1>4. Control
  BY <1>1, Zenon DEF Init, Control, Recording, Quiet, Starting, Stopping
<1>5. OwnPackets /\ KeyFrames /\ Stamped
  BY DEF Init, OwnPackets, KeyFrames, KeyFrameFirst, Stamped, Empty
<1>6. FileSorted /\ QueueSorted /\ RestSorted /\ Placed
  BY DEF Init, FileSorted, QueueSorted, RestSorted, Placed, Empty
<1>7. Tracks
  <2>1. \A s \in Nat, m \in Media :
          InFile(s, m) = {} /\ InQueue(s, m) = {} /\ InHand(s, m) = {} /\ ToRead(s, m) = {}
    BY DEF Init, InFile, InQueue, InHand, ToRead, Empty
  <2> QED
    BY <2>1 DEF Tracks, Track, Ordered, Dense, Below, NoGap
<1> QED
  BY <1>1, <1>3, <1>4, <1>5, <1>6, <1>7, Zenon DEF Inv, TypeOK, Sequenced

\* Every step keeps the invariant.
LEMMA InvStep == Inv /\ [Next]_vars => Inv'
<1> SUFFICES ASSUME Inv, [Next]_vars PROVE Inv'
  OBVIOUS
<1>a. TypeOK /\ Control /\ OwnPackets /\ KeyFrames /\ Stamped /\ Tracks /\ FileSorted /\ QueueSorted
      /\ RestSorted /\ Placed
  BY Zenon DEF Inv, Sequenced
<1>1. CallTypes' /\ Control' /\ DataTypes'
  BY <1>a, ControlStep, DataStep, Zenon
<1>2. OwnPackets' /\ KeyFrames' /\ Stamped'
  BY <1>a, OwnStep, KeyFramesStep, StampedStep, Zenon
<1>3. Tracks' /\ Placed'
  BY <1>a, <1>1, TracksStep, PlacedStep, Zenon
<1>4. FileSorted' /\ QueueSorted' /\ RestSorted'
  BY <1>a, FileSortedStep, QueueSortedStep, RestSortedStep, Zenon
<1> QED
  BY <1>1, <1>2, <1>3, <1>4, Zenon DEF Inv, TypeOK, Sequenced

\* The invariant holds for any inputs, callers and capacities.
THEOREM RecorderInvariance == Spec => []Inv
BY InvInit, InvStep, PTL DEF Spec

\* No picture is left out between two of one stream: its number is that of a
\* packet written, since what is queued or to be read comes later, or lost.
LEMMA SkipsNothing == Inv => NothingSkipped
<1> SUFFICES ASSUME Inv PROVE NothingSkipped
  OBVIOUS
<1>a. DataTypes /\ Tracks /\ FileSorted
  BY Zenon DEF Inv, TypeOK, Sequenced
<1>1. ASSUME NEW i \in DOMAIN file, NEW j \in DOMAIN file, i < j,
             file[i].packet.media = file[j].packet.media, file[i].stream = file[j].stream
      PROVE  /\ file[i].packet.n < file[j].packet.n
             /\ \A k \in file[i].packet.n + 1 .. file[j].packet.n - 1 :
                  \/ \E h \in i .. j :
                        file[h].packet.n = k /\ file[h].packet.media = file[i].packet.media
                  \/ <<file[i].stream, file[i].packet.media, k>> \in lost
  <2> DEFINE s == file[i].stream
             m == file[i].packet.media
             a == file[i].packet.n
             b == file[j].packet.n
             F == InFile(s, m)
             L == Lost(s, m)
             Q == InQueue(s, m)
             H == InHand(s, m)
             R == ToRead(s, m)
  <2>1. file[i] \in WrittenType /\ file[j] \in WrittenType
    BY <1>a DEF DataTypes
  <2>2. s \in Nat /\ m \in Media /\ a \in Nat /\ b \in Nat
    BY <2>1, Zenon DEF WrittenType, PacketType
  <2>3. a < b
    BY <1>a, <1>1, Zenon DEF FileSorted
  <2>4. a \in F /\ b \in F /\ Track(F, Q, H, R, L)
    BY <1>a, <1>1, <2>2, Zenon DEF Tracks, InFile
  <2>5. ASSUME NEW k \in a + 1 .. b - 1, k \in F
        PROVE  \E h \in i .. j : file[h].packet.n = k /\ file[h].packet.media = m
    <3>1. PICK h \in DOMAIN file :
            file[h].packet.media = m /\ file[h].stream = s /\ file[h].packet.n = k
      BY <2>5, Zenon DEF InFile
    <3>2. i \in Nat /\ j \in Nat /\ h \in Nat
      BY <1>a, <3>1 DEF DataTypes
    <3>3. ~ h < i /\ ~ j < h
      <4>1. a < k /\ k < b /\ k \in Nat
        BY <2>2, <2>5
      <4>2. h < i => k < a
        BY <1>a, <3>1, Zenon DEF FileSorted
      <4>3. j < h => b < k
        BY <1>a, <1>1, <3>1, Zenon DEF FileSorted
      <4> QED
        BY <2>2, <4>1, <4>2, <4>3
    <3> QED
      BY <3>1, <3>2, <3>3
  <2>6. ASSUME NEW k \in a + 1 .. b - 1, k \notin F PROVE <<s, m, k>> \in lost
    <3>1. a < k /\ k < b /\ k \in Nat
      BY <2>2, <2>6
    <3> HIDE DEF F, Q, H, R, L, a, b
    <3>2. k \in F \cup Q \cup H \cup R \cup L
      BY <2>4, <3>1, Zenon DEF Track, Dense, NoGap
    <3>3. k \notin Q \cup H \cup R
      <4>1. ASSUME k \in Q \cup H \cup R PROVE b < k
        BY <2>4, <4>1, Zenon DEF Track, Ordered, Below
      <4> QED
        BY <2>2, <3>1, <4>1
    <3> QED
      BY <2>6, <3>2, <3>3, Zenon DEF L, Lost
  <2> QED
    BY <2>3, <2>5, <2>6, Zenon
<1> QED
  BY <1>1, Zenon DEF NothingSkipped

\* One recording owns the file, and what is in it is one run of that recording.
THEOREM OneFileHolds == Spec => []OneFile
<1>1. Inv => OneFile
  <2> SUFFICES ASSUME Inv PROVE OneFile
    OBVIOUS
  <2>1. FileHeld
    BY Zenon DEF Inv, Control, Recording, Ready, FileHeld
  <2> QED
    BY <2>1, SkipsNothing, Zenon DEF Inv, OneFile, OneRun
<1> QED
  BY <1>1, RecorderInvariance, PTL

\* The file begins with a key frame, and its time stamps are in order.
THEOREM FilePlaysHolds == Spec => []FilePlays
<1>1. Inv => FilePlays
  <2> SUFFICES ASSUME Inv PROVE FilePlays
    OBVIOUS
  <2>a. DataTypes /\ Stamped
    BY Zenon DEF Inv, TypeOK
  <2>1. ASSUME NEW i \in DOMAIN file
        PROVE  /\ file[i].packet \in PacketType /\ file[i].packet.media \in Media
               /\ first[file[i].packet.media] \in [pts : Nat, dts : Nat]
               /\ file[i].out = Convert(file[i].packet, first[file[i].packet.media])
    <3>1. file[i] \in WrittenType
      BY <2>a DEF DataTypes
    <3>2. file[i].packet \in PacketType /\ file[i].packet.media \in Media
      BY <3>1, Zenon DEF WrittenType, PacketType
    <3> QED
      BY <2>a, <3>2, Zenon DEF DataTypes, Stamped
  <2>2. ASSUME NEW i \in DOMAIN file
        PROVE  /\ {file[i].out.pts, file[i].out.dts} \ {NoPts} \subseteq Nat
               /\ NoPts \notin {file[i].out.pts, file[i].out.dts}
                  => file[i].out.dts <= file[i].out.pts
    <3> DEFINE p == file[i].packet
               f == first[p.media]
    <3>1. p \in PacketType /\ f \in [pts : Nat, dts : Nat] /\ file[i].out = Convert(p, f)
      BY <2>1, Zenon
    <3> HIDE DEF p, f
    <3> QED
      BY <3>1, ConvertType, Zenon
  <2>3. ASSUME NEW i \in DOMAIN file, NEW j \in DOMAIN file,
               file[i].packet.media = file[j].packet.media,
               file[i].packet.dts # NoPts, file[j].packet.dts # NoPts,
               file[i].packet.pts = file[i].packet.dts, file[j].packet.pts = file[j].packet.dts,
               file[i].packet.dts < file[j].packet.dts,
               file[j].packet.dts > first[file[i].packet.media].dts, Num >= Den,
               first[file[i].packet.media].pts = first[file[i].packet.media].dts
        PROVE  file[i].out.dts < file[j].out.dts
    <3> DEFINE p == file[i].packet
               q == file[j].packet
               f == first[p.media]
    <3>1. /\ p \in PacketType /\ q \in PacketType /\ f \in [pts : Nat, dts : Nat]
          /\ file[i].out = Convert(p, f) /\ file[j].out = Convert(q, f)
      BY <2>1, <2>3, Zenon
    <3>2. /\ p.dts # NoPts /\ q.dts # NoPts /\ p.pts = p.dts /\ q.pts = q.dts /\ p.dts < q.dts
          /\ q.dts > f.dts /\ f.pts = f.dts
      BY <2>3, Zenon
    <3> HIDE DEF p, q, f
    <3> QED
      BY <2>3, <3>1, <3>2, ConvertKeepsApart, Zenon
  <2>4. StampsAdvance
    BY <2>2, <2>3, Zenon DEF StampsAdvance
  <2> QED
    BY <2>4, Zenon DEF Inv, KeyFrames, FilePlays
<1> QED
  BY <1>1, RecorderInvariance, PTL
=============================================================================
