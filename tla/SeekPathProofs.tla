--------------------------- MODULE SeekPathProofs ---------------------------
(***************************************************************************)
(* SeekExact for any file and any number of seeks.  From the input to the  *)
(* frame queue everything is ordered by serial and then by place in the    *)
(* file (Ordered), so once something at or after the target has gone       *)
(* through, nothing before it follows.  Until then the filter of the       *)
(* decode loop has to be on (Kept), and a serial whose target was promised *)
(* and that a later request has replaced brings no more pictures (Left):   *)
(* a request that is pending keeps the demuxer from reading.               *)
(***************************************************************************)
EXTENDS SeekPath, TLAPS

\* A packet, a picture or a frame: its place in the file and its serial.
Item == [pos : Nat, serial : Nat]

\* Where the decode loop has a picture in its hands.
Pictured == vpc \in {"testSeeking", "testPos", "clearPos", "write"}

\* Flushes that are still to come of the requests made so far.
Pending ==
    IF dpc = "read" THEN IF request = None THEN 0 ELSE 1
    ELSE IF dpc = "clear" \/ request = None THEN 1 ELSE 2

\* Every serial is of a seek, and the decoder's is not ahead of the queue's.
SeekTypes ==
    /\ seeks \in 0 .. MaxSeeks /\ serial \in 1 .. (MaxSeeks + 1) /\ vserial \in 1 .. serial
    /\ serial + Pending <= seeks + 1
    /\ request \in Int /\ request >= -1 /\ seekPos \in Int /\ ctarget \in Int
    /\ dpc \in {"read", "clear", "seek"} /\ (dpc # "read" => loaded \in Nat)
    /\ readPos \in Nat /\ picture \in Item
    /\ packets \in Seq(Item) /\ frames \in Seq(Item)
    /\ landed \in [1 .. (MaxSeeks + 1) -> Nat] /\ promised \in [1 .. (MaxSeeks + 1) -> Nat]

\* The queued packets are of the present serial, between the place of the last
\* seek and the input, in file order.
PacketsInOrder ==
    /\ landed[serial] <= readPos
    /\ \A i \in 1 .. Len(packets) :
         /\ packets[i].serial = serial
         /\ landed[serial] <= packets[i].pos /\ packets[i].pos < readPos
    /\ \A i, j \in 1 .. Len(packets) : i < j => packets[i].pos < packets[j].pos

\* The picture in the loop's hands is of the loop's serial, before every packet
\* that could follow it.
PictureInOrder ==
    Pictured =>
        /\ picture.serial = vserial /\ landed[vserial] <= picture.pos
        /\ vserial = serial =>
             /\ picture.pos < readPos
             /\ \A i \in 1 .. Len(packets) : picture.pos < packets[i].pos

\* A frame precedes the packets, and the picture, of its serial.
Precedes(f) ==
    /\ f.serial \in 1 .. vserial /\ landed[f.serial] <= f.pos
    /\ f.serial = serial =>
         /\ f.pos < readPos
         /\ \A j \in 1 .. Len(packets) : f.pos < packets[j].pos
    /\ Pictured /\ f.serial = vserial => f.pos < picture.pos

\* A later frame is of a later serial, or later in the file.
Before(f, g) == f.serial < g.serial \/ (f.serial = g.serial /\ f.pos < g.pos)

\* The frames are in that order, and so are they and what follows them.
FramesInOrder ==
    /\ \A i \in 1 .. Len(frames) : Precedes(frames[i])
    /\ \A i, j \in 1 .. Len(frames) : i < j => Before(frames[i], frames[j])

\* The filter for position t is on, or the input has passed t.
Armed(t) == seekPos = t /\ vpc # "write" /\ (vpc = "clearPos" => t <= picture.pos)
Passed(t) ==
    /\ t <= readPos /\ (\A i \in 1 .. Len(packets) : t <= packets[i].pos)
    /\ Pictured => t <= picture.pos

\* The target promised for the present serial: the controller is not at work on
\* another one; a request that was left before the flush keeps the demuxer from
\* reading; until the loop has seen the serial it cannot turn the filter off.
Kept ==
    promised[serial] > 0 =>
        /\ cpc \in {"event", "idle"}
        /\ request # None \/ dpc # "read" => packets = <<>> /\ (vserial = serial => ~Pictured)
        /\ vserial < serial =>
             /\ seekPos = promised[serial] /\ vpc \notin {"testPos", "clearPos"}
             /\ vpc = "testSeeking" => seeking
        /\ vserial = serial => Armed(promised[serial]) \/ Passed(promised[serial])

\* A target that is still promised for an earlier serial: no picture follows.
Left == \A s \in 1 .. (serial - 1) : promised[s] > 0 /\ vserial = s => ~Pictured

\* What SeekExact says of the frames in the queue.
Targeted == \A i \in 1 .. Len(frames) : promised[frames[i].serial] <= frames[i].pos
-----------------------------------------------------------------------------
\* A seek lands on a key frame.
LEMMA LandingIsNat == \A t, k : k \in Landing(t) => k \in Nat
  BY SeekPathAssumption DEF Landing

\* The elements of a sequence after a pop.
LEMMA TailElements ==
    ASSUME NEW s \in Seq(Item), s # <<>>
    PROVE  /\ Tail(s) \in Seq(Item) /\ Head(s) = s[1] /\ Head(s) \in Item
           /\ Len(s) \in Nat /\ 1 \in 1 .. Len(s) /\ Len(Tail(s)) = Len(s) - 1
           /\ \A i \in 1 .. Len(Tail(s)) : Tail(s)[i] = s[i + 1] /\ i + 1 \in 1 .. Len(s)
  OBVIOUS

\* The elements of a sequence after a push.
LEMMA AppendElements ==
    ASSUME NEW s \in Seq(Item), NEW p \in Item
    PROVE  /\ Append(s, p) \in Seq(Item)
           /\ Len(s) \in Nat /\ Len(Append(s, p)) = Len(s) + 1
           /\ \A i \in 1 .. (Len(s) + 1) :
                \/ i = Len(s) + 1 /\ Append(s, p)[i] = p
                \/ i \in 1 .. Len(s) /\ Append(s, p)[i] = s[i]
  <1>1. /\ Append(s, p) \in Seq(Item) /\ Len(s) \in Nat /\ Len(Append(s, p)) = Len(s) + 1
    OBVIOUS
  <1>2. ASSUME NEW i \in 1 .. (Len(s) + 1)
        PROVE  \/ i = Len(s) + 1 /\ Append(s, p)[i] = p
               \/ i \in 1 .. Len(s) /\ Append(s, p)[i] = s[i]
    OBVIOUS
  <1>3. QED
    BY <1>1, <1>2
-----------------------------------------------------------------------------
\* Nothing has been read and nothing asked for.
LEMMA SeekTypesInit == Init => SeekTypes
  <1> SUFFICES ASSUME Init
               PROVE  SeekTypes
    OBVIOUS
  <1>1. MaxSeeks \in Nat
    BY SeekPathAssumption
  <1>2. picture \in Item /\ packets \in Seq(Item) /\ frames \in Seq(Item)
    BY DEF Init, Item
  <1>3. /\ landed \in [1 .. (MaxSeeks + 1) -> Nat] /\ promised \in [1 .. (MaxSeeks + 1) -> Nat]
    BY DEF Init
  <1>4. QED
    BY <1>1, <1>2, <1>3 DEF Init, SeekTypes, Pending, None

\* A request adds one flush, and each flush one serial.
LEMMA SeekTypesStep == SeekTypes /\ [Next]_vars => SeekTypes'
  <1> SUFFICES ASSUME SeekTypes, [Next]_vars
               PROVE  SeekTypes'
    OBVIOUS
  <1>0. MaxSeeks \in Nat /\ Targets \subseteq Int
    BY SeekPathAssumption
  <1> USE DEF SeekTypes, None
  <1>1. ASSUME NEW t \in Targets, seek(t)
        PROVE  SeekTypes'
    <2>1. t \in Int
      BY <1>0
    <2>2. promised' \in [1 .. (MaxSeeks + 1) -> Nat]
      <3>1. promised' = promised \/ promised' = [promised EXCEPT ![serial] = 0]
        BY <1>1 DEF seek
      <3>2. [promised EXCEPT ![serial] = 0] \in [1 .. (MaxSeeks + 1) -> Nat]
        BY Zenon
      <3>3. QED
        BY <3>1, <3>2
    <2>3. /\ seeks' \in 0 .. MaxSeeks /\ seeks' = seeks + 1
          /\ request' \in Int /\ request' >= -1 /\ ctarget' \in Int
      BY <1>0, <1>1, <2>1, SMTT(60) DEF seek
    <2>4. serial' + Pending' <= seeks' + 1
      BY <1>0, <1>1, <2>3, SMTT(60) DEF seek, Pending
    <2>5. QED
      BY <1>1, <2>2, <2>3, <2>4 DEF seek, decoder
  <1>2. CASE ClearFrames \/ SetSeeking \/ SeekEvent
    <2>1. frames' = <<>> \/ frames' = frames
      BY <1>2 DEF ClearFrames, SetSeeking, SeekEvent
    <2>2. frames' \in Seq(Item)
      <3>1. <<>> \in Seq(Item) /\ frames \in Seq(Item)
        OBVIOUS
      <3>2. QED
        BY <2>1, <3>1, Zenon
    <2>3. UNCHANGED <<request, dpc, ctarget, seeks, loaded, readPos, serial, landed, promised,
                      packets, seekPos, vserial, picture>>
      BY <1>2 DEF ClearFrames, SetSeeking, SeekEvent, demuxer, decoder
    <2>4. QED
      BY <2>2, <2>3 DEF Pending
  <1>3. CASE SetSeekPos
    BY <1>3 DEF SetSeekPos, demuxer, decoder, Pending
  <1>4. CASE ReadPacket
    <2>1. [pos |-> readPos, serial |-> serial] \in Item
      BY <1>0 DEF Item
    <2>2. packets' \in Seq(Item)
      BY <1>4, <2>1, AppendElements DEF ReadPacket
    <2>3. Pending' = Pending /\ readPos' \in Nat
      BY <1>4 DEF ReadPacket, Pending
    <2>4. QED
      BY <1>4, <2>2, <2>3 DEF ReadPacket, controller, decoder
  <1>5. CASE LoadRequest \/ ClearRequest
    <2>1. Pending' <= Pending /\ Pending' \in Int /\ Pending \in Int
      BY <1>5 DEF LoadRequest, ClearRequest, Pending
    <2>2. serial' + Pending' <= seeks' + 1
      BY <1>0, <1>5, <2>1, SMTT(60) DEF LoadRequest, ClearRequest, controller
    <2>3. request' \in Int /\ request' >= -1 /\ loaded' \in Nat /\ dpc' \in {"clear", "seek"}
      BY <1>5 DEF LoadRequest, ClearRequest
    <2>4. QED
      BY <1>5, <2>2, <2>3, Zenon DEF LoadRequest, ClearRequest, controller, decoder
  <1>6. CASE SeekAndFlush
    <2>1. readPos' \in Nat /\ loaded \in Nat
      BY <1>6, LandingIsNat, SMTT(60) DEF SeekAndFlush
    <2>2. Pending' = Pending - 1 /\ Pending \in 1 .. 2 /\ serial' = serial + 1 /\ seeks' = seeks
      BY <1>6 DEF SeekAndFlush, Pending, controller
    <2>3. serial' \in 1 .. (MaxSeeks + 1) /\ serial' + Pending' <= seeks' + 1
      BY <1>0, <2>2
    <2>4. /\ landed' \in [1 .. (MaxSeeks + 1) -> Nat] /\ promised' \in [1 .. (MaxSeeks + 1) -> Nat]
      BY <1>6, <2>1, <2>2, <2>3, SMTT(60) DEF SeekAndFlush
    <2>5. packets' \in Seq(Item) /\ readPos' \in Nat /\ vserial' \in 1 .. serial'
      BY <1>0, <1>6, <2>1, <2>2 DEF SeekAndFlush, decoder
    <2>6. QED
      BY <1>6, <2>3, <2>4, <2>5 DEF SeekAndFlush, controller, decoder
  <1>7. CASE SeekFailure
    <2>1. Pending' = Pending - 1 /\ Pending \in 1 .. 2
      BY <1>7 DEF SeekFailure, Pending
    <2>2. serial' + Pending' <= seeks' + 1
      BY <1>0, <1>7, <2>1, SMTT(60) DEF SeekFailure, controller
    <2>3. QED
      BY <1>7, <2>2 DEF SeekFailure, controller, decoder
  <1>8. CASE CheckSerial \/ EndSeeking \/ TestSeeking \/ TestPos \/ ClearPos
    <2>1. vserial' \in 1 .. serial' /\ seekPos' \in Int
      <3>1. CASE CheckSerial
        BY <1>0, <3>1, SMTT(60) DEF CheckSerial, demuxer
      <3>2. CASE EndSeeking \/ TestSeeking \/ TestPos \/ ClearPos
        BY <3>2, SMTT(60) DEF EndSeeking, TestSeeking, TestPos, ClearPos, demuxer
      <3>3. QED
        BY <1>8, <3>1, <3>2
    <2>2. QED
      BY <1>8, <2>1, ZenonT(60) DEF CheckSerial, EndSeeking, TestSeeking, TestPos, ClearPos, demuxer, controller,
         Pending
  <1>9. CASE PopPacket
    <2>1. CASE packets = <<>>
      BY <1>9, <2>1 DEF PopPacket, demuxer, controller, Pending
    <2>2. CASE packets # <<>>
      <3>1. packets' \in Seq(Item) /\ Head(packets) \in Item
        BY <1>9, <2>2, TailElements, Zenon DEF PopPacket
      <3>2. picture' \in Item
        <4>1. Head(packets).pos \in Nat /\ vserial \in Nat
          BY <1>0, <3>1, SMTT(60) DEF Item
        <4>2. QED
          BY <1>9, <2>2, <4>1, SMTT(60) DEF PopPacket, Item
      <3>3. QED
        BY <1>9, <3>1, <3>2 DEF PopPacket, demuxer, controller, Pending
    <2>3. QED
      BY <2>1, <2>2, Zenon
  <1>10. CASE WriteFrame
    <2>1. frames' \in Seq(Item)
      BY <1>10, AppendElements DEF WriteFrame
    <2>2. QED
      BY <1>10, <2>1 DEF WriteFrame, demuxer, controller, Pending
  <1>11. CASE PopFrame
    <2>1. frames' \in Seq(Item)
      BY <1>11, TailElements DEF PopFrame
    <2>2. QED
      BY <1>11, <2>1 DEF PopFrame, demuxer, controller, decoder, Pending
  <1>12. CASE UNCHANGED vars
    BY <1>12 DEF vars, Pending
  <1>13. QED
    BY <1>1, <1>2, <1>3, <1>4, <1>5, <1>6, <1>7, <1>8, <1>9, <1>10, <1>11, <1>12, Zenon
    DEF Next, SeekStep, DemuxStep, DecodeStep
-----------------------------------------------------------------------------
\* The file order from the input to the frame queue.
Ordered == PacketsInOrder /\ PictureInOrder /\ FramesInOrder

\* The queues are empty.
LEMMA OrderedInit == Init => Ordered
  BY SeekPathAssumption DEF Init, Ordered, PacketsInOrder, PictureInOrder, FramesInOrder, Pictured

\* What the parts of Ordered look at, apart from the step of the decode loop.
streams == <<readPos, packets, serial, vserial, picture, frames, landed>>

\* A flush leaves no packet of the serials before it, and a seek lands on a place
\* of its own serial; otherwise elements move from one stage to the next.
LEMMA OrderedStep == SeekTypes /\ Ordered /\ [Next]_vars => Ordered'
  <1> SUFFICES ASSUME SeekTypes, Ordered, [Next]_vars
               PROVE  Ordered'
    OBVIOUS
  <1>0. /\ MaxSeeks \in Nat /\ readPos \in Nat /\ serial \in Nat /\ vserial \in Nat
        /\ vserial <= serial /\ serial \in 1 .. (MaxSeeks + 1) /\ vserial \in 1 .. (MaxSeeks + 1)
        /\ picture \in Item /\ packets \in Seq(Item) /\ frames \in Seq(Item)
        /\ landed \in [1 .. (MaxSeeks + 1) -> Nat]
        /\ Len(packets) \in Nat /\ Len(frames) \in Nat
    BY SeekPathAssumption DEF SeekTypes
  <1>01. /\ picture.pos \in Nat /\ picture.serial \in Nat
         /\ \A i \in 1 .. Len(packets) : packets[i].pos \in Nat /\ packets[i].serial \in Nat
         /\ \A i \in 1 .. Len(frames) : frames[i].pos \in Nat /\ frames[i].serial \in Nat
    <2>1. /\ \A i \in 1 .. Len(packets) : packets[i] \in Item
          /\ \A i \in 1 .. Len(frames) : frames[i] \in Item
      BY <1>0
    <2>2. QED
      BY <1>0, <2>1, Zenon DEF Item
  <1>1. ASSUME UNCHANGED streams, Pictured' => Pictured
        PROVE  Ordered'
    BY <1>1 DEF streams, Ordered, PacketsInOrder, PictureInOrder, FramesInOrder, Precedes
  <1>2. CASE (\E t \in Targets : seek(t)) \/ SetSeeking \/ SetSeekPos \/ SeekEvent \/ LoadRequest
            \/ ClearRequest \/ SeekFailure
    <2>1. UNCHANGED streams /\ vpc' = vpc
      BY <1>2 DEF seek, SetSeeking, SetSeekPos, SeekEvent, LoadRequest, ClearRequest, SeekFailure,
         demuxer, decoder, streams
    <2>2. QED
      BY <1>1, <2>1, SMTT(60) DEF Pictured
  <1>3. CASE EndSeeking \/ TestSeeking \/ TestPos \/ ClearPos \/ UNCHANGED vars
    <2>1. UNCHANGED streams /\ (Pictured' => Pictured)
      BY <1>3 DEF EndSeeking, TestSeeking, TestPos, ClearPos, demuxer, streams, Pictured, vars
    <2>2. QED
      BY <1>1, <2>1, SMTT(60)
  <1>4. CASE ClearFrames
    <2>1. UNCHANGED <<readPos, packets, serial, vserial, picture, landed, vpc>> /\ frames' = <<>>
      BY <1>4 DEF ClearFrames, demuxer, decoder
    <2>2. PacketsInOrder' /\ PictureInOrder'
      BY <2>1 DEF Ordered, PacketsInOrder, PictureInOrder, Pictured
    <2>3. FramesInOrder'
      BY <2>1 DEF FramesInOrder
    <2>4. QED
      BY <2>2, <2>3 DEF Ordered
  <1>5. CASE ReadPacket
    <2> DEFINE p == [pos |-> readPos, serial |-> serial]
    <2>1. /\ packets' = Append(packets, p) /\ readPos' = readPos + 1
          /\ UNCHANGED <<serial, vserial, picture, frames, landed, vpc>>
      BY <1>5 DEF ReadPacket, decoder
    <2>2. p \in Item /\ p.pos = readPos /\ p.serial = serial
      BY <1>0 DEF Item
    <2> HIDE DEF p
    <2>3. /\ Len(packets') = Len(packets) + 1
          /\ \A i \in 1 .. Len(packets') :
               \/ i = Len(packets) + 1 /\ packets'[i] = p
               \/ i \in 1 .. Len(packets) /\ packets'[i] = packets[i]
      BY <1>0, <2>1, <2>2, AppendElements, SMTT(60)
    <2>4. PacketsInOrder'
      <3>1. landed'[serial'] <= readPos'
        BY <1>0, <2>1, SMTT(60) DEF Ordered, PacketsInOrder
      <3>2. ASSUME NEW i \in 1 .. Len(packets')
            PROVE  /\ packets'[i].serial = serial'
                   /\ landed'[serial'] <= packets'[i].pos /\ packets'[i].pos < readPos'
        BY <1>0, <1>01, <2>1, <2>2, <2>3, SMTT(60) DEF Ordered, PacketsInOrder
      <3>3. ASSUME NEW i \in 1 .. Len(packets'), NEW j \in 1 .. Len(packets'), i < j
            PROVE  packets'[i].pos < packets'[j].pos
        <4>1. i \in 1 .. Len(packets) /\ packets'[i] = packets[i]
          BY <1>0, <2>3, <3>3
        <4>2. QED
          BY <1>0, <2>2, <2>3, <3>3, <4>1, ZenonT(60) DEF Ordered, PacketsInOrder
      <3>4. QED
        BY <3>1, <3>2, <3>3 DEF PacketsInOrder
    <2>5. PictureInOrder'
      <3>1. SUFFICES ASSUME Pictured
                     PROVE  /\ picture.serial = vserial /\ landed[vserial] <= picture.pos
                            /\ vserial = serial =>
                                 /\ picture.pos < readPos + 1
                                 /\ \A i \in 1 .. Len(packets') : picture.pos < packets'[i].pos
        BY <2>1 DEF PictureInOrder, Pictured
      <3>2. /\ picture.serial = vserial /\ landed[vserial] <= picture.pos
            /\ vserial = serial => picture.pos < readPos
        BY <3>1 DEF Ordered, PictureInOrder
      <3>3. ASSUME vserial = serial, NEW i \in 1 .. Len(packets')
            PROVE  picture.pos < packets'[i].pos
        <4>1. CASE packets'[i] = p
          BY <2>2, <3>2, <3>3, <4>1
        <4>2. CASE i \in 1 .. Len(packets) /\ packets'[i] = packets[i]
          BY <3>1, <3>3, <4>2, SMTT(60) DEF Ordered, PictureInOrder
        <4>3. QED
          BY <2>3, <4>1, <4>2
      <3>4. QED
        BY <1>0, <1>01, <3>2, <3>3
    <2>6. ASSUME NEW i \in 1 .. Len(frames)
          PROVE  Precedes(frames[i])'
      <3>1. Precedes(frames[i])
        BY DEF Ordered, FramesInOrder
      <3>2. ASSUME frames[i].serial = serial, NEW j \in 1 .. Len(packets')
            PROVE  frames[i].pos < packets'[j].pos
        <4>1. CASE packets'[j] = p
          BY <2>2, <3>1, <3>2, <4>1 DEF Precedes
        <4>2. CASE j \in 1 .. Len(packets) /\ packets'[j] = packets[j]
          BY <3>1, <3>2, <4>2, SMTT(60) DEF Precedes
        <4>3. QED
          BY <2>3, <4>1, <4>2
      <3>3. frames[i].serial = serial => frames[i].pos < readPos'
        BY <1>0, <1>01, <2>1, <3>1, SMTT(60) DEF Precedes
      <3>4. QED
        BY <2>1, <3>1, <3>2, <3>3 DEF Precedes, Pictured
    <2>7. FramesInOrder'
      BY <2>1, <2>6 DEF Ordered, FramesInOrder
    <2>8. QED
      BY <2>4, <2>5, <2>7 DEF Ordered
  <1>6. CASE SeekAndFlush
    <2>1. loaded \in Nat /\ readPos' \in Nat
      BY <1>6, LandingIsNat, SMTT(60) DEF SeekAndFlush, SeekTypes
    <2>2. /\ packets' = <<>> /\ serial' = serial + 1 
          /\ landed' = [landed EXCEPT ![serial + 1] = readPos']
          /\ UNCHANGED <<vserial, picture, frames, vpc>>
      BY <1>6 DEF SeekAndFlush, decoder
    <2>3. serial' \in 1 .. (MaxSeeks + 1)
      BY <1>0, <1>6, SeekTypesStep, SMTT(60) DEF SeekTypes
    <2>4. /\ landed'[serial'] = readPos'
          /\ \A s \in 1 .. serial : landed'[s] = landed[s]
      BY <1>0, <2>2, <2>3
    <2>5. PacketsInOrder'
      BY <2>1, <2>2, <2>4 DEF PacketsInOrder
    <2>6. PictureInOrder'
      BY <1>0, <2>2, <2>4 DEF Ordered, PictureInOrder, Pictured
    <2>7. ASSUME NEW i \in 1 .. Len(frames)
          PROVE  Precedes(frames[i])'
      <3>1. Precedes(frames[i])
        BY DEF Ordered, FramesInOrder
      <3>2. frames[i].serial \in 1 .. serial /\ frames[i].serial # serial'
        BY <1>0, <2>2, <3>1, SMTT(60) DEF Precedes
      <3>3. QED
        BY <2>2, <2>4, <3>1, <3>2 DEF Precedes, Pictured
    <2>8. FramesInOrder'
      BY <2>2, <2>7 DEF Ordered, FramesInOrder
    <2>9. QED
      BY <2>5, <2>6, <2>8 DEF Ordered
  <1>7. ASSUME UNCHANGED <<readPos, packets, serial, frames, landed>>, ~Pictured',
               vserial' = vserial \/ vserial' = serial
        PROVE  Ordered'
    <2>1. PacketsInOrder' /\ PictureInOrder'
      BY <1>7, SMTT(60) DEF Ordered, PacketsInOrder, PictureInOrder
    <2>2. ASSUME NEW i \in 1 .. Len(frames)
          PROVE  Precedes(frames[i])'
      <3>1. Precedes(frames[i])
        BY DEF Ordered, FramesInOrder
      <3>2. frames[i].serial \in 1 .. vserial'
        BY <1>0, <1>7, <3>1, SMTT(60) DEF Precedes
      <3>3. QED
        BY <1>7, <3>1, <3>2, SMTT(60) DEF Precedes
    <2>3. FramesInOrder'
      BY <1>7, <2>2 DEF Ordered, FramesInOrder
    <2>4. QED
      BY <2>1, <2>3 DEF Ordered
  <1>8. CASE CheckSerial
    BY <1>7, <1>8 DEF CheckSerial, demuxer, Pictured
  <1>9. CASE PopPacket
    <2>1. CASE packets = <<>>
      BY <1>7, <1>9, <2>1 DEF PopPacket, demuxer, Pictured
    <2>2. CASE packets # <<>>
      <3> DEFINE p == packets[1]
      <3>1. /\ packets' = Tail(packets) /\ UNCHANGED <<readPos, serial, vserial, frames, landed>>
            /\ \/ vpc' = "loop"
               \/ /\ p.serial = vserial /\ vpc' = "testSeeking"
                  /\ picture' = [pos |-> p.pos, serial |-> vserial]
        BY <1>0, <1>9, <2>2, TailElements, SMTT(60) DEF PopPacket, demuxer
      <3>2. /\ Len(packets') = Len(packets) - 1 /\ 1 \in 1 .. Len(packets)
            /\ \A i \in 1 .. Len(packets') : packets'[i] = packets[i + 1] /\ i + 1 \in 1 .. Len(packets)
        BY <1>0, <2>2, <3>1, TailElements
      <3>3. p.serial = serial /\ p.pos \in Nat /\ landed[serial] <= p.pos /\ p.pos < readPos
        BY <1>01, <3>2 DEF Ordered, PacketsInOrder
      <3>4. \A i \in 1 .. Len(packets') : p.pos < packets'[i].pos
        <4> TAKE i \in 1 .. Len(packets')
        <4>1. 1 < i + 1 /\ i + 1 \in 1 .. Len(packets) /\ packets'[i] = packets[i + 1]
          BY <3>2, SMTT(60)
        <4>2. QED
          BY <3>2, <4>1 DEF Ordered, PacketsInOrder
      <3>5. PacketsInOrder'
        <4>1. ASSUME NEW i \in 1 .. Len(packets'), NEW j \in 1 .. Len(packets'), i < j
              PROVE  packets'[i].pos < packets'[j].pos
          <5>1. i + 1 < j + 1
            BY <4>1
          <5>2. QED
            BY <3>2, <5>1, SMTT(60) DEF Ordered, PacketsInOrder
        <4>2. ASSUME NEW i \in 1 .. Len(packets')
              PROVE  /\ packets'[i].serial = serial
                     /\ landed[serial] <= packets'[i].pos /\ packets'[i].pos < readPos
          BY <3>2, SMTT(60) DEF Ordered, PacketsInOrder
        <4>3. landed[serial] <= readPos
          BY DEF Ordered, PacketsInOrder
        <4>4. QED
          BY <3>1, <4>1, <4>2, <4>3, SMTT(60) DEF PacketsInOrder
      <3>6. PictureInOrder'
        BY <3>1, <3>3, <3>4 DEF PictureInOrder, Pictured
      <3>7. ASSUME NEW i \in 1 .. Len(frames)
            PROVE  Precedes(frames[i])'
        <4>1. Precedes(frames[i])
          BY DEF Ordered, FramesInOrder
        <4>2. \A j \in 1 .. Len(packets') : frames[i].serial = serial => frames[i].pos < packets'[j].pos
          BY <3>2, <4>1, ZenonT(60) DEF Precedes
        <4>3. Pictured' /\ frames[i].serial = vserial => frames[i].pos < picture'.pos
          BY <3>1, <3>2, <3>3, <4>1 DEF Precedes, Pictured
        <4>4. QED
          BY <3>1, <4>1, <4>2, <4>3 DEF Precedes
      <3>8. FramesInOrder'
        BY <3>1, <3>7 DEF Ordered, FramesInOrder
      <3>9. QED
        BY <3>5, <3>6, <3>8 DEF Ordered
    <2>3. QED
      BY <2>1, <2>2
  <1>10. CASE WriteFrame
    <2>1. /\ frames' = Append(frames, picture) /\ vpc' = "loop" /\ Pictured
          /\ UNCHANGED <<readPos, packets, serial, vserial, picture, landed>>
      BY <1>10 DEF WriteFrame, demuxer, Pictured
    <2>2. /\ Len(frames') = Len(frames) + 1
          /\ \A i \in 1 .. Len(frames') :
               \/ i = Len(frames) + 1 /\ frames'[i] = picture
               \/ i \in 1 .. Len(frames) /\ frames'[i] = frames[i]
      BY <1>0, <2>1, AppendElements
    <2>3. PacketsInOrder' /\ PictureInOrder'
      BY <2>1 DEF Ordered, PacketsInOrder, PictureInOrder, Pictured
    <2>4. picture.serial = vserial /\ Precedes(picture)'
      BY <1>0, <2>1, SMTT(60) DEF Ordered, PictureInOrder, Precedes, Pictured
    <2>5. ASSUME NEW f, f.pos \in Nat, f.serial \in Nat, Precedes(f)
          PROVE  Before(f, picture)
      BY <1>0, <1>01, <2>1, <2>4, <2>5, SMTT(60) DEF Precedes, Before
    <2>6. \A i \in 1 .. Len(frames) :
            frames[i].pos \in Nat /\ frames[i].serial \in Nat /\ Precedes(frames[i])
      BY <1>01 DEF Ordered, FramesInOrder
    <2>7. ASSUME NEW i \in 1 .. Len(frames')
          PROVE  Precedes(frames[i])'
      <3>1. CASE frames'[i] = picture
        BY <2>1, <2>4, <3>1, SMTT(60) DEF Precedes
      <3>2. CASE i \in 1 .. Len(frames) /\ frames'[i] = frames[i]
        <4> DEFINE f == frames[i]
        <4>1. f.pos \in Nat /\ f.serial \in Nat /\ Precedes(f) /\ frames'[i] = f
          BY <2>6, <3>2, SMTT(60)
        <4>2. QED
          BY <2>1, <4>1 DEF Precedes, Pictured
      <3>3. QED
        BY <2>2, <3>1, <3>2, SMTT(60)
    <2>8. ASSUME NEW i \in 1 .. Len(frames'), NEW j \in 1 .. Len(frames'), i < j
          PROVE  Before(frames'[i], frames'[j])
      <3>1. i \in 1 .. Len(frames) /\ frames'[i] = frames[i]
        BY <1>0, <2>2, <2>8
      <3>2. CASE frames'[j] = picture
        BY <2>5, <2>6, <3>1, <3>2
      <3>3. CASE j \in 1 .. Len(frames) /\ frames'[j] = frames[j]
        BY <2>8, <3>1, <3>3 DEF Ordered, FramesInOrder
      <3>4. QED
        BY <2>2, <3>2, <3>3
    <2>9. FramesInOrder'
      BY <2>7, <2>8 DEF FramesInOrder, Before
    <2>10. QED
      BY <2>3, <2>9 DEF Ordered
  <1>11. CASE PopFrame
    <2>1. /\ frames' = Tail(frames) /\ frames # <<>>
          /\ UNCHANGED <<readPos, packets, serial, vserial, picture, landed, vpc>>
      BY <1>11 DEF PopFrame, demuxer, decoder
    <2>2. /\ Len(frames') = Len(frames) - 1
          /\ \A i \in 1 .. Len(frames') : frames'[i] = frames[i + 1] /\ i + 1 \in 1 .. Len(frames)
      BY <1>0, <2>1, TailElements, SMTT(60)
    <2>3. PacketsInOrder' /\ PictureInOrder'
      BY <2>1 DEF Ordered, PacketsInOrder, PictureInOrder, Pictured
    <2>4. FramesInOrder'
      <3>1. ASSUME NEW i \in 1 .. Len(frames')
            PROVE  Precedes(frames[i])'
        BY <2>1, <2>2, SMTT(60) DEF Ordered, FramesInOrder, Precedes, Pictured
      <3>2. ASSUME NEW i \in 1 .. Len(frames'), NEW j \in 1 .. Len(frames'), i < j
            PROVE  Before(frames'[i], frames'[j])
        BY <1>0, <2>2, <3>2, SMTT(60) DEF Ordered, FramesInOrder
      <3>3. QED
        BY <3>1, <3>2, SMTT(60) DEF FramesInOrder
    <2>5. QED
      BY <2>3, <2>4 DEF Ordered
  <1>12. QED
    BY <1>2, <1>3, <1>4, <1>5, <1>6, <1>8, <1>9, <1>10, <1>11
    DEF Next, SeekStep, DemuxStep, DecodeStep
-----------------------------------------------------------------------------
\* The promise of a seek, before and after its frames arrive.
PromiseInv == Kept /\ Left /\ Targeted

\* No seek has made a promise.
LEMMA PromiseInit == Init => PromiseInv
  BY SeekPathAssumption DEF Init, PromiseInv, Kept, Left, Targeted

\* A flush that finds the filter ready makes the promise; the loop turns the filter
\* off only with a picture of that serial that has passed the target; a later
\* seek takes the promise back before the controller touches the filter.
LEMMA PromiseStep == SeekTypes /\ Ordered /\ PromiseInv /\ [Next]_vars => PromiseInv'
  <1> SUFFICES ASSUME SeekTypes, Ordered, PromiseInv, [Next]_vars
               PROVE  PromiseInv'
    OBVIOUS
  <1>0. /\ MaxSeeks \in Nat /\ readPos \in Nat /\ serial \in Nat /\ vserial \in Nat
        /\ vserial <= serial /\ serial \in 1 .. (MaxSeeks + 1) /\ vserial \in 1 .. (MaxSeeks + 1)
        /\ picture \in Item /\ packets \in Seq(Item) /\ frames \in Seq(Item)
        /\ promised \in [1 .. (MaxSeeks + 1) -> Nat] /\ seekPos \in Int
        /\ Len(packets) \in Nat /\ Len(frames) \in Nat
    BY SeekPathAssumption, SMTT(60) DEF SeekTypes
  <1>01. /\ picture.pos \in Nat /\ promised[serial] \in Nat /\ promised[vserial] \in Nat
         /\ \A i \in 1 .. Len(packets) : packets[i].pos \in Nat
         /\ \A i \in 1 .. Len(frames) :
              frames[i].pos \in Nat /\ frames[i].serial \in 1 .. serial
    <2>1. /\ \A i \in 1 .. Len(packets) : packets[i] \in Item
          /\ \A i \in 1 .. Len(frames) : frames[i] \in Item /\ Precedes(frames[i])
      BY <1>0, SMTT(60) DEF Ordered, FramesInOrder
    <2>2. picture.pos \in Nat /\ promised[serial] \in Nat /\ promised[vserial] \in Nat
      BY <1>0 DEF Item
    <2>3. \A i \in 1 .. Len(frames) : frames[i].serial \in 1 .. serial
      BY <1>0, <2>1, SMTT(60) DEF Precedes
    <2>4. QED
      BY <2>1, <2>2, <2>3 DEF Item
  <1>1. ASSUME UNCHANGED <<serial, promised, frames>>, Kept', Left'
        PROVE  PromiseInv'
    BY <1>1 DEF PromiseInv, Targeted
  <1>2. ASSUME NEW t \in Targets, seek(t)
        PROVE  PromiseInv'
    <2>1. UNCHANGED <<dpc, loaded, readPos, packets, serial, vserial, vpc, picture, seeking, seekPos,
                      frames>>
      BY <1>2 DEF seek, decoder
    <2>2. CASE t < 0
      <3>1. UNCHANGED <<request, promised>> /\ cpc' = "event"
        BY <1>2, <2>2, SMTT(60) DEF seek
      <3>2. Kept' /\ Left'
        BY <2>1, <3>1 DEF PromiseInv, Kept, Left, Armed, Passed, Pictured
      <3>3. QED
        BY <1>1, <2>1, <3>1, <3>2
    <2>3. CASE ~(t < 0)
      <3>1. promised' = [promised EXCEPT ![serial] = 0]
        BY <1>2, <2>3 DEF seek
      <3>2. /\ promised'[serial] = 0
            /\ \A s \in 1 .. serial : promised[s] \in Nat /\ promised'[s] \in {promised[s], 0}
        BY <1>0, <3>1
      <3>3. Kept'
        BY <2>1, <3>2 DEF Kept
      <3>4. Left'
        <4> SUFFICES ASSUME NEW s \in 1 .. (serial - 1), promised'[s] > 0, vserial = s
                     PROVE  ~Pictured
          BY <2>1 DEF Left, Pictured
        <4>1. promised[s] > 0
          BY <1>0, <3>2, SMTT(60)
        <4>2. QED
          BY <4>1 DEF PromiseInv, Left
      <3>5. Targeted'
        <4> SUFFICES ASSUME NEW i \in 1 .. Len(frames)
                     PROVE  promised'[frames[i].serial] <= frames[i].pos
          BY <2>1 DEF Targeted
        <4>1. promised[frames[i].serial] <= frames[i].pos
          BY DEF PromiseInv, Targeted
        <4>2. QED
          BY <1>01, <3>2, <4>1, SMTT(60)
      <3>6. QED
        BY <3>3, <3>4, <3>5 DEF PromiseInv
    <2>4. QED
      BY <2>2, <2>3
  <1>3. CASE ClearFrames \/ SetSeeking \/ SetSeekPos
    <2>1. /\ UNCHANGED <<serial, vserial, vpc, promised>> /\ promised[serial] = 0
          /\ frames' = frames \/ frames' = <<>>
      <3>1. cpc \notin {"event", "idle"}
        BY <1>3 DEF ClearFrames, SetSeeking, SetSeekPos
      <3>2. ~(promised[serial] > 0)
        BY <3>1, Zenon DEF PromiseInv, Kept
      <3>3. promised[serial] = 0
        BY <1>01, <3>2
      <3>4. /\ UNCHANGED <<serial, vserial, vpc, promised>>
            /\ frames' = frames \/ frames' = <<>>
        BY <1>3 DEF ClearFrames, SetSeeking, SetSeekPos, demuxer, decoder
      <3>5. QED
        BY <3>3, <3>4
    <2>2. Kept' /\ Left'
      BY <2>1 DEF PromiseInv, Kept, Left, Pictured
    <2>3. Targeted'
      BY <2>1 DEF PromiseInv, Targeted
    <2>4. QED
      BY <2>2, <2>3 DEF PromiseInv
  <1>4. CASE SeekEvent \/ LoadRequest \/ ClearRequest \/ SeekFailure \/ UNCHANGED vars
    <2>1. /\ UNCHANGED <<readPos, packets, serial, vserial, vpc, picture, seeking, seekPos, frames,
                         promised>>
          /\ cpc' \in {cpc, "idle"}
          /\ request' # None \/ dpc' # "read" => request # None \/ dpc # "read"
      BY <1>4, SMTT(60) DEF SeekEvent, LoadRequest, ClearRequest, SeekFailure, demuxer, decoder, controller, vars
    <2>2. Kept' /\ Left'
      BY <2>1 DEF PromiseInv, Kept, Left, Armed, Passed, Pictured
    <2>3. QED
      BY <1>1, <2>1, <2>2, SMTT(60)
  <1>5. CASE ReadPacket
    <2> DEFINE p == [pos |-> readPos, serial |-> serial]
    <2>1. /\ packets' = Append(packets, p) /\ readPos' = readPos + 1
          /\ request = None /\ dpc = "read"
          /\ UNCHANGED <<cpc, request, dpc, serial, vserial, vpc, picture, seeking, seekPos, frames,
                         promised>>
      BY <1>5 DEF ReadPacket, controller, decoder
    <2>2. p \in Item /\ p.pos = readPos
      BY <1>0, SMTT(60) DEF Item
    <2> HIDE DEF p
    <2>3. /\ Len(packets') = Len(packets) + 1
          /\ \A i \in 1 .. Len(packets') :
               \/ i = Len(packets) + 1 /\ packets'[i] = p
               \/ i \in 1 .. Len(packets) /\ packets'[i] = packets[i]
      BY <1>0, <2>1, <2>2, AppendElements, SMTT(60)
    <2>4. ASSUME Passed(promised[serial])
          PROVE  Passed(promised[serial])'
      BY <1>0, <1>01, <2>1, <2>2, <2>3, <2>4, SMTT(60) DEF Passed, Pictured
    <2>5. Kept' /\ Left'
      BY <2>1, <2>4 DEF PromiseInv, Kept, Left, Armed, Pictured
    <2>6. QED
      BY <1>1, <2>1, <2>5, SMTT(60)
  <1>6. CASE SeekAndFlush
    <2>1. loaded \in Nat
      BY <1>6 DEF SeekAndFlush, SeekTypes
    <2>2. /\ packets' = <<>> /\ serial' = serial + 1 /\ dpc = "seek" /\ dpc' = "read"
          /\ promised' = [promised EXCEPT ![serial + 1] = IF FilterReady THEN loaded ELSE 0]
          /\ UNCHANGED <<cpc, vserial, vpc, picture, seeking, seekPos, frames>>
      BY <1>6, SMTT(60) DEF SeekAndFlush, controller, decoder
    <2>3. serial' \in 1 .. (MaxSeeks + 1)
      BY <1>0, <1>6, SeekTypesStep, SMTT(60) DEF SeekTypes
    <2>4. /\ promised'[serial'] = IF FilterReady THEN loaded ELSE 0
          /\ \A s \in 1 .. serial : promised'[s] = promised[s]
      BY <1>0, <2>2, <2>3
    <2>5. Kept'
      <3>1. CASE ~FilterReady
        BY <2>4, <3>1 DEF Kept
      <3>2. CASE FilterReady
        <4>1. /\ cpc' \in {"event", "idle"} /\ seeking' /\ seekPos' = promised'[serial']
              /\ vpc' \notin {"testPos", "clearPos"}
          BY <2>2, <2>4, <3>2 DEF FilterReady
        <4>2. vserial' < serial'
          BY <1>0, <2>2, SMTT(60)
        <4>3. QED
          BY <1>0, <2>2, <4>1, <4>2 DEF Kept
      <3>3. QED
        BY <3>1, <3>2
    <2>6. Left'
      <3>1. ASSUME NEW s \in 1 .. serial, promised[s] > 0, vserial = s
            PROVE  ~Pictured
        <4>1. CASE s = serial
          BY <2>2, <3>1, <4>1 DEF PromiseInv, Kept
        <4>2. CASE s # serial
          BY <1>0, <3>1, <4>2 DEF PromiseInv, Left
        <4>3. QED
          BY <4>1, <4>2
      <3>2. 1 .. (serial' - 1) = 1 .. serial
        BY <1>0, <2>2
      <3>3. QED
        BY <2>2, <2>4, <3>1, <3>2, Zenon DEF Left, Pictured
    <2>7. Targeted'
      BY <1>01, <2>2, <2>4, SMTT(60) DEF PromiseInv, Targeted
    <2>8. QED
      BY <2>5, <2>6, <2>7 DEF PromiseInv
  <1>7. CASE CheckSerial
    <2>1. /\ UNCHANGED <<cpc, request, dpc, readPos, packets, serial, picture, seeking, seekPos, frames,
                         promised>>
          /\ vserial' = serial /\ vpc' \in {"endSeeking", "pop"}
      BY <1>7 DEF CheckSerial, controller, demuxer
    <2>2. Left'
      BY <2>1, SMTT(60) DEF Left, Pictured
    <2>3. Kept'
      <3>1. ASSUME promised[serial] > 0
            PROVE  Armed(promised[serial])' \/ Passed(promised[serial])'
        <4>1. CASE vserial < serial
          BY <2>1, <3>1, <4>1, SMTT(60) DEF PromiseInv, Kept, Armed
        <4>2. CASE vserial = serial
          BY <2>1, <3>1, <4>2 DEF PromiseInv, Kept, Armed, Passed, Pictured
        <4>3. QED
          BY <1>0, <4>1, <4>2, SMTT(60)
      <3>2. QED
        BY <1>0, <2>1, <3>1, SMTT(60) DEF PromiseInv, Kept, Pictured
    <2>4. QED
      BY <1>1, <2>1, <2>2, <2>3
  <1>8. CASE EndSeeking
    <2>1. /\ UNCHANGED <<cpc, request, dpc, readPos, packets, serial, vserial, picture, seekPos, frames,
                         promised>>
          /\ vpc' = "pop"
      BY <1>8, SMTT(60) DEF EndSeeking, controller, demuxer
    <2>2. Kept' /\ Left'
      BY <2>1 DEF PromiseInv, Kept, Left, Armed, Passed, Pictured
    <2>3. QED
      BY <1>1, <2>1, <2>2
  <1>9. CASE PopPacket
    <2>1. UNCHANGED <<cpc, request, dpc, readPos, serial, vserial, seeking, seekPos, frames, promised>>
      BY <1>9 DEF PopPacket, controller, demuxer
    <2>2. CASE packets = <<>>
      <3>1. UNCHANGED packets /\ vpc' = "loop"
        BY <1>9, <2>2, SMTT(60) DEF PopPacket
      <3>2. Kept' /\ Left'
        BY <2>1, <3>1 DEF PromiseInv, Kept, Left, Armed, Passed, Pictured
      <3>3. QED
        BY <1>1, <2>1, <3>2, SMTT(60)
    <2>3. CASE packets # <<>>
      <3> DEFINE p == packets[1]
      <3>1. /\ packets' = Tail(packets) /\ p.serial = serial
            /\ \/ vpc' = "loop"
               \/ /\ p.serial = vserial /\ vpc' = "testSeeking"
                  /\ picture' = [pos |-> p.pos, serial |-> vserial]
        BY <1>0, <1>9, <2>3, TailElements, SMTT(60) DEF PopPacket, Ordered, PacketsInOrder
      <3>2. /\ 1 \in 1 .. Len(packets)
            /\ \A i \in 1 .. Len(packets') : packets'[i] = packets[i + 1] /\ i + 1 \in 1 .. Len(packets)
        BY <1>0, <2>3, <3>1, TailElements, SMTT(60)
      <3>3. ASSUME Passed(promised[serial])
            PROVE  Passed(promised[serial])'
        BY <2>1, <3>1, <3>2, <3>3, SMTT(60) DEF Passed, Pictured
      <3>4. Left'
        BY <1>0, <2>1, <3>1, SMTT(60) DEF Left, Pictured
      <3>5. Kept'
        <4> SUFFICES ASSUME promised[serial] > 0
                     PROVE  Kept'
          BY <2>1 DEF Kept
        <4>1. /\ cpc \in {"event", "idle"} /\ request = None /\ dpc = "read"
              /\ vserial < serial => seekPos = promised[serial] /\ vpc' = "loop"
          BY <1>0, <2>3, <3>1 DEF PromiseInv, Kept
        <4>2. ASSUME vserial = serial
              PROVE  Armed(promised[serial])' \/ Passed(promised[serial])'
          <5>1. Armed(promised[serial]) \/ Passed(promised[serial])
            BY <4>2 DEF PromiseInv, Kept
          <5>2. vpc' \in {"loop", "testSeeking"}
            BY <3>1
          <5>3. QED
            BY <2>1, <3>3, <5>1, <5>2 DEF Armed
        <4>3. QED
          BY <2>1, <4>1, <4>2 DEF Kept
      <3>6. QED
        BY <1>1, <2>1, <3>4, <3>5, SMTT(60)
    <2>4. QED
      BY <2>2, <2>3, SMTT(60)
  <1>10. CASE TestSeeking \/ TestPos
    <2>1. /\ UNCHANGED <<cpc, request, dpc, readPos, packets, serial, vserial, picture, seeking, seekPos,
                         frames, promised>>
          /\ Pictured
          /\ \/ vpc = "testSeeking" /\ vpc' = IF seeking THEN "loop" ELSE "testPos"
             \/ /\ vpc = "testPos"
                /\ vpc' = IF seekPos <= 0 THEN "write"
                          ELSE IF picture.pos < seekPos THEN "loop" ELSE "clearPos"
      BY <1>10 DEF TestSeeking, TestPos, controller, demuxer, Pictured
    <2>2. Left'
      BY <2>1, SMTT(60) DEF PromiseInv, Left, Pictured
    <2>3. Kept'
      <3>1. ASSUME promised[serial] > 0, vserial = serial
            PROVE  Armed(promised[serial])' \/ Passed(promised[serial])'
        BY <1>0, <1>01, <2>1, <3>1, SMTT(60) DEF PromiseInv, Kept, Armed, Passed
      <3>2. ASSUME promised[serial] > 0, vserial < serial
            PROVE  vpc' = "loop"
        BY <2>1, <3>2 DEF PromiseInv, Kept
      <3>3. QED
        BY <1>0, <2>1, <3>1, <3>2, SMTT(60) DEF PromiseInv, Kept
    <2>4. QED
      BY <1>1, <2>1, <2>2, <2>3, SMTT(60)
  <1>11. CASE ClearPos
    <2>1. /\ UNCHANGED <<cpc, request, dpc, readPos, packets, serial, vserial, picture, seeking,
                         frames, promised>>
          /\ Pictured /\ vpc = "clearPos" /\ vpc' = "write"
      BY <1>11 DEF ClearPos, controller, demuxer, Pictured
    <2>2. Left'
      BY <2>1, SMTT(60) DEF PromiseInv, Left, Pictured
    <2>3. Kept'
      <3>1. SUFFICES ASSUME promised[serial] > 0
                     PROVE  Kept'
        BY <2>1, SMTT(60) DEF Kept
      <3>2. vserial = serial /\ promised[serial] <= picture.pos
        BY <1>0, <2>1, <3>1, SMTT(60) DEF PromiseInv, Kept, Armed, Passed
      <3>3. Passed(promised[serial])
        BY <1>0, <1>01, <2>1, <3>2, SMTT(60) DEF Ordered, PictureInOrder, Passed
      <3>4. Passed(promised[serial])'
        BY <2>1, <3>2, <3>3 DEF Passed
      <3>5. QED
        BY <1>0, <2>1, <3>1, <3>2, <3>4, SMTT(60) DEF PromiseInv, Kept
    <2>4. QED
      BY <1>1, <2>1, <2>2, <2>3, SMTT(60)
  <1>12. CASE WriteFrame
    <2>1. /\ UNCHANGED <<cpc, request, dpc, readPos, packets, serial, vserial, picture, seeking, seekPos,
                         promised>>
          /\ Pictured /\ vpc = "write" /\ vpc' = "loop" /\ frames' = Append(frames, picture)
      BY <1>12, SMTT(60) DEF WriteFrame, controller, demuxer, Pictured
    <2>2. Kept' /\ Left'
      BY <2>1, SMTT(60) DEF PromiseInv, Kept, Left, Armed, Passed, Pictured
    <2>3. picture.serial = vserial /\ promised[vserial] <= picture.pos
      <3>1. CASE promised[vserial] = 0
        BY <1>01, <2>1, <3>1, SMTT(60) DEF Ordered, PictureInOrder
      <3>2. CASE promised[vserial] > 0 /\ vserial = serial
        BY <2>1, <3>2, SMTT(60) DEF Ordered, PictureInOrder, PromiseInv, Kept, Armed, Passed
      <3>3. CASE promised[vserial] > 0 /\ vserial # serial
        BY <1>0, <2>1, <3>3, SMTT(60) DEF PromiseInv, Left
      <3>4. QED
        BY <1>01, <3>1, <3>2, <3>3, SMTT(60)
    <2>4. /\ Len(frames') = Len(frames) + 1
          /\ \A i \in 1 .. Len(frames') :
               \/ i = Len(frames) + 1 /\ frames'[i] = picture
               \/ i \in 1 .. Len(frames) /\ frames'[i] = frames[i]
      BY <1>0, <2>1, AppendElements, SMTT(60)
    <2>5. Targeted'
      BY <2>1, <2>3, <2>4, SMTT(60) DEF PromiseInv, Targeted
    <2>6. QED
      BY <2>2, <2>5 DEF PromiseInv
  <1>13. CASE PopFrame
    <2>1. /\ UNCHANGED <<cpc, request, dpc, readPos, packets, serial, vserial, vpc, picture, seeking,
                         seekPos, promised>>
          /\ frames' = Tail(frames) /\ frames # <<>>
      BY <1>13, SMTT(60) DEF PopFrame, controller, demuxer, decoder
    <2>2. Kept' /\ Left'
      BY <2>1, SMTT(60) DEF PromiseInv, Kept, Left, Armed, Passed, Pictured
    <2>3. \A i \in 1 .. Len(frames') : frames'[i] = frames[i + 1] /\ i + 1 \in 1 .. Len(frames)
      BY <1>0, <2>1, TailElements, SMTT(60)
    <2>4. Targeted'
      BY <2>1, <2>3 DEF PromiseInv, Targeted
    <2>5. QED
      BY <2>2, <2>4 DEF PromiseInv
  <1>14. QED
    BY <1>2, <1>3, <1>4, <1>5, <1>6, <1>7, <1>8, <1>9, <1>10, <1>11, <1>12, <1>13
    DEF Next, SeekStep, DemuxStep, DecodeStep
-----------------------------------------------------------------------------
\* The inductive invariants hold of every behaviour.
THEOREM SeekInvariance == Spec => [](SeekTypes /\ Ordered /\ PromiseInv)
  <1>1. Init => SeekTypes /\ Ordered /\ PromiseInv
    BY SeekTypesInit, OrderedInit, PromiseInit
  <1>2. SeekTypes /\ Ordered /\ PromiseInv /\ [Next]_vars => (SeekTypes /\ Ordered /\ PromiseInv)'
    BY SeekTypesStep, OrderedStep, PromiseStep
  <1>3. QED
    BY <1>1, <1>2, PTL DEF Spec

\* Exact seeking, for any file, any key frames, queues of any size and any number
\* of seeks: no frame is from before the place its seek landed on, frames leave in
\* the order of their serials and of the file, and none is before a target that
\* was promised for its serial.
THEOREM SeeksExactly == Spec => []SeekExact
  <1>1. SeekTypes /\ Ordered /\ PromiseInv => SeekExact
    <2> SUFFICES ASSUME SeekTypes, Ordered, PromiseInv
                 PROVE  SeekExact
      OBVIOUS
    <2>1. /\ DOMAIN frames = 1 .. Len(frames)
          /\ \A i \in 1 .. Len(frames) : frames[i] \in Item
      BY SMTT(60) DEF SeekTypes
    <2>2. SerialSeparates
      BY <2>1, Zenon DEF SerialSeparates, Ordered, FramesInOrder, Precedes, Before, SeekTypes, Item
    <2>3. TargetKept
      BY <2>1 DEF TargetKept, PromiseInv, Targeted, SeekTypes, Item
    <2>4. QED
      BY <2>2, <2>3 DEF SeekExact
  <1>2. QED
    BY <1>1, SeekInvariance, PTL
=============================================================================
