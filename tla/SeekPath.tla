----------------------------- MODULE SeekPath ------------------------------
(***************************************************************************)
(* A seek in a file, across four threads: the application's thread in      *)
(* DecoderController::seek, the demux thread (handleSeekRequest and        *)
(* distributePacket), the decode loop of the video decoder, and the thread *)
(* that pops the frames.  The controller leaves its request in an atomic   *)
(* and goes on to prepare the decoder, so the demuxer's flush, the         *)
(* decoder's look at the serial and the controller's stores run in any     *)
(* order.                                                                  *)
(*                                                                         *)
(* A packet is its position in the file; it decodes to the picture of the  *)
(* same position.  The packet queue and the frame queue are the bounded    *)
(* FIFOs that PacketQueue and FrameQueue implement.  Demuxer has the rest  *)
(* of the demux thread; end of file and loops are left to it.              *)
(***************************************************************************)
EXTENDS Integers, Sequences

CONSTANTS
    FileEnd,     \* number of packets in the file
    KeyFrames,   \* positions of its key frames
    Targets,     \* positions the application seeks to; negative ones are rejected
    QueueSize,   \* capacity of the packet queue
    FrameSize,   \* capacity of the frame queue
    MaxSeeks,    \* bound on the number of seeks
    SeekFails    \* may av_seek_frame fail?

ASSUME SeekPathAssumption ==
    /\ FileEnd \in Nat /\ QueueSize \in Nat \ {0} /\ FrameSize \in Nat \ {0} /\ MaxSeeks \in Nat
    /\ KeyFrames \subseteq 0..FileEnd /\ 0 \in KeyFrames
    /\ Targets \subseteq Int
    /\ SeekFails \in BOOLEAN

VARIABLES
    cpc, ctarget, seeks,                  \* DecoderController::seek: its step, its argument, calls so far
    request, dpc, loaded, readPos,        \* the demuxer: seekMsPos_, its step, what it loaded, the input
    packets, serial,                      \* the packet queue and its serial_
    vpc, vserial, hasKey, picture,        \* the decode loop: its step and its locals
    seeking, seekPos,                     \* demuxerSeeking_, seekPosMs_
    frames,                               \* the frame queue
    landed, promised                      \* history, by serial: where the demuxer went, and the
                                          \* target, if the decoder was ready for it in time

controller == <<cpc, ctarget, seeks>>
demuxer == <<request, dpc, loaded, readPos, serial, landed, promised>>
decoder == <<vpc, vserial, hasKey, picture>>
vars == <<cpc, ctarget, seeks, request, dpc, loaded, readPos, packets, serial,
          vpc, vserial, hasKey, picture, seeking, seekPos, frames, landed, promised>>

None == -1

\* AVSEEK_FLAG_BACKWARD: the last key frame at or before the position.
Landing(t) == {k \in KeyFrames : k <= t /\ \A j \in KeyFrames : j <= t => j <= k}

Init ==
    /\ cpc = "idle" /\ ctarget = None /\ seeks = 0
    /\ request = None /\ dpc = "read" /\ loaded = None /\ readPos = 0
    /\ packets = <<>> /\ serial = 1
    /\ vpc = "loop" /\ vserial = 1 /\ hasKey = FALSE /\ picture = [pos |-> 0, serial |-> 1]
    /\ seeking = FALSE /\ seekPos = 0
    /\ frames = <<>>
    /\ landed = [s \in 1..(MaxSeeks + 1) |-> 0] /\ promised = [s \in 1..(MaxSeeks + 1) |-> 0]
-----------------------------------------------------------------------------
(* DecoderController::seek. *)

\* demuxer_->seek leaves the request in seekMsPos_, or rejects the position.
seek(t) ==
    /\ cpc = "idle" /\ seeks < MaxSeeks
    /\ seeks' = seeks + 1
    /\ ctarget' = t
    /\ IF t < 0
       THEN cpc' = "event" /\ UNCHANGED <<request, promised>>
       ELSE cpc' = "clear" /\ request' = t /\ promised' = [promised EXCEPT ![serial] = 0]
    /\ UNCHANGED <<dpc, loaded, readPos, packets, serial, decoder, seeking, seekPos, frames, landed>>

ClearFrames ==
    /\ cpc = "clear"
    /\ frames' = <<>>
    /\ cpc' = "setSeeking"
    /\ UNCHANGED <<ctarget, seeks, demuxer, packets, decoder, seeking, seekPos>>

\* DecoderBase::setSeekPos, two stores.
SetSeeking ==
    /\ cpc = "setSeeking"
    /\ seeking' = TRUE
    /\ cpc' = "setSeekPos"
    /\ UNCHANGED <<ctarget, seeks, demuxer, packets, decoder, seekPos, frames>>

SetSeekPos ==
    /\ cpc = "setSeekPos"
    /\ seekPos' = ctarget
    /\ cpc' = "event"
    /\ UNCHANGED <<ctarget, seeks, demuxer, packets, decoder, seeking, frames>>

\* kSeekSuccess is sent whatever the demuxer's answer was.
SeekEvent ==
    /\ cpc = "event"
    /\ cpc' = "idle"
    /\ UNCHANGED <<ctarget, seeks, demuxer, packets, decoder, seeking, seekPos, frames>>
-----------------------------------------------------------------------------
(* The demux thread. *)

\* No request is pending: the next packet gets the queue's serial.
ReadPacket ==
    /\ dpc = "read" /\ request = None
    /\ readPos < FileEnd /\ Len(packets) < QueueSize
    /\ packets' = Append(packets, [pos |-> readPos, serial |-> serial])
    /\ readPos' = readPos + 1
    /\ UNCHANGED <<controller, request, dpc, loaded, serial, decoder, seeking, seekPos, frames,
                   landed, promised>>

LoadRequest ==
    /\ dpc = "read" /\ request # None
    /\ loaded' = request
    /\ dpc' = "clear"
    /\ UNCHANGED <<controller, request, readPos, packets, serial, decoder, seeking, seekPos, frames,
                   landed, promised>>

ClearRequest ==
    /\ dpc = "clear"
    /\ request' = None
    /\ dpc' = "seek"
    /\ UNCHANGED <<controller, loaded, readPos, packets, serial, decoder, seeking, seekPos, frames,
                   landed, promised>>

\* The controller has come through setSeekPos for this request, and the decoder
\* is not between its two tests with a picture from before the seek.
FilterReady ==
    /\ cpc \in {"event", "idle"} /\ seeking /\ seekPos = loaded
    /\ vpc \notin {"testPos", "clearPos"}

\* av_seek_frame and PacketQueue::flush.
SeekAndFlush ==
    /\ dpc = "seek"
    /\ readPos' \in Landing(loaded)
    /\ packets' = <<>>
    /\ serial' = serial + 1
    /\ landed' = [landed EXCEPT ![serial + 1] = readPos']
    /\ promised' = [promised EXCEPT ![serial + 1] = IF FilterReady THEN loaded ELSE 0]
    /\ dpc' = "read"
    /\ UNCHANGED <<controller, request, loaded, decoder, seeking, seekPos, frames>>

SeekFailure ==
    /\ dpc = "seek" /\ SeekFails
    /\ dpc' = "read"
    /\ UNCHANGED <<controller, request, loaded, readPos, packets, serial, decoder, seeking, seekPos,
                   frames, landed, promised>>
-----------------------------------------------------------------------------
(* The decode loop. *)

\* checkAndUpdateSerial.
CheckSerial ==
    /\ vpc = "loop"
    /\ IF vserial # serial
       THEN vserial' = serial /\ hasKey' = FALSE /\ vpc' = "endSeeking"
       ELSE vpc' = "pop" /\ UNCHANGED <<vserial, hasKey>>
    /\ UNCHANGED <<controller, demuxer, packets, picture, seeking, seekPos, frames>>

EndSeeking ==
    /\ vpc = "endSeeking"
    /\ seeking' = FALSE
    /\ vpc' = "pop"
    /\ UNCHANGED <<controller, demuxer, packets, vserial, hasKey, picture, seekPos, frames>>

\* Seeded bug: the packet's serial is not compared with the decoder's.
PopPacketAnySerial ==
    /\ vpc = "pop"
    /\ \/ packets = <<>> /\ vpc' = "loop" /\ UNCHANGED <<packets, hasKey, picture>>
       \/ /\ packets # <<>>
          /\ packets' = Tail(packets)
          /\ LET p == Head(packets)
             IN  IF ~hasKey /\ p.pos \notin KeyFrames
                 THEN vpc' = "loop" /\ UNCHANGED <<hasKey, picture>>
                 ELSE /\ hasKey' = TRUE
                      /\ picture' = [pos |-> p.pos, serial |-> vserial]
                      /\ vpc' = "testSeeking"
    /\ UNCHANGED <<controller, demuxer, vserial, seeking, seekPos, frames>>

\* A packet of another serial, or one that is not a key frame when a key frame
\* is promised, is thrown away.  pop waits for one millisecond.
PopPacket ==
    /\ vpc = "pop"
    /\ \/ packets = <<>> /\ vpc' = "loop" /\ UNCHANGED <<packets, hasKey, picture>>
       \/ /\ packets # <<>>
          /\ packets' = Tail(packets)
          /\ LET p == Head(packets)
             IN  IF p.serial # vserial \/ (~hasKey /\ p.pos \notin KeyFrames)
                 THEN vpc' = "loop" /\ UNCHANGED <<hasKey, picture>>
                 ELSE /\ hasKey' = TRUE
                      /\ picture' = [pos |-> p.pos, serial |-> vserial]
                      /\ vpc' = "testSeeking"
    /\ UNCHANGED <<controller, demuxer, vserial, seeking, seekPos, frames>>

TestSeeking ==
    /\ vpc = "testSeeking"
    /\ vpc' = IF seeking THEN "loop" ELSE "testPos"
    /\ UNCHANGED <<controller, demuxer, packets, vserial, hasKey, picture, seeking, seekPos, frames>>

\* Seeded bug: the filter is turned off by the first picture, not the target's.
TestPosAny ==
    /\ vpc = "testPos"
    /\ vpc' = IF seekPos <= 0 THEN "write" ELSE "clearPos"
    /\ UNCHANGED <<controller, demuxer, packets, vserial, hasKey, picture, seeking, seekPos, frames>>

TestPos ==
    /\ vpc = "testPos"
    /\ vpc' = IF seekPos <= 0 THEN "write" ELSE IF picture.pos < seekPos THEN "loop" ELSE "clearPos"
    /\ UNCHANGED <<controller, demuxer, packets, vserial, hasKey, picture, seeking, seekPos, frames>>

\* The first picture at or behind seekPosMs_ turns the filter off.
ClearPos ==
    /\ vpc = "clearPos"
    /\ seekPos' = None
    /\ vpc' = "write"
    /\ UNCHANGED <<controller, demuxer, packets, vserial, hasKey, picture, seeking, frames>>

\* getWritableFrame waits for space; commitFrame.
WriteFrame ==
    /\ vpc = "write" /\ Len(frames) < FrameSize
    /\ frames' = Append(frames, picture)
    /\ vpc' = "loop"
    /\ UNCHANGED <<controller, demuxer, packets, vserial, hasKey, picture, seeking, seekPos>>

PopFrame ==
    /\ frames # <<>>
    /\ frames' = Tail(frames)
    /\ UNCHANGED <<controller, demuxer, packets, decoder, seeking, seekPos>>
-----------------------------------------------------------------------------
SeekStep == ClearFrames \/ SetSeeking \/ SetSeekPos \/ SeekEvent
DemuxStep == ReadPacket \/ LoadRequest \/ ClearRequest \/ SeekAndFlush \/ SeekFailure
DecodeStep ==
    \/ CheckSerial \/ EndSeeking \/ PopPacket
    \/ TestSeeking \/ TestPos \/ ClearPos \/ WriteFrame

Next == (\E t \in Targets : seek(t)) \/ SeekStep \/ DemuxStep \/ DecodeStep \/ PopFrame

Spec == Init /\ [][Next]_vars
-----------------------------------------------------------------------------

\* A frame's serial says on which side of a seek it is: a frame labelled s was
\* read after the flush that made the serial s, so its position is not before
\* the place that seek landed on; and frames come out of the queue by serial
\* and, under one serial, in file order.  The flush may come at any point of the
\* decode loop, between its look at the serial and the pop in particular.
SerialSeparates ==
    /\ \A i \in DOMAIN frames : frames[i].pos >= landed[frames[i].serial]
    /\ \A i, j \in DOMAIN frames : i < j =>
         \/ frames[i].serial < frames[j].serial
         \/ frames[i].serial = frames[j].serial /\ frames[i].pos < frames[j].pos

\* Exact seeking (video_decoder.cpp:672-688): if the controller is through with
\* setSeekPos when the demuxer flushes, and the decoder is not inside the two
\* tests at that moment, no picture between the key frame and the target is put
\* out under the new serial until the application seeks again.
TargetKept == \A i \in DOMAIN frames : frames[i].pos >= promised[frames[i].serial]

\* What the decoder puts out after a seek: nothing from before the place the
\* seek landed on, and nothing before its target.
SeekExact == SerialSeparates /\ TargetKept
=============================================================================
