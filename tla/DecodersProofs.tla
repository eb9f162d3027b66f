--------------------------- MODULE DecodersProofs ---------------------------
(***************************************************************************)
(* PreBuffer: BufferedBeforeDecode for any configuration, stream and queue *)
(* size.  A decode loop takes a packet only after it has seen              *)
(* waitingForPreBuffer_ clear; so the invariant follows that flag from     *)
(* startDecode, which sets it before the loops start, to the callback,     *)
(* which clears it only after preBufferReady_ was set.                     *)
(*                                                                         *)
(* DecoderThread: the decode loop never meets a codec that the controller  *)
(* has freed, and no video codec is fed a packet before a key frame.       *)
(*                                                                         *)
(* HardwareAccel: a context of the user is given back once, after its last *)
(* use, and is not lost.  The invariant is the account of the references:  *)
(* those FFmpeg counts are those of the accelerator, the codec and the     *)
(* frames, but for those that a failed open forgets.                       *)
(***************************************************************************)
EXTENDS MCDecoders, TLAPS

(* Pre-buffering. *)

\* The decode loops of the open stream.
Active == {"begin", "top", "pop"}

\* The types, and the flags that only the step of a thread gives a meaning.
Shape ==
    /\ apc \in {"idle", "openStream", "openVideo", "openAudio", "waitVideo", "waitAudio",
                "startVideo", "startAudio", "releaseVideo", "releaseAudio", "stopLoops",
                "closeDecoders", "closeStream"}
    /\ dpc \in Media \cup {"none", "read", "check", "callback", "goVideo", "goAudio"}
    /\ state \in {"disabled", "waiting", "ready"}
    /\ loop \in [Media -> {"none", "stale", "begin", "top", "pop"}]
    /\ popped \subseteq Media

Records ==
    /\ config \in ConfigType /\ need \in ConfigType /\ stream \in StreamType
    /\ count \in [Media -> 0 .. Capacity]

Flags ==
    /\ decoder \in [Media -> BOOLEAN] /\ waiting \in [Media -> BOOLEAN]
    /\ ready \in BOOLEAN /\ interrupt \in BOOLEAN

\* The demuxer's configuration is the controller's, but while it is replaced.
SameConfig == need.enable => config = need \/ apc = "openStream"

\* The callback runs after preBufferReady_ was set.
CallbackReady == dpc \in {"callback", "goVideo", "goAudio"} => ready

\* Only a decoder that exists has a loop; close() ends the loops first.
LoopHasDecoder ==
    \A m \in Media : loop[m] \in Active => decoder[m] /\ apc \notin {"closeDecoders",
       "closeStream"}

\* Until the buffer is full, decoders that are about to start are waiting ...
StartWaits ==
    need.enable /\ ~ready =>
        /\ apc \in {"waitAudio", "startVideo",
           "startAudio"} => (decoder["video"] => waiting["video"])
        /\ apc \in {"startVideo", "startAudio"} => (decoder["audio"] => waiting["audio"])

\* ... and so are those that run, and none of them is about to take a packet.
LoopWaits ==
    need.enable /\ ~ready /\ apc \notin Closing =>
        \A m \in Media : loop[m] \in Active => waiting[m] /\ loop[m] # "pop"

Protocol == SameConfig /\ CallbackReady /\ LoopHasDecoder /\ StartWaits /\ LoopWaits /\
   BufferedBeforeDecode

IInv == Shape /\ Records /\ Flags /\ Protocol

\* No stream, and pre-buffering is off.
LEMMA Nothing == NoConfig \in ConfigType /\ NoStream \in StreamType /\ NoConfig.enable = FALSE
<1> QED BY Zenon DEF NoConfig, NoStream, ConfigType, StreamType, Media

\* One flag of a family is set or cleared.
LEMMA FlagSet ==
    ASSUME NEW f \in [Media -> BOOLEAN], NEW m \in Media
    PROVE  [f EXCEPT ![m] = TRUE] \in [Media -> BOOLEAN] /\
       [f EXCEPT ![m] = FALSE] \in [Media -> BOOLEAN]
<1> QED OBVIOUS

\* The initial state: nothing is open and nothing runs.
LEMMA InitInv == Init => IInv
<1> SUFFICES ASSUME Init PROVE IInv
    OBVIOUS
<1>1. Shape
    BY Zenon DEF Init, Shape, Media
<1>2. Records
    BY Nothing, PreBufferAssumption DEF Init, Records
<1>3. Flags
    BY Zenon DEF Init, Flags
<1>4. Protocol
    BY Nothing, Zenon DEF Init, Protocol, SameConfig, CallbackReady, LoopHasDecoder, StartWaits,
       LoopWaits, BufferedBeforeDecode, Active
<1> QED BY <1>1, <1>2, <1>3, <1>4, Zenon DEF IInv

\* open() changes the controller's configuration only.
LEMMA OpenInv == ASSUME IInv, NEW c \in Configs, open(c) PROVE IInv'
<1>1. Shape'
    BY Zenon DEF IInv, Shape, Media, open, controller, demuxer
<1>2. Records'
    BY PreBufferAssumption, Zenon DEF IInv, Shape, Records, Media, open, controller, demuxer
<1>3. Flags'
    BY Zenon DEF IInv, Shape, Flags, Media, open, controller, demuxer
<1>4. Protocol'
    BY SMT DEF IInv, Shape, Flags, Media, Protocol, SameConfig, CallbackReady, LoopHasDecoder,
       StartWaits, LoopWaits, BufferedBeforeDecode, Active, Closing, open, controller, demuxer
<1> QED BY <1>1, <1>2, <1>3, <1>4, Zenon DEF IInv

\* A new stream: no loop is active, and nothing has been taken from it.
LEMMA OpenStreamInv == ASSUME IInv, NEW s \in Streams, OpenStream(s) PROVE IInv'
<1>1. Shape'
    BY Zenon DEF IInv, Shape, Media, OpenStream, controller, demuxer
<1>2. Records'
    BY PreBufferAssumption DEF IInv, Shape, Records, Media, OpenStream, controller, demuxer
<1>3. Flags'
    BY ZenonT(60) DEF IInv, Shape, Flags, Media, OpenStream, controller, demuxer
<1>4. Protocol'
    BY SMT DEF IInv, Shape, Flags, Media, Protocol, SameConfig, CallbackReady, LoopHasDecoder,
       StartWaits, LoopWaits, BufferedBeforeDecode, Active, Closing, OpenStream, controller,
          demuxer
<1> QED BY <1>1, <1>2, <1>3, <1>4, Zenon DEF IInv

\* The calls that begin at once.
LEMMA CallInv == ASSUME IInv, startDecode \/ startDecodeFails \/ stopDecode \/ close PROVE IInv'
<1>1. CASE startDecode
  <2>1. Shape'
    BY <1>1, Zenon DEF IInv, Shape, Media, startDecode, Reopened, controller, demuxer
  <2>2. Records'
    BY <1>1, PreBufferAssumption, Zenon DEF IInv, Shape, Records, Media, startDecode, Reopened,
       controller, demuxer
  <2>3. Flags'
    BY <1>1, Zenon DEF IInv, Shape, Flags, Media, startDecode, Reopened, controller, demuxer
  <2>4. Protocol'
    BY <1>1, SMT DEF IInv, Shape, Flags, Media, Protocol, SameConfig, CallbackReady,
       LoopHasDecoder, StartWaits, LoopWaits, BufferedBeforeDecode, Active, Closing,
          startDecode, Reopened, controller, demuxer
  <2> QED BY <2>1, <2>2, <2>3, <2>4, Zenon DEF IInv
<1>2. CASE startDecodeFails
  <2>1. Shape'
    BY <1>2, Zenon DEF IInv, Shape, Media, startDecodeFails, Reopened, controller, demuxer
  <2>2. Records'
    BY <1>2, PreBufferAssumption, Zenon DEF IInv, Shape, Records, Media, startDecodeFails, Reopened,
       controller, demuxer
  <2>3. Flags'
    BY <1>2, Zenon DEF IInv, Shape, Flags, Media, startDecodeFails, Reopened, controller, demuxer
  <2>4. Protocol'
    BY <1>2, SMT DEF IInv, Shape, Flags, Media, Protocol, SameConfig, CallbackReady,
       LoopHasDecoder, StartWaits, LoopWaits, BufferedBeforeDecode, Active, Closing,
          startDecodeFails, Reopened, controller, demuxer
  <2> QED BY <2>1, <2>2, <2>3, <2>4, Zenon DEF IInv
<1>3. CASE stopDecode
  <2>1. Shape'
    BY <1>3, Zenon DEF IInv, Shape, Media, stopDecode, controller, demuxer
  <2>2. Records'
    BY <1>3, PreBufferAssumption, Zenon DEF IInv, Shape, Records, Media, stopDecode, controller, demuxer
  <2>3. Flags'
    BY <1>3, Zenon DEF IInv, Shape, Flags, Media, stopDecode, controller, demuxer
  <2>4. Protocol'
    BY <1>3, SMT DEF IInv, Shape, Flags, Media, Protocol, SameConfig, CallbackReady,
       LoopHasDecoder, StartWaits, LoopWaits, BufferedBeforeDecode, Active, Closing,
          stopDecode, controller, demuxer
  <2> QED BY <2>1, <2>2, <2>3, <2>4, Zenon DEF IInv
<1>4. CASE close
  <2>1. Shape'
    BY <1>4, Zenon DEF IInv, Shape, Media, close, controller, demuxer
  <2>2. Records'
    BY <1>4, PreBufferAssumption, Zenon DEF IInv, Shape, Records, Media, close, controller, demuxer
  <2>3. Flags'
    BY <1>4, Zenon DEF IInv, Shape, Flags, Media, close, controller, demuxer
  <2>4. Protocol'
    BY <1>4, SMT DEF IInv, Shape, Flags, Media, Protocol, SameConfig, CallbackReady,
       LoopHasDecoder, StartWaits, LoopWaits, BufferedBeforeDecode, Active, Closing, close,
          controller, demuxer
  <2> QED BY <2>1, <2>2, <2>3, <2>4, Zenon DEF IInv
<1> QED BY <1>1, <1>2, <1>3, <1>4, Zenon

\* The rest of open(): new decoders wait for nothing and have no loop.
LEMMA OpenRestInv == ASSUME IInv, OpenFails \/ OpenVideo \/ OpenAudio PROVE IInv'
<1>1. CASE OpenFails
  <2>1. Shape'
    BY <1>1, Zenon DEF IInv, Shape, Media, OpenFails, controller, demuxer
  <2>2. Records'
    BY <1>1, Nothing, PreBufferAssumption
       DEF IInv, Shape, Records, Media, OpenFails, controller, demuxer
  <2>3. Flags'
    BY <1>1, ZenonT(60) DEF IInv, Shape, Flags, Media, OpenFails, controller, demuxer
  <2>4. Protocol'
    BY <1>1, Nothing, SMT DEF IInv, Shape, Flags, Media, Protocol, SameConfig, CallbackReady,
       LoopHasDecoder, StartWaits, LoopWaits, BufferedBeforeDecode, Active, Closing, OpenFails,
          controller, demuxer
  <2> QED BY <2>1, <2>2, <2>3, <2>4, Zenon DEF IInv
<1>2. CASE OpenVideo
  <2>1. Shape'
    BY <1>2, Zenon DEF IInv, Shape, Media, OpenVideo, CreateDecoder, controller, demuxer
  <2>2. Records'
    BY <1>2, PreBufferAssumption, Zenon DEF IInv, Shape, Records, Media, OpenVideo, CreateDecoder,
       controller, demuxer
  <2>3. Flags'
    <3>1. decoder \in [Media -> BOOLEAN] /\ waiting \in [Media -> BOOLEAN] /\ "video" \in Media
      BY Zenon DEF IInv, Flags, Media
    <3>2. \/ decoder' = decoder /\ waiting' = waiting
          \/ decoder' = [decoder EXCEPT !["video"] = TRUE] /\
             waiting' = [waiting EXCEPT !["video"] = FALSE]
      BY <1>2, Zenon DEF OpenVideo, CreateDecoder
    <3>3. decoder' \in [Media -> BOOLEAN] /\ waiting' \in [Media -> BOOLEAN]
      BY <3>1, <3>2, FlagSet, Zenon
    <3>4. ready' \in BOOLEAN /\ interrupt' \in BOOLEAN
      BY <1>2, Zenon DEF IInv, Flags, OpenVideo, CreateDecoder, controller, demuxer
    <3> QED BY <3>3, <3>4, Zenon DEF Flags
  <2>4. Protocol'
    BY <1>2, SMT, SMTT(60) DEF IInv, Shape, Flags, Media, Protocol, SameConfig, CallbackReady,
       LoopHasDecoder, StartWaits, LoopWaits, BufferedBeforeDecode, Active, Closing, OpenVideo,
          CreateDecoder, controller, demuxer
  <2> QED BY <2>1, <2>2, <2>3, <2>4, Zenon DEF IInv
<1>3. CASE OpenAudio
  <2>1. Shape'
    BY <1>3, Zenon DEF IInv, Shape, Media, OpenAudio, CreateDecoder, controller, demuxer
  <2>2. Records'
    BY <1>3, PreBufferAssumption, Zenon DEF IInv, Shape, Records, Media, OpenAudio, CreateDecoder,
       controller, demuxer
  <2>3. Flags'
    <3>1. decoder \in [Media -> BOOLEAN] /\ waiting \in [Media -> BOOLEAN] /\ "audio" \in Media
      BY Zenon DEF IInv, Flags, Media
    <3>2. \/ decoder' = decoder /\ waiting' = waiting
          \/ decoder' = [decoder EXCEPT !["audio"] = TRUE] /\
             waiting' = [waiting EXCEPT !["audio"] = FALSE]
      BY <1>3, Zenon DEF OpenAudio, CreateDecoder
    <3>3. decoder' \in [Media -> BOOLEAN] /\ waiting' \in [Media -> BOOLEAN]
      BY <3>1, <3>2, FlagSet, Zenon
    <3>4. ready' \in BOOLEAN /\ interrupt' \in BOOLEAN
      BY <1>3, Zenon DEF IInv, Flags, OpenAudio, CreateDecoder, controller, demuxer
    <3> QED BY <3>3, <3>4, Zenon DEF Flags
  <2>4. Protocol'
    BY <1>3, SMT DEF IInv, Shape, Flags, Media, Protocol, SameConfig, CallbackReady,
       LoopHasDecoder, StartWaits, LoopWaits, BufferedBeforeDecode, Active, Closing, OpenAudio,
          CreateDecoder, controller, demuxer
  <2> QED BY <2>1, <2>2, <2>3, <2>4, Zenon DEF IInv
<1> QED BY <1>1, <1>2, <1>3, Zenon

\* startDecode: the decoders wait before their loops start.
LEMMA StartInv == ASSUME IInv, WaitVideo \/ WaitAudio \/ StartVideo \/ StartAudio PROVE IInv'
<1>1. CASE WaitVideo
  <2>1. Shape'
    BY <1>1, Zenon DEF IInv, Shape, Media, WaitVideo, SetWaiting, controller, demuxer
  <2>2. Records'
    BY <1>1, PreBufferAssumption, Zenon DEF IInv, Shape, Records, Media, WaitVideo, SetWaiting,
       controller, demuxer
  <2>3. Flags'
    BY <1>1, Zenon DEF IInv, Shape, Flags, Media, WaitVideo, SetWaiting, controller, demuxer
  <2>4. Protocol'
    BY <1>1, SMT DEF IInv, Shape, Flags, Media, Protocol, SameConfig, CallbackReady,
       LoopHasDecoder, StartWaits, LoopWaits, BufferedBeforeDecode, Active, Closing, WaitVideo,
          SetWaiting, controller, demuxer
  <2> QED BY <2>1, <2>2, <2>3, <2>4, Zenon DEF IInv
<1>2. CASE WaitAudio
  <2>1. Shape'
    BY <1>2, Zenon DEF IInv, Shape, Media, WaitAudio, SetWaiting, controller, demuxer
  <2>2. Records'
    BY <1>2, PreBufferAssumption, Zenon DEF IInv, Shape, Records, Media, WaitAudio, SetWaiting,
       controller, demuxer
  <2>3. Flags'
    BY <1>2, Zenon DEF IInv, Shape, Flags, Media, WaitAudio, SetWaiting, controller, demuxer
  <2>4. Protocol'
    BY <1>2, SMT DEF IInv, Shape, Flags, Media, Protocol, SameConfig, CallbackReady,
       LoopHasDecoder, StartWaits, LoopWaits, BufferedBeforeDecode, Active, Closing, WaitAudio,
          SetWaiting, controller, demuxer
  <2> QED BY <2>1, <2>2, <2>3, <2>4, Zenon DEF IInv
<1>3. CASE StartVideo
  <2>1. Shape'
    BY <1>3, Zenon DEF IInv, Shape, Media, StartVideo, StartLoop, controller, demuxer
  <2>2. Records'
    BY <1>3, PreBufferAssumption, Zenon DEF IInv, Shape, Records, Media, StartVideo, StartLoop,
       controller, demuxer
  <2>3. Flags'
    BY <1>3, Zenon DEF IInv, Shape, Flags, Media, StartVideo, StartLoop, controller, demuxer
  <2>4. Protocol'
    BY <1>3, SMT DEF IInv, Shape, Flags, Media, Protocol, SameConfig, CallbackReady,
       LoopHasDecoder, StartWaits, LoopWaits, BufferedBeforeDecode, Active, Closing,
          StartVideo, StartLoop, controller, demuxer
  <2> QED BY <2>1, <2>2, <2>3, <2>4, Zenon DEF IInv
<1>4. CASE StartAudio
  <2>1. Shape'
    BY <1>4, Zenon DEF IInv, Shape, Media, StartAudio, StartLoop, controller, demuxer
  <2>2. Records'
    BY <1>4, PreBufferAssumption, Zenon DEF IInv, Shape, Records, Media, StartAudio, StartLoop,
       controller, demuxer
  <2>3. Flags'
    BY <1>4, Zenon DEF IInv, Shape, Flags, Media, StartAudio, StartLoop, controller, demuxer
  <2>4. Protocol'
    BY <1>4, SMT DEF IInv, Shape, Flags, Media, Protocol, SameConfig, CallbackReady,
       LoopHasDecoder, StartWaits, LoopWaits, BufferedBeforeDecode, Active, Closing,
          StartAudio, StartLoop, controller, demuxer
  <2> QED BY <2>1, <2>2, <2>3, <2>4, Zenon DEF IInv
<1> QED BY <1>1, <1>2, <1>3, <1>4, Zenon

\* close(): the decoders are let go, and the stream is forgotten in the end.
LEMMA CloseInv == ASSUME IInv,
        ReleaseVideo \/ ReleaseAudio \/ CloseStopDecode \/ CloseDecoders \/ CloseStream
           PROVE IInv'
<1>1. CASE ReleaseVideo
  <2>1. Shape'
    BY <1>1, Zenon DEF IInv, Shape, Media, ReleaseVideo, Release, controller, demuxer
  <2>2. Records'
    BY <1>1, PreBufferAssumption, Zenon DEF IInv, Shape, Records, Media, ReleaseVideo, Release,
       controller, demuxer
  <2>3. Flags'
    BY <1>1, Zenon DEF IInv, Shape, Flags, Media, ReleaseVideo, Release, controller, demuxer
  <2>4. Protocol'
    BY <1>1, SMT DEF IInv, Shape, Flags, Media, Protocol, SameConfig, CallbackReady,
       LoopHasDecoder, StartWaits, LoopWaits, BufferedBeforeDecode, Active, Closing,
          ReleaseVideo, Release, controller, demuxer
  <2> QED BY <2>1, <2>2, <2>3, <2>4, Zenon DEF IInv
<1>2. CASE ReleaseAudio
  <2>1. Shape'
    BY <1>2, Zenon DEF IInv, Shape, Media, ReleaseAudio, Release, controller, demuxer
  <2>2. Records'
    BY <1>2, PreBufferAssumption, Zenon DEF IInv, Shape, Records, Media, ReleaseAudio, Release,
       controller, demuxer
  <2>3. Flags'
    BY <1>2, Zenon DEF IInv, Shape, Flags, Media, ReleaseAudio, Release, controller, demuxer
  <2>4. Protocol'
    BY <1>2, SMT DEF IInv, Shape, Flags, Media, Protocol, SameConfig, CallbackReady,
       LoopHasDecoder, StartWaits, LoopWaits, BufferedBeforeDecode, Active, Closing,
          ReleaseAudio, Release, controller, demuxer
  <2> QED BY <2>1, <2>2, <2>3, <2>4, Zenon DEF IInv
<1>3. CASE CloseStopDecode
  <2>1. Shape'
    BY <1>3, Zenon DEF IInv, Shape, Media, CloseStopDecode, controller, demuxer
  <2>2. Records'
    BY <1>3, PreBufferAssumption, Zenon DEF IInv, Shape, Records, Media, CloseStopDecode, controller,
       demuxer
  <2>3. Flags'
    BY <1>3, Zenon DEF IInv, Shape, Flags, Media, CloseStopDecode, controller, demuxer
  <2>4. Protocol'
    BY <1>3, SMT DEF IInv, Shape, Flags, Media, Protocol, SameConfig, CallbackReady,
       LoopHasDecoder, StartWaits, LoopWaits, BufferedBeforeDecode, Active, Closing,
          CloseStopDecode, controller, demuxer
  <2> QED BY <2>1, <2>2, <2>3, <2>4, Zenon DEF IInv
<1>4. CASE CloseDecoders
  <2>1. Shape'
    BY <1>4, Zenon DEF IInv, Shape, Media, CloseDecoders, controller, demuxer
  <2>2. Records'
    BY <1>4, PreBufferAssumption, Zenon DEF IInv, Shape, Records, Media, CloseDecoders, controller,
       demuxer
  <2>3. Flags'
    BY <1>4, Zenon DEF IInv, Shape, Flags, Media, CloseDecoders, controller, demuxer
  <2>4. Protocol'
    BY <1>4, SMT DEF IInv, Shape, Flags, Media, Protocol, SameConfig, CallbackReady,
       LoopHasDecoder, StartWaits, LoopWaits, BufferedBeforeDecode, Active, Closing,
          CloseDecoders, controller, demuxer
  <2> QED BY <2>1, <2>2, <2>3, <2>4, Zenon DEF IInv
<1>5. CASE CloseStream
  <2>1. Shape'
    BY <1>5, Zenon DEF IInv, Shape, Media, CloseStream, controller, demuxer
  <2>2. Records'
    BY <1>5, Nothing, PreBufferAssumption
       DEF IInv, Shape, Records, Media, CloseStream, controller, demuxer
  <2>3. Flags'
    BY <1>5, ZenonT(60) DEF IInv, Shape, Flags, Media, CloseStream, controller, demuxer
  <2>4. Protocol'
    BY <1>5, Nothing, SMT DEF IInv, Shape, Flags, Media, Protocol, SameConfig, CallbackReady,
       LoopHasDecoder, StartWaits, LoopWaits, BufferedBeforeDecode, Active, Closing,
          CloseStream, controller, demuxer
  <2> QED BY <2>1, <2>2, <2>3, <2>4, Zenon DEF IInv
<1> QED BY <1>1, <1>2, <1>3, <1>4, <1>5, Zenon

\* The demux thread reads a packet.
LEMMA ReadInv == ASSUME IInv, NEW m \in Media, Read(m) PROVE IInv'
<1>1. Shape'
    BY Zenon DEF IInv, Shape, Media, Read, StreamType, controller, demuxer
<1>2. Records'
    BY PreBufferAssumption DEF IInv, Shape, Records, Media, Read, StreamType, controller, demuxer
<1>3. Flags'
    BY Zenon DEF IInv, Shape, Flags, Media, Read, StreamType, controller, demuxer
<1>4. Protocol'
    BY SMT DEF IInv, Shape, Flags, Media, Protocol, SameConfig, CallbackReady, LoopHasDecoder,
       StartWaits, LoopWaits, BufferedBeforeDecode, Active, Closing, Read, StreamType,
          controller, demuxer
<1> QED BY <1>1, <1>2, <1>3, <1>4, Zenon DEF IInv

\* The demux thread pushes it.
LEMMA PushInv == ASSUME IInv, NEW m \in Media, Push(m) PROVE IInv'
<1>1. Shape'
    BY Zenon DEF IInv, Shape, Media, Push, controller, demuxer
<1>2. Records'
    BY PreBufferAssumption DEF IInv, Shape, Records, Media, Push, controller, demuxer
<1>3. Flags'
    BY Zenon DEF IInv, Shape, Flags, Media, Push, controller, demuxer
<1>4. Protocol'
    BY SMT, SMTT(60) DEF IInv, Shape, Flags, Media, Protocol, SameConfig, CallbackReady,
       LoopHasDecoder, StartWaits, LoopWaits, BufferedBeforeDecode, Active, Closing, Push,
          controller, demuxer
<1> QED BY <1>1, <1>2, <1>3, <1>4, Zenon DEF IInv

\* The check and the callback: a decoder is let go only when the buffer is full.
LEMMA DemuxInv == ASSUME IInv,
        checkPreBufferStatus \/ onPreBufferReady \/ GoVideo \/ GoAudio \/ ThreadEnds PROVE IInv'
<1>1. CASE checkPreBufferStatus
  <2>1. Shape'
    BY <1>1, Zenon DEF IInv, Shape, Media, checkPreBufferStatus, controller, demuxer
  <2>2. Records'
    BY <1>1, PreBufferAssumption, Zenon DEF IInv, Shape, Records, Media, checkPreBufferStatus,
       controller, demuxer
  <2>3. Flags'
    BY <1>1, ZenonT(60) DEF IInv, Shape, Flags, Media, checkPreBufferStatus, controller, demuxer
  <2>4. Protocol'
    BY <1>1, SMT DEF IInv, Shape, Flags, Media, Protocol, SameConfig, CallbackReady,
       LoopHasDecoder, StartWaits, LoopWaits, BufferedBeforeDecode, Active, Closing,
          checkPreBufferStatus, controller, demuxer
  <2> QED BY <2>1, <2>2, <2>3, <2>4, Zenon DEF IInv
<1>2. CASE onPreBufferReady
  <2>1. Shape'
    BY <1>2, Zenon DEF IInv, Shape, Media, onPreBufferReady, controller, demuxer
  <2>2. Records'
    BY <1>2, PreBufferAssumption, Zenon DEF IInv, Shape, Records, Media, onPreBufferReady, controller,
       demuxer
  <2>3. Flags'
    BY <1>2, Zenon DEF IInv, Shape, Flags, Media, onPreBufferReady, controller, demuxer
  <2>4. Protocol'
    BY <1>2, SMT DEF IInv, Shape, Flags, Media, Protocol, SameConfig, CallbackReady,
       LoopHasDecoder, StartWaits, LoopWaits, BufferedBeforeDecode, Active, Closing,
          onPreBufferReady, controller, demuxer
  <2> QED BY <2>1, <2>2, <2>3, <2>4, Zenon DEF IInv
<1>3. CASE GoVideo
  <2>1. Shape'
    BY <1>3, Zenon DEF IInv, Shape, Media, GoVideo, Go, controller, demuxer
  <2>2. Records'
    BY <1>3, PreBufferAssumption, Zenon DEF IInv, Shape, Records, Media, GoVideo, Go, controller, demuxer
  <2>3. Flags'
    BY <1>3, Zenon DEF IInv, Shape, Flags, Media, GoVideo, Go, controller, demuxer
  <2>4. Protocol'
    BY <1>3, SMT DEF IInv, Shape, Flags, Media, Protocol, SameConfig, CallbackReady,
       LoopHasDecoder, StartWaits, LoopWaits, BufferedBeforeDecode, Active, Closing, GoVideo,
          Go, controller, demuxer
  <2> QED BY <2>1, <2>2, <2>3, <2>4, Zenon DEF IInv
<1>4. CASE GoAudio
  <2>1. Shape'
    BY <1>4, Zenon DEF IInv, Shape, Media, GoAudio, Go, controller, demuxer
  <2>2. Records'
    BY <1>4, PreBufferAssumption, Zenon DEF IInv, Shape, Records, Media, GoAudio, Go, controller, demuxer
  <2>3. Flags'
    BY <1>4, Zenon DEF IInv, Shape, Flags, Media, GoAudio, Go, controller, demuxer
  <2>4. Protocol'
    BY <1>4, SMT DEF IInv, Shape, Flags, Media, Protocol, SameConfig, CallbackReady,
       LoopHasDecoder, StartWaits, LoopWaits, BufferedBeforeDecode, Active, Closing, GoAudio,
          Go, controller, demuxer
  <2> QED BY <2>1, <2>2, <2>3, <2>4, Zenon DEF IInv
<1>5. CASE ThreadEnds
  <2>1. Shape'
    BY <1>5, Zenon DEF IInv, Shape, Media, ThreadEnds, controller, demuxer
  <2>2. Records'
    BY <1>5, PreBufferAssumption, Zenon DEF IInv, Shape, Records, Media, ThreadEnds, controller, demuxer
  <2>3. Flags'
    BY <1>5, Zenon DEF IInv, Shape, Flags, Media, ThreadEnds, controller, demuxer
  <2>4. Protocol'
    BY <1>5, SMT DEF IInv, Shape, Flags, Media, Protocol, SameConfig, CallbackReady,
       LoopHasDecoder, StartWaits, LoopWaits, BufferedBeforeDecode, Active, Closing,
          ThreadEnds, controller, demuxer
  <2> QED BY <2>1, <2>2, <2>3, <2>4, Zenon DEF IInv
<1> QED BY <1>1, <1>2, <1>3, <1>4, <1>5, Zenon

\* A decode loop takes packets only if it has seen the flag clear.
LEMMA DecodeInv == ASSUME IInv, NEW m \in Media, Decode(m) PROVE IInv'
<1>1. CASE LoopBegin(m)
  <2>1. Shape'
    BY <1>1, Zenon DEF IInv, Shape, Media, LoopBegin, controller, demuxer
  <2>2. Records'
    BY <1>1, PreBufferAssumption DEF IInv, Shape, Records, Media, LoopBegin, controller, demuxer
  <2>3. Flags'
    BY <1>1, Zenon DEF IInv, Shape, Flags, Media, LoopBegin, controller, demuxer
  <2>4. Protocol'
    BY <1>1, SMT DEF IInv, Shape, Flags, Media, Protocol, SameConfig, CallbackReady,
       LoopHasDecoder, StartWaits, LoopWaits, BufferedBeforeDecode, Active, Closing, LoopBegin,
          controller, demuxer
  <2> QED BY <2>1, <2>2, <2>3, <2>4, Zenon DEF IInv
<1>2. CASE LoopTop(m)
  <2>1. Shape'
    BY <1>2, Zenon DEF IInv, Shape, Media, LoopTop, controller, demuxer
  <2>2. Records'
    BY <1>2, PreBufferAssumption, Zenon DEF IInv, Shape, Records, Media, LoopTop, controller, demuxer
  <2>3. Flags'
    BY <1>2, Zenon DEF IInv, Shape, Flags, Media, LoopTop, controller, demuxer
  <2>4. Protocol'
    BY <1>2, SMT DEF IInv, Shape, Flags, Media, Protocol, SameConfig, CallbackReady,
       LoopHasDecoder, StartWaits, LoopWaits, BufferedBeforeDecode, Active, Closing, LoopTop,
          controller, demuxer
  <2> QED BY <2>1, <2>2, <2>3, <2>4, Zenon DEF IInv
<1>3. CASE LoopPop(m)
  <2>1. Shape'
    BY <1>3, ZenonT(60) DEF IInv, Shape, Media, LoopPop, controller, demuxer
  <2>2. Records'
    BY <1>3, PreBufferAssumption DEF IInv, Shape, Records, Media, LoopPop, controller, demuxer
  <2>3. Flags'
    BY <1>3, Zenon DEF IInv, Shape, Flags, Media, LoopPop, controller, demuxer
  <2>4. Protocol'
    BY <1>3, SMT DEF IInv, Shape, Flags, Media, Protocol, SameConfig, CallbackReady,
       LoopHasDecoder, StartWaits, LoopWaits, BufferedBeforeDecode, Active, Closing, LoopPop,
          controller, demuxer
  <2> QED BY <2>1, <2>2, <2>3, <2>4, Zenon DEF IInv
<1> QED BY <1>1, <1>2, <1>3, Zenon DEF Decode

\* Every step of the specification, or none.
LEMMA StepInv == IInv /\ [Next]_vars => IInv'
<1> SUFFICES ASSUME IInv, [Next]_vars PROVE IInv'
    OBVIOUS
<1>1. CASE UNCHANGED vars
    BY <1>1 DEF vars, IInv, Shape, Records, Flags, Protocol, SameConfig, CallbackReady,
       LoopHasDecoder,
                StartWaits, LoopWaits, BufferedBeforeDecode
<1>2. CASE \E c \in Configs : open(c)
    BY <1>2, OpenInv, Zenon
<1>3. CASE startDecode \/ startDecodeFails \/ stopDecode \/ close
    BY <1>3, CallInv, Zenon
<1>4. CASE App
    BY <1>4, OpenStreamInv, OpenRestInv, StartInv, CloseInv, Zenon DEF App
<1>5. CASE Demux
    BY <1>5, ReadInv, PushInv, DemuxInv, Zenon DEF Demux
<1>6. CASE \E m \in Media : Decode(m)
    BY <1>6, DecodeInv, Zenon
<1> QED BY <1>1, <1>2, <1>3, <1>4, <1>5, <1>6, Zenon DEF Next

\* The inductive invariant holds of every behaviour.
THEOREM Invariance == Spec => []IInv
<1> QED BY InitInv, StepInv, PTL DEF Spec

\* The types; in particular no queue exceeds its limit.
THEOREM TypeCorrect == Spec => []TypeOK
<1>1. IInv => TypeOK
    BY Zenon DEF IInv, Shape, Records, Flags, TypeOK
<1> QED BY <1>1, Invariance, PTL

\* No decoder takes a packet before the buffer is full, for every configuration.
THEOREM BufferFirst == Spec => []BufferedBeforeDecode
<1>1. IInv => BufferedBeforeDecode
    BY Zenon DEF IInv, Protocol
<1> QED BY <1>1, Invariance, PTL
-----------------------------------------------------------------------------
(* The life of a decoder and its thread. *)

\* The steps of the controller.
ControllerSteps ==
    {"idle", "open", "start", "event", "resumeNotify", "stop", "stopInterrupt", "stopAbort",
     "stopNotify", "stopJoin", "stopEvent", "close"}

\* The steps at which the controller has no decode thread: what it does to
\* codecCtx_ it does there.
Alone == {"open", "start", "stopEvent", "close"}

\* There is a thread exactly while isStarted_ is set; the controller opens,
\* closes and starts only when it has joined the last one; and it starts a
\* decoder only after an open() that left it a codec.
LifeInv ==
    /\ tCpc \in ControllerSteps /\ tThen \in {"idle", "open"}
    /\ tStarted <=> tPc # "none"
    /\ tStarted => tOpened /\ tCpc \notin Alone
    /\ tCpc = "start" => tOpened /\ tCodec # "none"
    /\ Thread!LoopHasCodec

\* The demuxer's part, the consumer's and the operating system's.
OtherThreads ==
    Thread!PreBufferReady \/ Thread!AbortPackets \/ Thread!PopFrame \/ Thread!SpuriousWakeup

\* Where a video loop has fed its codec: the key frame has gone in.
Fed == {"receive", "refused", "convert", "write"}

\* hasKeyFrame_ is to be believed once the loop has set it, that is after its
\* first statements, and as long as it has a codec.
KeyInv ==
    tVideo => /\ tPc \notin {"none", "begin", "done"} /\ tHasKeyFrame => tPrimed
              /\ tPc \in Fed => tPrimed

\* The calls the controller takes on: one that finds the decoder closed has no
\* thread to stop before it opens.
LEMMA LifeCall == LifeInv /\ Thread!Call => LifeInv'
<1> SUFFICES ASSUME LifeInv, Thread!Call PROVE LifeInv'
    OBVIOUS
<1> USE DEF LifeInv, ControllerSteps, Alone, Thread!LoopHasCodec
<1>1. CASE Thread!startDecode
    BY <1>1, Zenon DEF Thread!startDecode, Thread!members, Thread!queues, Thread!locals, Thread!loop
<1>2. CASE Thread!stopDecode
    BY <1>2, Zenon DEF Thread!stopDecode, Thread!members, Thread!queues, Thread!locals, Thread!loop
<1>3. CASE Thread!pause
    BY <1>3, Zenon DEF Thread!pause, Thread!members, Thread!queues, Thread!locals, Thread!loop
<1>4. CASE Thread!resume
    BY <1>4, Zenon DEF Thread!resume, Thread!members, Thread!queues, Thread!locals, Thread!loop
<1> QED BY <1>1, <1>2, <1>3, <1>4, Zenon DEF Thread!Call

\* The steps of a call.  open, openFails and close touch codecCtx_ alone; start
\* makes a thread that finds the codec, and the join takes it away.
LEMMA LifeCallStep == LifeInv /\ Thread!CallStep => LifeInv'
<1> SUFFICES ASSUME LifeInv, Thread!CallStep PROVE LifeInv'
    OBVIOUS
<1> USE DEF LifeInv, ControllerSteps, Alone, Thread!LoopHasCodec
<1>1. CASE Thread!openFails
    BY <1>1, Zenon DEF Thread!openFails, Thread!setupHardwareDecode, Thread!members, Thread!queues,
       Thread!locals, Thread!loop
<1>2. CASE Thread!open
    BY <1>2, Zenon DEF Thread!open, Thread!setupHardwareDecode, Thread!members, Thread!queues,
       Thread!locals, Thread!loop
<1>3. CASE Thread!start
    BY <1>3, Zenon DEF Thread!start, Thread!members, Thread!queues, Thread!locals, Thread!loop
<1>4. CASE Thread!ResumeNotify
    BY <1>4, Zenon DEF Thread!ResumeNotify, Thread!notify_all, Thread!members, Thread!queues,
       Thread!locals, Thread!loop
<1>5. CASE Thread!SendEvent
    BY <1>5, Zenon DEF Thread!SendEvent, Thread!members, Thread!queues, Thread!locals, Thread!loop
<1>6. CASE Thread!StopPaused
    BY <1>6, Zenon DEF Thread!StopPaused, Thread!members, Thread!queues, Thread!locals, Thread!loop
<1>7. CASE Thread!StopInterrupt
    BY <1>7, Zenon DEF Thread!StopInterrupt, Thread!members, Thread!queues, Thread!locals, Thread!loop
<1>8. CASE Thread!StopAbort
    BY <1>8, Zenon DEF Thread!StopAbort, Thread!members, Thread!queues, Thread!locals, Thread!loop
<1>9. CASE Thread!StopNotify
    BY <1>9, Zenon DEF Thread!StopNotify, Thread!notify_all, Thread!members, Thread!queues,
       Thread!locals, Thread!loop
<1>10. CASE Thread!StopJoin
    BY <1>10, Zenon DEF Thread!StopJoin, Thread!members, Thread!queues, Thread!locals, Thread!loop
<1>11. CASE Thread!close
    BY <1>11, Zenon DEF Thread!close, Thread!members, Thread!queues, Thread!locals, Thread!loop
<1> QED BY <1>1, <1>2, <1>3, <1>4, <1>5, <1>6, <1>7, <1>8, <1>9, <1>10, <1>11, Zenon DEF Thread!CallStep

\* The other threads do not touch what the loop depends on.
LEMMA LifeEnv == LifeInv /\ OtherThreads => LifeInv'
<1> SUFFICES ASSUME LifeInv, OtherThreads PROVE LifeInv'
    OBVIOUS
<1> USE DEF LifeInv, ControllerSteps, Alone, Thread!LoopHasCodec
<1>1. CASE Thread!PreBufferReady
    BY <1>1, Zenon DEF Thread!PreBufferReady, Thread!members, Thread!queues, Thread!locals, Thread!loop
<1>2. CASE Thread!AbortPackets
    BY <1>2, Zenon DEF Thread!AbortPackets, Thread!members, Thread!queues, Thread!locals, Thread!loop
<1>3. CASE Thread!PopFrame
    BY <1>3, Zenon DEF Thread!PopFrame, Thread!members, Thread!queues, Thread!locals, Thread!loop
<1>4. CASE Thread!SpuriousWakeup
    BY <1>4, Zenon DEF Thread!SpuriousWakeup, Thread!ThreadFrame, Thread!members, Thread!locals
<1> QED BY <1>1, <1>2, <1>3, <1>4, Zenon DEF OtherThreads

\* The loop's own steps: it gives its codec up only to get another or to end.
LEMMA LifeThread == LifeInv /\ Thread!ThreadStep => LifeInv'
<1> SUFFICES ASSUME LifeInv, Thread!ThreadStep PROVE LifeInv'
    OBVIOUS
<1> USE DEF LifeInv, ControllerSteps, Alone, Thread!LoopHasCodec
<1>1. CASE Thread!Begin
    BY <1>1, Zenon DEF Thread!Begin, Thread!ThreadFrame, Thread!members, Thread!locals
<1>2. CASE Thread!Top
    BY <1>2, Zenon DEF Thread!Top, Thread!ThreadFrame, Thread!members, Thread!locals
<1>3. CASE Thread!Predicate
    BY <1>3, Zenon DEF Thread!Predicate, Thread!ThreadFrame, Thread!members, Thread!locals
<1>4. CASE Thread!FallAsleep
    BY <1>4, Zenon DEF Thread!FallAsleep, Thread!ThreadFrame, Thread!members, Thread!locals
<1>5. CASE Thread!Timeout
    BY <1>5, Zenon DEF Thread!Timeout, Thread!ThreadFrame, Thread!members, Thread!locals
<1>6. CASE Thread!Woken
    BY <1>6, Zenon DEF Thread!Woken, Thread!ThreadFrame, Thread!members, Thread!locals
<1>7. CASE \E changed \in BOOLEAN : Thread!checkAndUpdateSerial(changed)
    BY <1>7 DEF Thread!checkAndUpdateSerial, Thread!ThreadFrame, Thread!members, Thread!locals
<1>8. CASE Thread!NoPacket
    BY <1>8, Zenon DEF Thread!NoPacket, Thread!ThreadFrame, Thread!members, Thread!locals
<1>9. CASE \E key \in BOOLEAN : Thread!SendPacket(key)
    BY <1>9 DEF Thread!SendPacket, Thread!ThreadFrame, Thread!members, Thread!locals
<1>10. CASE Thread!SendError
    BY <1>10, Zenon DEF Thread!SendError, Thread!CanFallBack, Thread!ThreadFrame, Thread!members,
       Thread!locals
<1>11. CASE Thread!Fallback
    BY <1>11, Zenon DEF Thread!Fallback, Thread!CanFallBack, Thread!ThreadFrame, Thread!members,
       Thread!locals
<1>12. CASE Thread!Reinitialize
    BY <1>12, Zenon DEF Thread!Reinitialize, Thread!ThreadFrame, Thread!members, Thread!locals
<1>13. CASE Thread!NoFrame
    BY <1>13, Zenon DEF Thread!NoFrame, Thread!ThreadFrame, Thread!members, Thread!locals
<1>14. CASE Thread!DecodeError
    BY <1>14, Zenon DEF Thread!DecodeError, Thread!ThreadFrame, Thread!members, Thread!locals
<1>15. CASE Thread!SkipFrame
    BY <1>15, Zenon DEF Thread!SkipFrame, Thread!ThreadFrame, Thread!members, Thread!locals
<1>16. CASE Thread!ResampleFails
    BY <1>16, Zenon DEF Thread!ResampleFails, Thread!ThreadFrame, Thread!members, Thread!locals
<1>17. CASE Thread!ReceiveFrame
    BY <1>17, Zenon DEF Thread!ReceiveFrame, Thread!ThreadFrame, Thread!members, Thread!locals
<1>18. CASE Thread!ReceiveSound
    BY <1>18, Zenon DEF Thread!ReceiveSound, Thread!ThreadFrame, Thread!members, Thread!locals
<1>19. CASE Thread!processFrameConversion
    BY <1>19, Zenon DEF Thread!processFrameConversion, Thread!ThreadFrame, Thread!members, Thread!locals
<1>20. CASE Thread!WriteFrame
    BY <1>20, Zenon DEF Thread!WriteFrame, Thread!ThreadFrame, Thread!members, Thread!locals
<1> QED BY ZenonT(60), <1>1, <1>2, <1>3, <1>4, <1>5, <1>6, <1>7, <1>8, <1>9, <1>10, <1>11, <1>12,
           <1>13, <1>14, <1>15, <1>16, <1>17, <1>18, <1>19, <1>20 DEF Thread!ThreadStep

\* The calls leave the loop's locals alone.
LEMMA KeyCall == LifeInv /\ KeyInv /\ Thread!Call => KeyInv'
<1> SUFFICES ASSUME LifeInv /\ KeyInv, Thread!Call PROVE KeyInv'
    OBVIOUS
<1> USE DEF LifeInv, KeyInv, Alone, Fed
<1>1. CASE Thread!startDecode
    BY <1>1, Zenon DEF Thread!startDecode, Thread!members, Thread!queues, Thread!locals, Thread!loop
<1>2. CASE Thread!stopDecode
    BY <1>2, Zenon DEF Thread!stopDecode, Thread!members, Thread!queues, Thread!locals, Thread!loop
<1>3. CASE Thread!pause
    BY <1>3, Zenon DEF Thread!pause, Thread!members, Thread!queues, Thread!locals, Thread!loop
<1>4. CASE Thread!resume
    BY <1>4, Zenon DEF Thread!resume, Thread!members, Thread!queues, Thread!locals, Thread!loop
<1> QED BY <1>1, <1>2, <1>3, <1>4, Zenon DEF Thread!Call

\* open() resets the history while there is no loop; a loop that starts has not
\* set hasKeyFrame_ yet.
LEMMA KeyCallStep == LifeInv /\ KeyInv /\ Thread!CallStep => KeyInv'
<1> SUFFICES ASSUME LifeInv /\ KeyInv, Thread!CallStep PROVE KeyInv'
    OBVIOUS
<1> USE DEF LifeInv, KeyInv, Alone, Fed
<1>1. CASE Thread!openFails
    BY <1>1, Zenon DEF Thread!openFails, Thread!setupHardwareDecode, Thread!members, Thread!queues,
       Thread!locals, Thread!loop
<1>2. CASE Thread!open
    BY <1>2, Zenon DEF Thread!open, Thread!setupHardwareDecode, Thread!members, Thread!queues,
       Thread!locals, Thread!loop
<1>3. CASE Thread!start
    BY <1>3, Zenon DEF Thread!start, Thread!members, Thread!queues, Thread!locals, Thread!loop
<1>4. CASE Thread!ResumeNotify
    BY <1>4, Zenon DEF Thread!ResumeNotify, Thread!notify_all, Thread!members, Thread!queues,
       Thread!locals, Thread!loop
<1>5. CASE Thread!SendEvent
    BY <1>5, Zenon DEF Thread!SendEvent, Thread!members, Thread!queues, Thread!locals, Thread!loop
<1>6. CASE Thread!StopPaused
    BY <1>6, Zenon DEF Thread!StopPaused, Thread!members, Thread!queues, Thread!locals, Thread!loop
<1>7. CASE Thread!StopInterrupt
    BY <1>7, Zenon DEF Thread!StopInterrupt, Thread!members, Thread!queues, Thread!locals, Thread!loop
<1>8. CASE Thread!StopAbort
    BY <1>8, Zenon DEF Thread!StopAbort, Thread!members, Thread!queues, Thread!locals, Thread!loop
<1>9. CASE Thread!StopNotify
    BY <1>9, Zenon DEF Thread!StopNotify, Thread!notify_all, Thread!members, Thread!queues,
       Thread!locals, Thread!loop
<1>10. CASE Thread!StopJoin
    BY <1>10, Zenon DEF Thread!StopJoin, Thread!members, Thread!queues, Thread!locals, Thread!loop
<1>11. CASE Thread!close
    BY <1>11, Zenon DEF Thread!close, Thread!members, Thread!queues, Thread!locals, Thread!loop
<1> QED BY <1>1, <1>2, <1>3, <1>4, <1>5, <1>6, <1>7, <1>8, <1>9, <1>10, <1>11, Zenon
   DEF Thread!CallStep

\* The other threads do not feed the codec.
LEMMA KeyEnv == LifeInv /\ KeyInv /\ OtherThreads => KeyInv'
<1> SUFFICES ASSUME LifeInv /\ KeyInv, OtherThreads PROVE KeyInv'
    OBVIOUS
<1> USE DEF LifeInv, KeyInv, Alone, Fed
<1>1. CASE Thread!PreBufferReady
    BY <1>1, Zenon DEF Thread!PreBufferReady, Thread!members, Thread!queues, Thread!locals, Thread!loop
<1>2. CASE Thread!AbortPackets
    BY <1>2, Zenon DEF Thread!AbortPackets, Thread!members, Thread!queues, Thread!locals, Thread!loop
<1>3. CASE Thread!PopFrame
    BY <1>3, Zenon DEF Thread!PopFrame, Thread!members, Thread!queues, Thread!locals, Thread!loop
<1>4. CASE Thread!SpuriousWakeup
    BY <1>4, Zenon DEF Thread!SpuriousWakeup, Thread!ThreadFrame, Thread!members, Thread!locals
<1> QED BY <1>1, <1>2, <1>3, <1>4, Zenon DEF OtherThreads

\* The loop feeds the codec a packet that is not a key frame only when
\* hasKeyFrame_ is set, and resets it wherever the codec is flushed or replaced.
LEMMA KeyThread == LifeInv /\ KeyInv /\ Thread!ThreadStep => KeyInv'
<1> SUFFICES ASSUME LifeInv /\ KeyInv, Thread!ThreadStep PROVE KeyInv'
    OBVIOUS
<1> USE DEF LifeInv, KeyInv, Alone, Fed
<1>1. CASE Thread!Begin
    BY <1>1, Zenon DEF Thread!Begin, Thread!ThreadFrame, Thread!members, Thread!locals
<1>2. CASE Thread!Top
    BY <1>2, Zenon DEF Thread!Top, Thread!ThreadFrame, Thread!members, Thread!locals
<1>3. CASE Thread!Predicate
    BY <1>3, Zenon DEF Thread!Predicate, Thread!ThreadFrame, Thread!members, Thread!locals
<1>4. CASE Thread!FallAsleep
    BY <1>4, Zenon DEF Thread!FallAsleep, Thread!ThreadFrame, Thread!members, Thread!locals
<1>5. CASE Thread!Timeout
    BY <1>5, Zenon DEF Thread!Timeout, Thread!ThreadFrame, Thread!members, Thread!locals
<1>6. CASE Thread!Woken
    BY <1>6, Zenon DEF Thread!Woken, Thread!ThreadFrame, Thread!members, Thread!locals
<1>7. CASE \E changed \in BOOLEAN : Thread!checkAndUpdateSerial(changed)
    BY <1>7 DEF Thread!checkAndUpdateSerial, Thread!ThreadFrame, Thread!members, Thread!locals
<1>8. CASE Thread!NoPacket
    BY <1>8, Zenon DEF Thread!NoPacket, Thread!ThreadFrame, Thread!members, Thread!locals
<1>9. CASE \E key \in BOOLEAN : Thread!SendPacket(key)
  <2>1. PICK key \in BOOLEAN : Thread!SendPacket(key)
    BY <1>9, Zenon
  <2>2. tVideo => tPrimed'
    BY <2>1, Zenon DEF Thread!SendPacket, Thread!ThreadFrame, Thread!members
  <2> QED BY <2>1, <2>2, Zenon DEF Thread!SendPacket, Thread!ThreadFrame, Thread!members
<1>10. CASE Thread!SendError
    BY <1>10, Zenon DEF Thread!SendError, Thread!CanFallBack, Thread!ThreadFrame, Thread!members,
       Thread!locals
<1>11. CASE Thread!Fallback
    BY <1>11, Zenon DEF Thread!Fallback, Thread!CanFallBack, Thread!ThreadFrame, Thread!members,
       Thread!locals
<1>12. CASE Thread!Reinitialize
    BY <1>12, Zenon DEF Thread!Reinitialize, Thread!ThreadFrame, Thread!members, Thread!locals
<1>13. CASE Thread!NoFrame
    BY <1>13, Zenon DEF Thread!NoFrame, Thread!ThreadFrame, Thread!members, Thread!locals
<1>14. CASE Thread!DecodeError
    BY <1>14, Zenon DEF Thread!DecodeError, Thread!ThreadFrame, Thread!members, Thread!locals
<1>15. CASE Thread!SkipFrame
    BY <1>15, Zenon DEF Thread!SkipFrame, Thread!ThreadFrame, Thread!members, Thread!locals
<1>16. CASE Thread!ResampleFails
    BY <1>16, Zenon DEF Thread!ResampleFails, Thread!ThreadFrame, Thread!members, Thread!locals
<1>17. CASE Thread!ReceiveFrame
    BY <1>17, Zenon DEF Thread!ReceiveFrame, Thread!ThreadFrame, Thread!members, Thread!locals
<1>18. CASE Thread!ReceiveSound
    BY <1>18, Zenon DEF Thread!ReceiveSound, Thread!ThreadFrame, Thread!members, Thread!locals
<1>19. CASE Thread!processFrameConversion
    BY <1>19, Zenon DEF Thread!processFrameConversion, Thread!ThreadFrame, Thread!members, Thread!locals
<1>20. CASE Thread!WriteFrame
    BY <1>20, Zenon DEF Thread!WriteFrame, Thread!ThreadFrame, Thread!members, Thread!locals
<1> QED BY ZenonT(60), <1>1, <1>2, <1>3, <1>4, <1>5, <1>6, <1>7, <1>8, <1>9, <1>10, <1>11, <1>12,
           <1>13, <1>14, <1>15, <1>16, <1>17, <1>18, <1>19, <1>20 DEF Thread!ThreadStep

\* There is no loop and nothing has been fed.
LEMMA LifeInit == Thread!Init => LifeInv /\ KeyInv
<1> QED BY Zenon DEF Thread!Init, LifeInv, KeyInv, ControllerSteps, Alone, Thread!LoopHasCodec, Fed

\* Every step of the specification, or none.
LEMMA LifeStep == LifeInv /\ KeyInv /\ [Thread!Next]_tVars => LifeInv' /\ KeyInv'
<1> SUFFICES ASSUME LifeInv, KeyInv, [Thread!Next]_tVars PROVE LifeInv' /\ KeyInv'
    OBVIOUS
<1>1. CASE UNCHANGED tVars
    BY <1>1, Zenon DEF tVars, LifeInv, KeyInv, Thread!LoopHasCodec
<1> QED BY Zenon, <1>1, LifeCall, LifeCallStep, LifeEnv, LifeThread,
           KeyCall, KeyCallStep, KeyEnv, KeyThread DEF Thread!Next, OtherThreads

\* The inductive invariants hold of every behaviour.
THEOREM LifeInvariance == Thread!Spec => [](LifeInv /\ KeyInv)
<1> QED BY LifeInit, LifeStep, PTL DEF Thread!Spec, Thread!vars, tVars

\* The decode loop runs only in a decoder that is open and started, and finds
\* codecCtx_ wherever it uses it: the controller frees the codec only when it
\* has joined the loop, and opens another one only then.
THEOREM LoopKeepsCodec == Thread!Spec => []LoopHasCodec
<1>1. LifeInv => LoopHasCodec
    BY Zenon DEF LifeInv, LoopHasCodec
<1> QED BY <1>1, LifeInvariance, PTL

\* A video codec is fed a key frame first, whether it was just opened, flushed
\* for a new serial, or put in the place of a hardware codec.
THEOREM KeyFrameGoesFirst == Thread!Spec => []KeyFrameFirst
<1>1. KeyInv => KeyFrameFirst
    BY Zenon DEF KeyInv, KeyFrameFirst, Thread!KeyFrameFirst, Fed
<1> QED BY <1>1, LifeInvariance, PTL
-----------------------------------------------------------------------------
(* Hardware contexts. *)

Devices == Hardware!Contexts \cup {Hardware!None, Hardware!Default}
DecType ==
    [opened : BOOLEAN, codec : BOOLEAN, device : Devices, accel : Devices, made : 0 .. MaxContexts,
     refs : [Hardware!Contexts -> Nat], queued : [Hardware!Contexts -> Nat],
     taken : [Hardware!Contexts -> Nat],
     freed : [Hardware!Contexts -> Nat]]

\* A type for which the callback's contexts can be used.
Suitable == hConfig.type = "vaapi" \/ hAvail = {"vaapi"}

One(b) == IF b THEN 1 ELSE 0

\* Who has a reference to context c: the accelerator, the codec and the frames.
Holders(d, c) == One(d.accel = c) + One(d.device = c) + d.queued[c] + d.taken[c]

\* What is known of the references to context c.  Without faults (~f) they are
\* those of its holders, and if the type suits (s) none is forgotten.
Accounted(d, c, f, s) ==
    /\ d.freed[c] <= 1 /\ (d.freed[c] = 1 => d.refs[c] = 0)
    /\ d.refs[c] >= Holders(d, c) /\ (~f => d.refs[c] = Holders(d, c))
    /\ c > d.made => d.refs[c] = 0 /\ d.freed[c] = 0
    /\ ~f /\ s /\ c <= d.made => d.refs[c] > 0 \/ d.freed[c] = 1

Sound(d, f, s) == d \in DecType /\ \A c \in Hardware!Contexts : Accounted(d, c, f, s)

\* A decoder that is closed has nothing; one whose open has failed may.
Closed(d, f) ==
    ~f /\ ~d.opened =>
        d.accel = Hardware!None /\ d.device = Hardware!None /\ \A c \in Hardware!Contexts : d.queued[c] = 0

HardwareInv ==
    /\ hFaults \in BOOLEAN
    /\ hConfig.type \in {"kNone", "kAuto", "vaapi", "qsv"} /\ hAvail \in Hardware!getSupportedHWAccelTypes
    /\ Sound(hDec, hFaults, Suitable) /\ Closed(hDec, hFaults)
-----------------------------------------------------------------------------
\* No context is None or Default.
LEMMA NoContext ==
    /\ Hardware!None \notin Hardware!Contexts /\ Hardware!Default \notin Hardware!Contexts
    /\ Hardware!Contexts \subseteq Nat
BY DEF Hardware!None, Hardware!Default, Hardware!Contexts

\* A reference more.
LEMMA RefOne ==
    ASSUME NEW d \in DecType, NEW c \in Hardware!Contexts
    PROVE  LET u == Hardware!Ref(d, c)
           IN  /\ u \in DecType /\ u.refs = [k \in Hardware!Contexts |-> d.refs[k] + One(k = c)]
               /\ u.opened = d.opened /\ u.codec = d.codec /\ u.device = d.device /\ u.freed = d.freed
               /\ u.accel = d.accel /\ u.made = d.made /\ u.queued = d.queued /\ u.taken = d.taken
<1>1. Hardware!Ref(d, c) = [d EXCEPT !.refs[c] = @ + 1]
  BY Zenon DEF Hardware!Ref
<1>2. d.refs \in [Hardware!Contexts -> Nat]
  BY Zenon DEF DecType
<1>3. [d.refs EXCEPT ![c] = @ + 1] = [k \in Hardware!Contexts |-> d.refs[k] + One(k = c)]
  BY <1>2 DEF One
<1>4. [k \in Hardware!Contexts |-> d.refs[k] + One(k = c)] \in [Hardware!Contexts -> Nat]
  BY <1>2 DEF One
<1>5. Hardware!Ref(d, c) = [d EXCEPT !.refs = [k \in Hardware!Contexts |-> d.refs[k] + One(k = c)]]
  BY <1>1, <1>3, Zenon DEF DecType
<1> QED
  BY <1>4, <1>5, Zenon DEF DecType

\* A reference less: with the last one the context is given back.
LEMMA UnrefOne ==
    ASSUME NEW d \in DecType, NEW c \in Hardware!Contexts, d.refs[c] > 0
    PROVE  LET u == Hardware!Unref(d, c)
           IN  /\ u \in DecType
               /\ u.refs = [k \in Hardware!Contexts |-> d.refs[k] - One(k = c)]
               /\ u.freed = [k \in Hardware!Contexts |-> d.freed[k] + One(k = c /\ d.refs[c] = 1)]
               /\ u.opened = d.opened /\ u.codec = d.codec /\ u.device = d.device
               /\ u.accel = d.accel /\ u.made = d.made /\ u.queued = d.queued /\ u.taken = d.taken
<1>2. d.refs \in [Hardware!Contexts -> Nat] /\ d.freed \in [Hardware!Contexts -> Nat]
  BY Zenon DEF DecType
<1>3. [d.refs EXCEPT ![c] = @ - 1] = [k \in Hardware!Contexts |-> d.refs[k] - One(k = c)]
  BY <1>2 DEF One
<1>4. [d.freed EXCEPT ![c] = @ + (IF d.refs[c] = 1 THEN 1 ELSE 0)]
        = [k \in Hardware!Contexts |-> d.freed[k] + One(k = c /\ d.refs[c] = 1)]
  BY <1>2 DEF One
<1>5. [k \in Hardware!Contexts |-> d.refs[k] - One(k = c)] \in [Hardware!Contexts -> Nat]
  BY <1>2 DEF One
<1>6. [k \in Hardware!Contexts |-> d.freed[k] + One(k = c /\ d.refs[c] = 1)] \in [Hardware!Contexts -> Nat]
  BY <1>2 DEF One
<1>7. Hardware!Unref(d, c) = [d EXCEPT !.refs = [k \in Hardware!Contexts |-> d.refs[k] - One(k = c)],
                              !.freed = [k \in Hardware!Contexts |->
                                            d.freed[k] + One(k = c /\ d.refs[c] = 1)]]
  BY <1>3, <1>4, Zenon DEF Hardware!Unref, DecType
<1> QED
  BY <1>5, <1>6, <1>7, Zenon DEF DecType

\* A context that has a holder has a reference.
LEMMA HeldCounts ==
    ASSUME NEW f, NEW s, NEW d, Sound(d, f, s), NEW c \in Hardware!Contexts
    PROVE  /\ Holders(d, c) \in Nat /\ d.refs[c] \in Nat /\ d.freed[c] \in Nat /\ d.made \in Nat
           /\ Holders(d, c) > 0 => d.refs[c] > 0
<1>1. /\ d.refs \in [Hardware!Contexts -> Nat] /\ d.freed \in [Hardware!Contexts -> Nat]
      /\ d.queued \in [Hardware!Contexts -> Nat] /\ d.taken \in [Hardware!Contexts -> Nat] /\ d.made \in Nat
  BY DEF Sound, DecType
<1>2. Holders(d, c) \in Nat
  BY <1>1 DEF Holders, One
<1>3. d.refs[c] >= Holders(d, c)
  BY Zenon DEF Sound, Accounted
<1> QED
  BY <1>1, <1>2, <1>3

\* A decoder with the same holders and references is as sound.
LEMMA SameHolders ==
    ASSUME NEW f, NEW s, NEW d, Sound(d, f, s), NEW r \in DecType, r.made = d.made,
           r.refs = d.refs, r.freed = d.freed, \A c \in Hardware!Contexts : Holders(r, c) = Holders(d, c)
    PROVE  Sound(r, f, s)
BY DEF Sound, Accounted

\* So is one that has lost a holder of context a and its reference.
LEMMA HolderLess ==
    ASSUME NEW f \in BOOLEAN, NEW s \in BOOLEAN, NEW d, Sound(d, f, s), NEW a \in Hardware!Contexts,
           NEW r \in DecType, r.made = d.made, Holders(d, a) > 0,
           r.refs = Hardware!Unref(d, a).refs, r.freed = Hardware!Unref(d, a).freed,
           \A c \in Hardware!Contexts : Holders(r, c) = Holders(d, c) - One(c = a)
    PROVE  Sound(r, f, s)
<1>1. d \in DecType /\ d.refs[a] > 0
  BY HeldCounts, Zenon DEF Sound
<1>2. ASSUME NEW c \in Hardware!Contexts PROVE Accounted(r, c, f, s)
  <2>1. Accounted(d, c, f, s)
    BY Zenon DEF Sound
  <2>2. r.refs = [k \in Hardware!Contexts |-> d.refs[k] - One(k = a)]
        /\ r.freed = [k \in Hardware!Contexts |-> d.freed[k] + One(k = a /\ d.refs[a] = 1)]
    BY <1>1, UnrefOne, Zenon
  <2>3. r.refs[c] = d.refs[c] - One(c = a) /\ r.freed[c] = d.freed[c] + One(c = a /\ d.refs[a] = 1)
    BY <2>2, Zenon
  <2>4. Holders(d, c) \in Nat /\ d.refs[c] \in Nat /\ d.freed[c] \in Nat /\ d.made \in Nat
    BY HeldCounts, Zenon
  <2>5. Holders(r, c) = Holders(d, c) - One(c = a) /\ r.made = d.made /\ c \in Nat
    BY NoContext, Zenon
  <2>6. CASE c # a
    BY <2>1, <2>3, <2>4, <2>5, <2>6 DEF Accounted, One
  <2>7. CASE c = a
    BY <1>1, <2>1, <2>3, <2>4, <2>5, <2>7 DEF Accounted, One
  <2> QED
    BY <2>6, <2>7, Zenon
<1> QED
  BY <1>2, Zenon DEF Sound

\* The accelerator gives its reference back.
LEMMA DropAccel ==
    ASSUME NEW f \in BOOLEAN, NEW s \in BOOLEAN, NEW d, Sound(d, f, s)
    PROVE  LET r == Hardware!removeHardwareDecode(d)
           IN  /\ Sound(r, f, s) /\ r.accel = Hardware!None /\ r.device = d.device
               /\ r.queued = d.queued /\ r.opened = d.opened
<1> DEFINE r == Hardware!removeHardwareDecode(d)
<1>a. d \in DecType /\ Hardware!None \in Devices
  BY Zenon DEF Sound, Devices
<1>b. /\ d.queued \in [Hardware!Contexts -> Nat] /\ d.taken \in [Hardware!Contexts -> Nat]
  BY <1>a, Zenon DEF DecType
<1>1. CASE d.accel \notin Hardware!Contexts
  <2>1. r = [d EXCEPT !.accel = Hardware!None]
    BY <1>1, Zenon DEF Hardware!removeHardwareDecode, Hardware!Unref
  <2>2. /\ r \in DecType /\ r.accel = Hardware!None /\ r.device = d.device /\ r.queued = d.queued
        /\ r.opened = d.opened /\ r.made = d.made /\ r.refs = d.refs /\ r.freed = d.freed
        /\ r.taken = d.taken
    BY <1>a, <2>1, Zenon DEF DecType
  <2>3. \A c \in Hardware!Contexts : Holders(r, c) = Holders(d, c)
    BY <1>1, <2>2, NoContext, Zenon DEF Holders
  <2> QED
    BY <2>2, <2>3, SameHolders, Zenon
<1>2. CASE d.accel \in Hardware!Contexts
  <2> DEFINE a == d.accel
             u == Hardware!Unref(d, a)
  <2>1. Holders(d, a) > 0
    BY <1>2, <1>b DEF Holders, One
  <2>2. d.refs[a] > 0
    BY <1>2, <2>1, HeldCounts, Zenon
  <2>3. /\ u \in DecType /\ u.accel = d.accel /\ u.device = d.device /\ u.queued = d.queued
        /\ u.opened = d.opened /\ u.made = d.made /\ u.taken = d.taken
    BY <1>a, <1>2, <2>2, UnrefOne, Zenon
  <2>4. r = [u EXCEPT !.accel = Hardware!None]
    BY Zenon DEF Hardware!removeHardwareDecode
  <2> HIDE DEF u, r
  <2>5. /\ r \in DecType /\ r.accel = Hardware!None /\ r.device = d.device /\ r.queued = d.queued
        /\ r.opened = d.opened /\ r.made = d.made /\ r.taken = d.taken
        /\ r.refs = u.refs /\ r.freed = u.freed
    BY <1>a, <2>3, <2>4, Zenon DEF DecType
  <2>6. ASSUME NEW c \in Hardware!Contexts
        PROVE  Holders(r, c) = Holders(d, c) - One(c = a)
    <3>1. One(r.accel = c) = 0 /\ One(d.accel = c) = One(c = a)
      BY <2>5, NoContext, Zenon DEF One
    <3>2. d.queued[c] \in Nat /\ d.taken[c] \in Nat /\ One(d.device = c) \in Nat
          /\ One(c = a) \in Nat
      BY <1>b, Zenon DEF One
    <3> QED
      BY <2>5, <3>1, <3>2 DEF Holders
  <2>7. Sound(r, f, s)
    BY <1>2, <2>1, <2>5, <2>6, HolderLess DEF u
  <2> QED
    BY <2>5, <2>7, Zenon DEF r
<1> QED
  BY <1>1, <1>2, Zenon

\* So does the codec.
LEMMA DropDevice ==
    ASSUME NEW f \in BOOLEAN, NEW s \in BOOLEAN, NEW d, Sound(d, f, s)
    PROVE  LET r == Hardware!FreeCodec(d)
           IN  /\ Sound(r, f, s) /\ r.device = Hardware!None /\ r.accel = d.accel
               /\ r.queued = d.queued /\ r.opened = d.opened
<1> DEFINE r == Hardware!FreeCodec(d)
<1>a. d \in DecType /\ Hardware!None \in Devices
  BY Zenon DEF Sound, Devices
<1>b. /\ d.queued \in [Hardware!Contexts -> Nat] /\ d.taken \in [Hardware!Contexts -> Nat]
  BY <1>a, Zenon DEF DecType
<1>1. CASE d.device \notin Hardware!Contexts
  <2>1. r = [d EXCEPT !.codec = FALSE, !.device = Hardware!None]
    BY <1>1, Zenon DEF Hardware!FreeCodec, Hardware!Unref
  <2>2. /\ r \in DecType /\ r.device = Hardware!None /\ r.accel = d.accel /\ r.queued = d.queued
        /\ r.opened = d.opened /\ r.made = d.made /\ r.refs = d.refs /\ r.freed = d.freed
        /\ r.taken = d.taken
    BY <1>a, <2>1, Zenon DEF DecType
  <2>3. \A c \in Hardware!Contexts : Holders(r, c) = Holders(d, c)
    BY <1>1, <2>2, NoContext, Zenon DEF Holders
  <2> QED
    BY <2>2, <2>3, SameHolders, Zenon
<1>2. CASE d.device \in Hardware!Contexts
  <2> DEFINE a == d.device
             u == Hardware!Unref(d, a)
  <2>1. Holders(d, a) > 0
    BY <1>2, <1>b DEF Holders, One
  <2>2. d.refs[a] > 0
    BY <1>2, <2>1, HeldCounts, Zenon
  <2>3. /\ u \in DecType /\ u.device = d.device /\ u.accel = d.accel /\ u.queued = d.queued
        /\ u.opened = d.opened /\ u.made = d.made /\ u.taken = d.taken
    BY <1>a, <1>2, <2>2, UnrefOne, Zenon
  <2>4. r = [u EXCEPT !.codec = FALSE, !.device = Hardware!None]
    BY Zenon DEF Hardware!FreeCodec
  <2> HIDE DEF u, r
  <2>5. /\ r \in DecType /\ r.device = Hardware!None /\ r.accel = d.accel /\ r.queued = d.queued
        /\ r.opened = d.opened /\ r.made = d.made /\ r.taken = d.taken
        /\ r.refs = u.refs /\ r.freed = u.freed
    BY <1>a, <2>3, <2>4, Zenon DEF DecType
  <2>6. ASSUME NEW c \in Hardware!Contexts
        PROVE  Holders(r, c) = Holders(d, c) - One(c = a)
    <3>1. One(r.device = c) = 0 /\ One(d.device = c) = One(c = a)
      BY <2>5, NoContext, Zenon DEF One
    <3>2. d.queued[c] \in Nat /\ d.taken[c] \in Nat /\ One(d.accel = c) \in Nat
          /\ One(c = a) \in Nat
      BY <1>b, Zenon DEF One
    <3> QED
      BY <2>5, <3>1, <3>2 DEF Holders
  <2>7. Sound(r, f, s)
    BY <1>2, <2>1, <2>5, <2>6, HolderLess DEF u
  <2> QED
    BY <2>5, <2>7, Zenon DEF r
<1> QED
  BY <1>1, <1>2, Zenon

\* A decoder that has one more holder of a context in use, and its reference, is
\* as sound.
LEMMA HolderMore ==
    ASSUME NEW f \in BOOLEAN, NEW s \in BOOLEAN, NEW d, Sound(d, f, s), NEW a \in Hardware!Contexts,
           NEW r \in DecType, r.made = d.made, Holders(d, a) > 0,
           r.refs = Hardware!Ref(d, a).refs, r.freed = d.freed,
           \A c \in Hardware!Contexts : Holders(r, c) = Holders(d, c) + One(c = a)
    PROVE  Sound(r, f, s)
<1>1. d \in DecType /\ d.refs[a] > 0
  BY HeldCounts, Zenon DEF Sound
<1>2. ASSUME NEW c \in Hardware!Contexts PROVE Accounted(r, c, f, s)
  <2>1. Accounted(d, c, f, s)
    BY Zenon DEF Sound
  <2>2. r.refs = [k \in Hardware!Contexts |-> d.refs[k] + One(k = a)]
    BY <1>1, RefOne, Zenon
  <2>3. r.refs[c] = d.refs[c] + One(c = a)
    BY <2>2, Zenon
  <2>4. Holders(d, c) \in Nat /\ d.refs[c] \in Nat /\ d.freed[c] \in Nat /\ d.made \in Nat
    BY HeldCounts, Zenon
  <2>5. Holders(r, c) = Holders(d, c) + One(c = a) /\ r.made = d.made /\ c \in Nat
    BY NoContext, Zenon
  <2>6. CASE c # a
    BY <2>1, <2>3, <2>4, <2>5, <2>6 DEF Accounted, One
  <2>7. CASE c = a
    BY <1>1, <2>1, <2>3, <2>4, <2>5, <2>7 DEF Accounted, One
  <2> QED
    BY <2>6, <2>7, Zenon
<1> QED
  BY <1>2, Zenon DEF Sound

\* The frames in the queue give their references back.
LEMMA DropQueue ==
    ASSUME NEW f \in BOOLEAN, NEW s \in BOOLEAN, NEW d, Sound(d, f, s)
    PROVE  LET r == Hardware!ClearQueue(d)
           IN  /\ Sound(r, f, s) /\ r.device = d.device /\ r.accel = d.accel /\ r.opened = d.opened
               /\ \A c \in Hardware!Contexts : r.queued[c] = 0
<1> DEFINE r == Hardware!ClearQueue(d)
           refs == [c \in Hardware!Contexts |-> d.refs[c] - d.queued[c]]
           freed == [c \in Hardware!Contexts |->
                        d.freed[c] + (IF d.queued[c] > 0 /\ d.refs[c] = d.queued[c] THEN 1 ELSE 0)]
           none == [c \in Hardware!Contexts |-> 0]
<1>a. /\ d \in DecType /\ d.refs \in [Hardware!Contexts -> Nat] /\ d.freed \in [Hardware!Contexts -> Nat]
      /\ d.queued \in [Hardware!Contexts -> Nat] /\ d.taken \in [Hardware!Contexts -> Nat]
  BY Zenon DEF Sound, DecType
<1>1. ASSUME NEW c \in Hardware!Contexts
      PROVE  /\ d.refs[c] \in Nat /\ d.freed[c] \in Nat /\ d.made \in Nat /\ d.queued[c] \in Nat
             /\ d.taken[c] \in Nat /\ c \in Nat /\ Holders(d, c) >= d.queued[c]
             /\ Accounted(d, c, f, s) /\ Holders(d, c) \in Nat
  <2>1. Holders(d, c) >= d.queued[c]
    BY <1>a DEF Holders, One
  <2> QED
    BY <1>a, <2>1, HeldCounts, NoContext, Zenon DEF Sound
<1>2. refs \in [Hardware!Contexts -> Nat]
  <2>1. \A c \in Hardware!Contexts : d.refs[c] - d.queued[c] \in Nat
    BY <1>1 DEF Accounted
  <2> QED
    BY <2>1, Zenon
<1>3. freed \in [Hardware!Contexts -> Nat] /\ none \in [Hardware!Contexts -> Nat]
  BY <1>a
<1>4. r = [d EXCEPT !.refs = refs, !.freed = freed, !.queued = none]
  BY Zenon DEF Hardware!ClearQueue
<1> HIDE DEF refs, freed, none, r
<1>5. /\ r \in DecType /\ r.device = d.device /\ r.accel = d.accel /\ r.opened = d.opened
      /\ r.taken = d.taken /\ r.made = d.made /\ r.refs = refs /\ r.freed = freed /\ r.queued = none
  BY <1>a, <1>2, <1>3, <1>4, Zenon DEF DecType
<1>6. ASSUME NEW c \in Hardware!Contexts PROVE Accounted(r, c, f, s) /\ r.queued[c] = 0
  <2>1. /\ r.refs[c] = d.refs[c] - d.queued[c] /\ r.queued[c] = 0
        /\ r.freed[c] = d.freed[c] + (IF d.queued[c] > 0 /\ d.refs[c] = d.queued[c] THEN 1 ELSE 0)
    BY <1>5, Zenon DEF refs, freed, none
  <2>2. Holders(r, c) = Holders(d, c) - d.queued[c]
    BY <1>1, <1>5, <2>1 DEF Holders, One
  <2>3. CASE d.queued[c] = 0
    BY <1>1, <1>5, <2>1, <2>2, <2>3 DEF Accounted
  <2>4. CASE d.queued[c] > 0
    BY <1>1, <1>5, <2>1, <2>2, <2>4 DEF Accounted
  <2> QED
    BY <1>1, <2>3, <2>4
<1> QED
  BY <1>5, <1>6, Zenon DEF Sound, r

\* closeInternal leaves nothing behind.
LEMMA CloseAll ==
    ASSUME NEW f \in BOOLEAN, NEW s \in BOOLEAN, NEW d, Sound(d, f, s), d.opened
    PROVE  LET r == Hardware!closeInternal(d)
           IN  /\ Sound(r, f, s) /\ ~r.opened /\ r.accel = Hardware!None /\ r.device = Hardware!None
               /\ \A c \in Hardware!Contexts : r.queued[c] = 0
<1> DEFINE d1 == Hardware!FreeCodec(d)
           d2 == Hardware!ClearQueue(d1)
           d3 == Hardware!removeHardwareDecode(d2)
           r == Hardware!closeInternal(d)
<1>1. Sound(d1, f, s) /\ d1.device = Hardware!None
  BY DropDevice, Zenon
<1>2. Sound(d2, f, s) /\ d2.device = Hardware!None /\ \A c \in Hardware!Contexts : d2.queued[c] = 0
  <2> HIDE DEF d1
  <2> QED
    BY <1>1, DropQueue
<1>3. /\ Sound(d3, f, s) /\ d3.device = Hardware!None /\ d3.accel = Hardware!None
      /\ \A c \in Hardware!Contexts : d3.queued[c] = 0
  <2> HIDE DEF d2
  <2> QED
    BY <1>2, DropAccel
<1>4. r = [d3 EXCEPT !.opened = FALSE]
  BY Zenon DEF Hardware!closeInternal
<1> HIDE DEF d3, r
<1>5. /\ r \in DecType /\ r.refs = d3.refs /\ r.freed = d3.freed /\ r.made = d3.made /\ ~r.opened
      /\ r.accel = d3.accel /\ r.device = d3.device /\ r.queued = d3.queued /\ r.taken = d3.taken
  BY <1>3, <1>4, Zenon DEF Sound, DecType
<1>6. Sound(r, f, s)
  BY <1>3, <1>5, SameHolders, Zenon DEF Holders
<1> QED
  BY <1>3, <1>5, <1>6, Zenon DEF r

\* A device of FFmpeg's own has no references to count.
LEMMA OwnDevice ==
    ASSUME NEW f \in BOOLEAN, NEW s \in BOOLEAN, NEW d, Sound(d, f, s), d.accel = Hardware!None,
           NEW r \in Hardware!DefaultDevice(d)
    PROVE  Sound(r, f, s) /\ r.device = d.device
<1>1. CASE r = d
  BY <1>1, Zenon
<1>2. CASE r = [d EXCEPT !.accel = Hardware!Default]
  <2>1. /\ r \in DecType /\ r.refs = d.refs /\ r.freed = d.freed /\ r.made = d.made
        /\ r.accel = Hardware!Default /\ r.device = d.device /\ r.queued = d.queued /\ r.taken = d.taken
    BY <1>2, Zenon DEF Sound, DecType, Devices
  <2>2. \A c \in Hardware!Contexts : Holders(r, c) = Holders(d, c)
    BY <2>1, NoContext, Zenon DEF Holders
  <2> QED
    BY <2>1, <2>2, SameHolders, Zenon
<1> QED
  BY <1>1, <1>2, Zenon DEF Hardware!DefaultDevice

\* The next context of the callback, of which the accelerator makes its device,
\* which goes back at once, or which nobody has.
LEMMA NextContext ==
    ASSUME NEW f \in BOOLEAN, NEW s \in BOOLEAN, NEW d, Sound(d, f, s), d.accel = Hardware!None,
           d.made < MaxContexts, MaxContexts \in Nat
    PROVE  LET c == d.made + 1
               m == [d EXCEPT !.made = c]
               a == [m EXCEPT !.accel = c, !.refs[c] = 1]
               b == [m EXCEPT !.freed[c] = 1]
           IN  /\ Sound(a, f, s) /\ a.device = d.device
               /\ Sound(b, f, s) /\ b.device = d.device /\ b.accel = Hardware!None
               /\ f \/ ~s => Sound(m, f, s) /\ m.device = d.device /\ m.accel = Hardware!None
<1> DEFINE c == d.made + 1
           m == [d EXCEPT !.made = c]
           a == [m EXCEPT !.accel = c, !.refs[c] = 1]
           b == [m EXCEPT !.freed[c] = 1]
<1>1. /\ d \in DecType /\ d.refs \in [Hardware!Contexts -> Nat] /\ d.freed \in [Hardware!Contexts -> Nat]
      /\ d.queued \in [Hardware!Contexts -> Nat] /\ d.taken \in [Hardware!Contexts -> Nat] /\ d.made \in Nat
  BY DEF Sound, DecType
<1>2. c \in Hardware!Contexts /\ c \in 0 .. MaxContexts /\ c \in Devices /\ c > d.made
  <2>1. c \in Nat /\ c > d.made /\ 1 <= c /\ c <= MaxContexts
    BY <1>1
  <2>2. c \in Hardware!Contexts /\ c \in 0 .. MaxContexts
    BY <2>1 DEF Hardware!Contexts
  <2> QED
    BY <2>1, <2>2, Zenon DEF Devices
<1>3. d.refs[c] = 0 /\ d.freed[c] = 0 /\ Holders(d, c) = 0
  <2>1. d.refs[c] = 0 /\ d.freed[c] = 0
    BY <1>2, Zenon DEF Sound, Accounted
  <2>2. Holders(d, c) \in Nat /\ d.refs[c] >= Holders(d, c)
    BY <1>2, HeldCounts, Zenon DEF Sound, Accounted
  <2> QED
    BY <2>1, <2>2
<1>4. /\ m \in DecType /\ m.made = c /\ m.refs = d.refs /\ m.freed = d.freed /\ m.accel = Hardware!None
      /\ m.device = d.device /\ m.queued = d.queued /\ m.taken = d.taken
  BY <1>1, <1>2, Zenon DEF DecType
<1>5. /\ [m.refs EXCEPT ![c] = 1] \in [Hardware!Contexts -> Nat]
      /\ [m.freed EXCEPT ![c] = 1] \in [Hardware!Contexts -> Nat]
  BY <1>1, <1>2, <1>4, Zenon
<1>6. a = [m EXCEPT !.accel = c, !.refs = [m.refs EXCEPT ![c] = 1]]
      /\ b = [m EXCEPT !.freed = [m.freed EXCEPT ![c] = 1]]
  BY <1>4, Zenon DEF DecType
<1> HIDE DEF m, a, b
<1>7. /\ a \in DecType /\ a.made = c /\ a.freed = d.freed /\ a.accel = c /\ a.device = d.device
      /\ a.queued = d.queued /\ a.taken = d.taken /\ a.refs = [d.refs EXCEPT ![c] = 1]
  BY <1>2, <1>4, <1>5, <1>6, Zenon DEF DecType
<1>8. /\ b \in DecType /\ b.made = c /\ b.refs = d.refs /\ b.accel = Hardware!None /\ b.device = d.device
      /\ b.queued = d.queued /\ b.taken = d.taken /\ b.freed = [d.freed EXCEPT ![c] = 1]
  BY <1>4, <1>5, <1>6, Zenon DEF DecType
<1>9. ASSUME NEW k \in Hardware!Contexts
      PROVE  /\ Accounted(d, k, f, s) /\ k \in Nat
             /\ (k > c => k > d.made) /\ (k # c /\ k <= c => k <= d.made)
             /\ Holders(d, k) \in Nat /\ d.refs[k] \in Nat /\ d.freed[k] \in Nat
             /\ Holders(m, k) = Holders(d, k) /\ Holders(b, k) = Holders(d, k)
             /\ Holders(a, k) = Holders(d, k) + One(k = c)
  <2>1. Holders(m, k) = Holders(d, k) /\ Holders(b, k) = Holders(d, k)
    BY <1>4, <1>8, Zenon DEF Holders
  <2>2. Holders(a, k) = Holders(d, k) + One(k = c)
    BY <1>1, <1>2, <1>7, NoContext DEF Holders, One
  <2>3. Holders(d, k) \in Nat /\ d.refs[k] \in Nat /\ d.freed[k] \in Nat
    BY HeldCounts, Zenon
  <2>4. Accounted(d, k, f, s) /\ k \in Nat
    BY NoContext, Zenon DEF Sound
  <2>5. (k > c => k > d.made) /\ (k # c /\ k <= c => k <= d.made)
    BY <1>1, <2>4
  <2> QED
    BY <2>1, <2>2, <2>3, <2>4, <2>5, Zenon
<1>10. ASSUME NEW k \in Hardware!Contexts PROVE Accounted(a, k, f, s)
  <2>1. CASE k = c
    BY <1>1, <1>2, <1>3, <1>7, <1>9, <2>1 DEF Accounted, One
  <2>2. CASE k # c
    BY <1>1, <1>7, <1>9, <2>2 DEF Accounted, One
  <2> QED
    BY <2>1, <2>2, Zenon
<1>11. ASSUME NEW k \in Hardware!Contexts PROVE Accounted(b, k, f, s)
  <2>1. CASE k = c
    BY <1>1, <1>2, <1>3, <1>8, <1>9, <2>1 DEF Accounted
  <2>2. CASE k # c
    BY <1>1, <1>8, <1>9, <2>2 DEF Accounted
  <2> QED
    BY <2>1, <2>2, Zenon
<1>12. ASSUME NEW k \in Hardware!Contexts, f \/ ~s PROVE Accounted(m, k, f, s)
  BY <1>4, <1>9, <1>12, Zenon DEF Accounted
<1> QED
  BY <1>4, <1>7, <1>8, <1>10, <1>11, <1>12, Zenon DEF Sound, m, a, b

\* setupDecoder gives the codec a reference, or takes the accelerator's away.
LEMMA SetUp ==
    ASSUME hFaults \in BOOLEAN, NEW s \in BOOLEAN, NEW d, Sound(d, hFaults, s), d.device = Hardware!None,
           d.accel # Hardware!None, NEW r \in Hardware!setupDecoder(d)
    PROVE  Sound(r, hFaults, s)
<1> DEFINE u == Hardware!Ref(d, d.accel)
<1>a. /\ d \in DecType /\ d.accel \in Devices /\ d.queued \in [Hardware!Contexts -> Nat]
      /\ d.taken \in [Hardware!Contexts -> Nat]
  BY Zenon DEF Sound, DecType
<1>1. CASE r = [u EXCEPT !.device = d.accel]
  <2>1. CASE d.accel \notin Hardware!Contexts
    <3>1. /\ r \in DecType /\ r.refs = d.refs /\ r.freed = d.freed /\ r.made = d.made
          /\ r.accel = d.accel /\ r.device = d.accel /\ r.queued = d.queued /\ r.taken = d.taken
      BY <1>a, <1>1, <2>1, Zenon DEF Hardware!Ref, DecType
    <3>2. \A c \in Hardware!Contexts : Holders(r, c) = Holders(d, c)
      BY <2>1, <3>1, NoContext, Zenon DEF Holders
    <3> QED
      BY <3>1, <3>2, SameHolders, Zenon
  <2>2. CASE d.accel \in Hardware!Contexts
    <3>1. /\ u \in DecType /\ u.freed = d.freed /\ u.made = d.made /\ u.accel = d.accel
          /\ u.queued = d.queued /\ u.taken = d.taken
      BY <1>a, <2>2, RefOne, Zenon
    <3> HIDE DEF u
    <3>2. /\ r \in DecType /\ r.refs = u.refs /\ r.freed = d.freed /\ r.made = d.made
          /\ r.accel = d.accel /\ r.device = d.accel /\ r.queued = d.queued /\ r.taken = d.taken
      BY <1>a, <1>1, <3>1, Zenon DEF DecType
    <3>3. ASSUME NEW c \in Hardware!Contexts PROVE Holders(r, c) = Holders(d, c) + One(c = d.accel)
      <4>1. One(d.device = c) = 0 /\ One(r.device = c) = One(c = d.accel)
        BY <3>2, NoContext, Zenon DEF One
      <4>2. d.queued[c] \in Nat /\ d.taken[c] \in Nat /\ One(d.accel = c) \in Nat
            /\ One(c = d.accel) \in Nat
        BY <1>a, Zenon DEF One
      <4> QED
        BY <3>2, <4>1, <4>2 DEF Holders
    <3>4. Holders(d, d.accel) > 0
      BY <1>a, <2>2 DEF Holders, One
    <3> QED
      BY <2>2, <3>2, <3>3, <3>4, HolderMore DEF u
  <2> QED
    BY <2>1, <2>2, Zenon
<1>2. CASE r = Hardware!removeHardwareDecode(d)
  BY <1>2, DropAccel, Zenon
<1> QED
  BY <1>1, <1>2, Zenon DEF Hardware!setupDecoder

\* The type of the accelerator that is made, if the machine suits the callback.
LEMMA BestType ==
    ASSUME hAvail = {"vaapi"}, Hardware!findBestHWAccelType # "none"
    PROVE  Hardware!findBestHWAccelType = "vaapi"
<1> DEFINE found == {i \in DOMAIN Hardware!Priority : Hardware!isAvailableHWAccelType(Hardware!Priority[i])}
<1>1. \A i \in found : Hardware!Priority[i] = "vaapi"
  BY Zenon DEF Hardware!isAvailableHWAccelType
<1>2. found # {}
  BY Zenon DEF Hardware!findBestHWAccelType
<1>3. (CHOOSE i \in found : \A j \in found : i <= j) \in found
  <2>1. /\ DOMAIN Hardware!Priority = 1 .. 5 /\ Hardware!Priority[5] = "vaapi"
        /\ Hardware!Priority[1] # "vaapi"
        /\ Hardware!Priority[2] # "vaapi" /\ Hardware!Priority[3] # "vaapi"
        /\ Hardware!Priority[4] # "vaapi"
    BY DEF Hardware!Priority
  <2>2. found = {5}
    BY <2>1 DEF Hardware!isAvailableHWAccelType
  <2> QED
    BY <2>2
<1> QED
  BY <1>1, <1>2, <1>3, Zenon DEF Hardware!findBestHWAccelType

\* Making an accelerator keeps the account.
LEMMA MakeDevice ==
    ASSUME hFaults \in BOOLEAN, MaxContexts \in Nat, NEW s \in BOOLEAN, NEW d, Sound(d, hFaults, s),
           d.accel = Hardware!None, NEW t, s => t = "vaapi", NEW r \in Hardware!initHWDevice(d, t)
    PROVE  Sound(r, hFaults, s) /\ r.device = d.device
<1> DEFINE c == d.made + 1
           m == [d EXCEPT !.made = c]
           a == [m EXCEPT !.accel = c, !.refs[c] = 1]
           b == [m EXCEPT !.freed[c] = 1]
<1>1. CASE r \in Hardware!DefaultDevice(d)
  BY <1>1, OwnDevice, Zenon
<1>2. CASE d.made < MaxContexts /\ r \in Hardware!createHWDeviceFromUserContext(d, t)
  <2>1. /\ Sound(a, hFaults, s) /\ a.device = d.device
        /\ Sound(b, hFaults, s) /\ b.device = d.device /\ b.accel = Hardware!None
        /\ hFaults \/ ~s => Sound(m, hFaults, s) /\ m.device = d.device /\ m.accel = Hardware!None
    BY <1>2, NextContext, Zenon
  <2>2. \/ r = a \/ r \in Hardware!DefaultDevice(b)
        \/ (hFaults \/ ~s) /\ r \in Hardware!DefaultDevice(m)
    BY <1>2, Zenon DEF Hardware!createHWDeviceFromUserContext, Hardware!UserTypes
  <2> HIDE DEF m, a, b
  <2> QED
    BY <2>1, <2>2, OwnDevice
<1> QED
  BY <1>1, <1>2, Zenon DEF Hardware!initHWDevice

\* An accelerator that init makes is accounted for, and the codec keeps its device.
LEMMA MakeAccel ==
    ASSUME hFaults \in BOOLEAN, MaxContexts \in Nat, NEW d, Sound(d, hFaults, Suitable),
           d.accel = Hardware!None, NEW r \in Hardware!init(d),
           hConfig.type \in {"kNone", "kAuto", "vaapi", "qsv"}
    PROVE  Sound(r, hFaults, Suitable) /\ r.device = d.device
<1>0. Suitable \in BOOLEAN
  BY Zenon DEF Suitable
<1>1. CASE r = d
  BY <1>1, Zenon
<1>2. CASE /\ hConfig.type = "kAuto" /\ Hardware!findBestHWAccelType # "none"
           /\ r \in Hardware!initHWDevice(d, Hardware!findBestHWAccelType)
  <2>1. Suitable => Hardware!findBestHWAccelType = "vaapi"
    BY <1>2, BestType, Zenon DEF Suitable
  <2> QED
    BY <1>0, <1>2, <2>1, MakeDevice, Zenon
<1>3. CASE /\ hConfig.type \in {"vaapi", "qsv"} /\ Hardware!isAvailableHWAccelType(hConfig.type)
           /\ r \in Hardware!initHWDevice(d, hConfig.type)
  <2>1. Suitable => hConfig.type = "vaapi"
    BY <1>3, Zenon DEF Suitable, Hardware!isAvailableHWAccelType
  <2> QED
    BY <1>0, <1>3, <2>1, MakeDevice, Zenon
<1> QED
  BY <1>1, <1>2, <1>3, Zenon DEF Hardware!init

\* Whatever becomes of an open, the account is kept; without faults it succeeds.
LEMMA OpenStep ==
    ASSUME HardwareInv, MaxContexts \in Nat, NEW r \in Hardware!openInternal(hDec)
    PROVE  Sound(r, hFaults, Suitable) /\ Closed(r, hFaults)
<1> DEFINE k == Hardware!closeInternal(hDec)
           e == [k EXCEPT !.codec = TRUE, !.device = Hardware!None]
           q == Hardware!removeHardwareDecode(e)
<1>0. Suitable \in BOOLEAN /\ hFaults \in BOOLEAN /\ Sound(hDec, hFaults, Suitable)
  BY Zenon DEF Suitable, HardwareInv
<1>1. Sound(k, hFaults, Suitable) /\ (k.device = Hardware!None \/ hFaults)
  <2>1. CASE hDec.opened
    BY <1>0, <2>1, CloseAll, Zenon
  <2>2. CASE ~hDec.opened
    BY <1>0, <2>2, Zenon DEF Hardware!closeInternal, HardwareInv, Closed
  <2> QED
    BY <2>1, <2>2, Zenon
<1> HIDE DEF k
<1>2. /\ e \in DecType /\ e.refs = k.refs /\ e.freed = k.freed /\ e.made = k.made
      /\ e.accel = k.accel /\ e.device = Hardware!None /\ e.queued = k.queued /\ e.taken = k.taken
  BY <1>1, Zenon DEF Sound, DecType, Devices
<1> HIDE DEF e
<1>3. Sound(e, hFaults, Suitable)
  <2>1. CASE k.device = Hardware!None
    BY <1>1, <1>2, <2>1, SameHolders, Zenon DEF Holders
  <2>2. CASE hFaults
    <3>1. ASSUME NEW c \in Hardware!Contexts PROVE Accounted(e, c, hFaults, Suitable)
      <4>1. Accounted(k, c, hFaults, Suitable) /\ Holders(k, c) \in Nat /\ k.refs[c] \in Nat
        BY <1>1, HeldCounts, Zenon DEF Sound
      <4>2. /\ k.queued \in [Hardware!Contexts -> Nat] /\ k.taken \in [Hardware!Contexts -> Nat]
        BY <1>1, Zenon DEF Sound, DecType
      <4>3. Holders(e, c) <= Holders(k, c) /\ Holders(e, c) \in Nat
        BY <1>2, <4>2, NoContext DEF Holders, One
      <4> QED
        BY <1>2, <2>2, <4>1, <4>3 DEF Accounted
    <3> QED
      BY <1>2, <3>1, Zenon DEF Sound
  <2> QED
    BY <1>1, <2>1, <2>2, Zenon
<1>4. Sound(q, hFaults, Suitable) /\ q.accel = Hardware!None /\ q.device = Hardware!None
  BY <1>0, <1>2, <1>3, DropAccel, Zenon
<1> HIDE DEF q
<1>5. ASSUME NEW x \in Hardware!setupHardwareDecode(e) PROVE Sound(x, hFaults, Suitable)
  <2>1. PICK a \in Hardware!init(q) :
          x \in (IF a.accel = Hardware!None THEN {a} ELSE Hardware!setupDecoder(a))
    BY <1>5, Zenon DEF Hardware!setupHardwareDecode, q
  <2>2. Sound(a, hFaults, Suitable) /\ a.device = Hardware!None
    BY <1>0, <1>4, <2>1, MakeAccel, Zenon DEF HardwareInv
  <2> QED
    BY <1>0, <2>1, <2>2, SetUp, Zenon
<1>6. CASE \E x \in Hardware!setupHardwareDecode(e) : r = [x EXCEPT !.opened = TRUE]
  <2>1. PICK x \in Hardware!setupHardwareDecode(e) : r = [x EXCEPT !.opened = TRUE]
    BY <1>6, Zenon
  <2>2. Sound(x, hFaults, Suitable)
    BY <1>5, Zenon
  <2>3. /\ r \in DecType /\ r.refs = x.refs /\ r.freed = x.freed /\ r.made = x.made /\ r.opened
        /\ r.accel = x.accel /\ r.device = x.device /\ r.queued = x.queued /\ r.taken = x.taken
    BY <2>1, <2>2, Zenon DEF Sound, DecType
  <2> QED
    BY <2>2, <2>3, SameHolders, Zenon DEF Holders, Closed
<1>7. CASE hFaults /\ (r \in Hardware!setupHardwareDecode(e) \/ r = e)
  BY <1>3, <1>5, <1>7, Zenon DEF Closed
<1> QED
  BY <1>6, <1>7, Zenon DEF Hardware!openInternal, k, e

\* Every step keeps the account.
LEMMA HardwareStep == HardwareInv /\ MaxContexts \in Nat /\ [Hardware!Next]_hVars => HardwareInv'
<1> SUFFICES ASSUME HardwareInv, MaxContexts \in Nat, [Hardware!Next]_hVars PROVE HardwareInv'
  OBVIOUS
<1>0. /\ Suitable \in BOOLEAN /\ hFaults \in BOOLEAN /\ Sound(hDec, hFaults, Suitable)
      /\ Closed(hDec, hFaults)
  BY Zenon DEF Suitable, HardwareInv
<1>a. /\ hDec \in DecType /\ hDec.queued \in [Hardware!Contexts -> Nat]
      /\ hDec.taken \in [Hardware!Contexts -> Nat]
      /\ hDec.accel \in Devices /\ hDec.device \in Devices
  BY <1>0, Zenon DEF Sound, DecType
<1>1. UNCHANGED <<hConfig, hAvail, hFaults>>
  BY Zenon DEF Hardware!Next, Hardware!open, Hardware!close, Hardware!decode, Hardware!takeFrame,
     Hardware!releaseFrame, Hardware!fallBack, hVars
<1>2. SUFFICES Sound(hDec', hFaults, Suitable) /\ Closed(hDec', hFaults)
  BY <1>1, Zenon DEF HardwareInv, Suitable
<1>3. CASE Hardware!open
  BY <1>3, OpenStep, Zenon DEF Hardware!open
<1>4. CASE Hardware!close
  BY <1>0, <1>4, CloseAll DEF Hardware!close, Closed
<1>5. CASE Hardware!decode
  <2>1. hDec.opened /\ hDec.device \in Hardware!Contexts /\ hDec' = Hardware!processFrameConversion(hDec)
    BY <1>5, Zenon DEF Hardware!decode
  <2>2. CASE hDec' = hDec
    BY <1>0, <2>2, Zenon
  <2>3. CASE hDec' = [Hardware!Ref(hDec, hDec.device) EXCEPT !.queued[hDec.device] = @ + 1]
    <3> DEFINE u == Hardware!Ref(hDec, hDec.device)
               n == [u.queued EXCEPT ![hDec.device] = @ + 1]
    <3>1. /\ u \in DecType /\ u.opened = hDec.opened /\ u.device = hDec.device /\ u.freed = hDec.freed
          /\ u.accel = hDec.accel /\ u.made = hDec.made /\ u.queued = hDec.queued /\ u.taken = hDec.taken
      BY <1>a, <2>1, RefOne, Zenon
    <3>2. hDec' = [u EXCEPT !.queued = n] /\ n \in [Hardware!Contexts -> Nat]
          /\ \A c \in Hardware!Contexts : n[c] = hDec.queued[c] + One(c = hDec.device)
      BY <1>a, <2>1, <2>3, <3>1 DEF DecType, One
    <3> HIDE DEF u, n
    <3>3. /\ hDec' \in DecType /\ hDec'.refs = u.refs /\ hDec'.freed = hDec.freed /\ hDec'.made = hDec.made
          /\ hDec'.accel = hDec.accel /\ hDec'.device = hDec.device /\ hDec'.queued = n
          /\ hDec'.taken = hDec.taken /\ hDec'.opened
      BY <2>1, <3>1, <3>2, Zenon DEF DecType
    <3>4. ASSUME NEW c \in Hardware!Contexts
          PROVE  Holders(hDec', c) = Holders(hDec, c) + One(c = hDec.device)
      BY <1>a, <3>2, <3>3 DEF Holders, One
    <3>5. Holders(hDec, hDec.device) > 0
      BY <1>a, <2>1 DEF Holders, One
    <3>6. Sound(hDec', hFaults, Suitable)
      BY <1>0, <2>1, <3>3, <3>4, <3>5, HolderMore DEF u
    <3> QED
      BY <3>3, <3>6, Zenon DEF Closed
  <2> QED
    BY <2>1, <2>2, <2>3, Zenon DEF Hardware!processFrameConversion
<1>6. CASE Hardware!takeFrame
  <2>1. PICK c \in Hardware!Contexts :
          /\ hDec.queued[c] > 0
          /\ hDec' = [hDec EXCEPT !.queued[c] = @ - 1, !.taken[c] = @ + 1]
    BY <1>6, Zenon DEF Hardware!takeFrame
  <2> DEFINE n == [hDec.queued EXCEPT ![c] = @ - 1]
             m == [hDec.taken EXCEPT ![c] = @ + 1]
  <2>2. hDec' = [hDec EXCEPT !.queued = n, !.taken = m]
    BY <1>a, <2>1, Zenon DEF DecType
  <2>3. n \in [Hardware!Contexts -> Nat] /\ m \in [Hardware!Contexts -> Nat]
        /\ \A k \in Hardware!Contexts : n[k] + m[k] = hDec.queued[k] + hDec.taken[k]
    BY <1>a, <2>1
  <2>4. hDec.opened \/ hFaults
    BY <1>0, <1>a, <2>1 DEF Closed
  <2> HIDE DEF n, m
  <2>5. /\ hDec' \in DecType /\ hDec'.refs = hDec.refs /\ hDec'.freed = hDec.freed /\ hDec'.made = hDec.made
        /\ hDec'.accel = hDec.accel /\ hDec'.device = hDec.device /\ hDec'.queued = n
        /\ hDec'.taken = m /\ hDec'.opened = hDec.opened
    BY <1>a, <2>2, <2>3, Zenon DEF DecType
  <2>6. ASSUME NEW k \in Hardware!Contexts PROVE Holders(hDec', k) = Holders(hDec, k)
    BY <1>a, <2>3, <2>5 DEF Holders, One
  <2>7. Sound(hDec', hFaults, Suitable)
    BY <1>0, <2>5, <2>6, SameHolders, Zenon
  <2> QED
    BY <2>4, <2>5, <2>7, Zenon DEF Closed
<1>7. CASE Hardware!releaseFrame
  <2>1. PICK c \in Hardware!Contexts :
          hDec.taken[c] > 0 /\ hDec' = [Hardware!Unref(hDec, c) EXCEPT !.taken[c] = @ - 1]
    BY <1>7, Zenon DEF Hardware!releaseFrame
  <2> DEFINE u == Hardware!Unref(hDec, c)
             n == [u.taken EXCEPT ![c] = @ - 1]
  <2>2. Holders(hDec, c) > 0
    BY <1>a, <2>1 DEF Holders, One
  <2>3. /\ u \in DecType /\ u.opened = hDec.opened /\ u.device = hDec.device
        /\ u.accel = hDec.accel /\ u.made = hDec.made /\ u.queued = hDec.queued /\ u.taken = hDec.taken
    <3>1. hDec.refs[c] > 0
      BY <1>0, <2>2, HeldCounts, Zenon
    <3> QED
      BY <1>a, <3>1, UnrefOne, Zenon
  <2>4. hDec' = [u EXCEPT !.taken = n] /\ n \in [Hardware!Contexts -> Nat]
        /\ \A k \in Hardware!Contexts : n[k] = hDec.taken[k] - One(k = c)
    BY <1>a, <2>1, <2>3 DEF DecType, One
  <2> HIDE DEF u, n
  <2>5. /\ hDec' \in DecType /\ hDec'.refs = u.refs /\ hDec'.freed = u.freed /\ hDec'.made = hDec.made
        /\ hDec'.accel = hDec.accel /\ hDec'.device = hDec.device /\ hDec'.queued = hDec.queued
        /\ hDec'.taken = n /\ hDec'.opened = hDec.opened
    BY <2>3, <2>4, Zenon DEF DecType
  <2>6. ASSUME NEW k \in Hardware!Contexts PROVE Holders(hDec', k) = Holders(hDec, k) - One(k = c)
    BY <1>a, <2>4, <2>5 DEF Holders, One
  <2>7. Sound(hDec', hFaults, Suitable)
    BY <1>0, <2>2, <2>5, <2>6, HolderLess DEF u
  <2> QED
    BY <1>0, <2>5, <2>7, Zenon DEF Closed
<1>8. CASE Hardware!fallBack
  <2> DEFINE d1 == Hardware!FreeCodec(hDec)
             d2 == Hardware!removeHardwareDecode(d1)
  <2>1. hDec.opened /\ (hDec' = d2 \/ hDec' = [d2 EXCEPT !.codec = TRUE])
    BY <1>8, Zenon DEF Hardware!fallBack, Hardware!reinitializeWithSoftwareDecoder
  <2>2. Sound(d1, hFaults, Suitable) /\ d1.opened = hDec.opened
    BY <1>0, DropDevice, Zenon
  <2> HIDE DEF d1
  <2>3. Sound(d2, hFaults, Suitable) /\ d2.opened = hDec.opened
    BY <1>0, <2>2, DropAccel, Zenon
  <2> HIDE DEF d2
  <2>4. /\ hDec' \in DecType /\ hDec'.refs = d2.refs /\ hDec'.freed = d2.freed /\ hDec'.made = d2.made
        /\ hDec'.accel = d2.accel /\ hDec'.device = d2.device /\ hDec'.queued = d2.queued
        /\ hDec'.taken = d2.taken /\ hDec'.opened
    BY <2>1, <2>3, Zenon DEF Sound, DecType
  <2>5. Sound(hDec', hFaults, Suitable)
    BY <2>3, <2>4, SameHolders, Zenon DEF Holders
  <2> QED
    BY <2>4, <2>5, Zenon DEF Closed
<1>9. CASE UNCHANGED hVars
  BY <1>0, <1>9, Zenon DEF hVars
<1> QED
  BY <1>3, <1>4, <1>5, <1>6, <1>7, <1>8, <1>9, Zenon DEF Hardware!Next

\* Nothing is open and no context was made.
LEMMA HardwareStart == Hardware!Init /\ MaxContexts \in Nat => HardwareInv
<1> SUFFICES ASSUME Hardware!Init, MaxContexts \in Nat PROVE HardwareInv
  OBVIOUS
<1>1. hDec \in DecType
  BY DEF Hardware!Init, DecType, Devices
<1>2. /\ hDec.device = Hardware!None /\ hDec.accel = Hardware!None /\ hDec.made = 0
      /\ \A c \in Hardware!Contexts :
             hDec.refs[c] = 0 /\ hDec.queued[c] = 0 /\ hDec.taken[c] = 0 /\ hDec.freed[c] = 0
  BY Zenon DEF Hardware!Init
<1>3. ASSUME NEW c \in Hardware!Contexts PROVE Accounted(hDec, c, hFaults, Suitable)
  BY <1>2, NoContext DEF Accounted, Holders, One, Hardware!Contexts
<1>4. Sound(hDec, hFaults, Suitable) /\ Closed(hDec, hFaults)
  BY <1>1, <1>2, <1>3, Zenon DEF Sound, Closed
<1>5. hConfig.type \in {"kNone", "kAuto", "vaapi", "qsv"} /\ hAvail \in Hardware!getSupportedHWAccelTypes
      /\ hFaults \in BOOLEAN
  BY Zenon DEF Hardware!Init
<1> QED
  BY <1>4, <1>5, Zenon DEF HardwareInv

\* What the account says of the user's contexts.
LEMMA HardwareOwned ==
    HardwareInv /\ MaxContexts \in Nat => Hardware!ContextInUse /\ Hardware!ContextReturned
<1> SUFFICES ASSUME HardwareInv, MaxContexts \in Nat PROVE Hardware!ContextInUse /\ Hardware!ContextReturned
  OBVIOUS
<1>1. hDec \in DecType /\ Closed(hDec, hFaults)
  BY Zenon DEF HardwareInv, Sound
<1>2. ASSUME NEW c \in Hardware!Contexts
      PROVE  /\ Accounted(hDec, c, hFaults, Suitable) /\ hDec.queued[c] \in Nat
             /\ hDec.taken[c] \in Nat /\ hDec.freed[c] \in Nat /\ hDec.refs[c] \in Nat
  BY <1>1, Zenon DEF HardwareInv, Sound, DecType
<1>3. ASSUME NEW c \in Hardware!Contexts PROVE hDec.freed[c] <= 1 /\ (Hardware!Used(c) => hDec.freed[c] = 0)
  <2>1. Hardware!Used(c) => Holders(hDec, c) > 0
    BY <1>2 DEF Hardware!Used, Holders, One
  <2>2. hDec.freed[c] <= 1 /\ (Holders(hDec, c) > 0 => hDec.freed[c] = 0)
    <3>1. Holders(hDec, c) \in Nat
      BY <1>2 DEF Holders, One
    <3> QED
      BY <1>2, <3>1 DEF Accounted
  <2> QED
    BY <2>1, <2>2, Zenon
<1>4. ASSUME ~hFaults, ~hDec.opened, hConfig.type = "vaapi" \/ hAvail = {"vaapi"},
             NEW c \in 1 .. hDec.made, hDec.taken[c] = 0
      PROVE  hDec.freed[c] = 1
  <2>1. c \in Hardware!Contexts /\ c <= hDec.made
    BY <1>1 DEF Hardware!Contexts, DecType
  <2>2. Holders(hDec, c) = 0
    BY <1>1, <1>4, <2>1, NoContext DEF Closed, Holders, One
  <2> QED
    BY <1>2, <1>4, <2>1, <2>2 DEF Accounted, Suitable
<1> QED
  BY <1>3, <1>4, Zenon DEF Hardware!ContextInUse, Hardware!ContextReturned

\* The account is kept in every behaviour, for any number of contexts and frames.
THEOREM HardwareAccount == Hardware!Spec => []HardwareInv
<1>1. Hardware!Init => HardwareInv
  BY HardwareStart, ContextsAssumption, Zenon
<1>2. HardwareInv /\ [Hardware!Next]_hVars => HardwareInv'
  BY HardwareStep, ContextsAssumption, Zenon
<1> QED
  BY <1>1, <1>2, PTL DEF Hardware!Spec, Hardware!vars, hVars

\* A context of the user is given back once, by the last reference and never
\* while the accelerator, the codec or a frame uses it; and without faults it is
\* not lost when the decoder is closed and the frames are released.
THEOREM ContextsOwned == Hardware!Spec => []ContextOwned
<1>1. HardwareInv => ContextOwned
  BY HardwareOwned, ContextsAssumption, Zenon DEF ContextOwned
<1> QED
  BY <1>1, HardwareAccount, PTL
=============================================================================
