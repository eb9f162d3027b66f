------------------------------ MODULE Recorder ------------------------------
(***************************************************************************)
(* Recording of a live stream: the demux thread hands packets to the       *)
(* recorder's two queues, the recording thread writes them to the output   *)
(* file, and callers start and stop recordings and open and close streams. *)
(*                                                                         *)
(* A caller is any thread that calls the demuxer: the application, or the  *)
(* reconnection thread with its close() and open().  Their calls exclude   *)
(* each other by Demuxer::mutex_; the recorder's own mutex_ is only taken  *)
(* inside it.  writePacket and the recording thread take neither.  The     *)
(* decoders' packet queues and pausing are the business of Demuxer.        *)
(***************************************************************************)
EXTENDS Integers, Sequences

CONSTANTS
    Callers,        \* threads that open and close streams
    Recorders,      \* those of them that also start and stop recordings
    Inputs,         \* the streams the n-th open() may find: live or not, codecs and packets
    Capacity,       \* maxPacketCount of the recorder's queues
    Num, Den,       \* input time base / output time base
    Extensions,     \* of the output paths asked for
    NoPts,          \* AV_NOPTS_VALUE
    NoCaller,       \* nobody holds the mutex
    MaxRecordings   \* bound on the output files created

Media == {"video", "audio"}
Stamps == Nat \cup {NoPts}

\* n numbers the packets of one medium.
PacketType == [media : Media, n : Nat, key : BOOLEAN, pts : Stamps, dts : Stamps]

\* getFormatInfoMap: the codecs the container of each extension takes.
formatInfoMap ==
    [mp4  |-> [video |-> {"h264", "h265", "hevc", "mpeg4", "av1"},
               audio |-> {"aac", "mp3", "ac3", "eac3", "opus"}],
     avi  |-> [video |-> {"h264", "mpeg4", "mjpeg", "rawvideo"},
               audio |-> {"mp3", "ac3", "pcm_s16le", "pcm_s24le"}],
     mkv  |-> [video |-> {"h264", "h265", "hevc", "vp8", "vp9", "av1", "mpeg4"},
               audio |-> {"aac", "mp3", "ac3", "eac3", "opus", "vorbis", "flac", "pcm_s16le"}],
     mov  |-> [video |-> {"h264", "h265", "hevc", "mpeg4", "prores"},
               audio |-> {"aac", "mp3", "ac3", "pcm_s16le", "pcm_s24le"}],
     flv  |-> [video |-> {"h264", "flv1"}, audio |-> {"aac", "mp3", "pcm_s16le"}],
     ts   |-> [video |-> {"h264", "h265", "hevc", "mpeg2video"},
               audio |-> {"aac", "mp3", "ac3", "eac3"}],
     webm |-> [video |-> {"vp8", "vp9", "av1"}, audio |-> {"vorbis", "opus"}],
     ogv  |-> [video |-> {"theora", "vp8"}, audio |-> {"vorbis", "opus", "flac"}]]

\* An extension that is not in the table is of no known format.
detectContainerFormat(ext) == IF ext \in DOMAIN formatInfoMap THEN ext ELSE "unknown"

\* Seeded bug: only the pictures are looked at.
validateVideo(format, cs) ==
    format # "unknown" /\ cs.video \in formatInfoMap[format].video \cup {"none"}

\* Every stream has a codec the container takes; cs[m] is "none" without a stream.
validateFormatCompatibility(format, cs) ==
    format # "unknown" /\ \A m \in Media : cs[m] \in formatInfoMap[format][m] \cup {"none"}

NoCodecs == [m \in Media |-> "none"]

\* Between two packets of a medium are the packets with the numbers in between.
Numbered(packets) ==
    \A i, j \in DOMAIN packets :
        i < j /\ packets[i].media = packets[j].media
        => /\ packets[i].n < packets[j].n
           /\ \A k \in packets[i].n + 1 .. packets[j].n - 1 :
                \E h \in i .. j : packets[h].n = k /\ packets[h].media = packets[i].media

InputType == [live : BOOLEAN, codecs : [Media -> STRING], packets : Seq(PacketType)]

ASSUME RecorderAssumption ==
    /\ Inputs \in Seq(SUBSET InputType)
    /\ \A n \in DOMAIN Inputs : \A i \in Inputs[n] : Numbered(i.packets)
    /\ Recorders \subseteq Callers /\ NoCaller \notin Callers /\ NoPts \notin Int
    /\ {Capacity, Num, Den} \subseteq Nat \ {0} /\ MaxRecordings \in Nat

VARIABLES
    mutex, call, closing,       \* holder of Demuxer::mutex_, the step of each caller, those in close()
    stream, rest, live, codecs, \* number of the open stream (0: none), unread packets, isRealTime_, codecs
    dpc, pkt, interrupt,        \* the demux thread, its packet, requestInterruption_
    isRecording, shouldStop,    \* the recorder's flags
    queue, aborted,             \* its packet queues
    output, input, mapping,     \* outputFormatCtx_, inputFormatCtx_ (0: null), streamMapping_ # nullptr
    format, layout,             \* currentFormat_, the codecs of the output's streams
    first,                      \* firstPtsMap_ and firstDtsMap_
    rpc, hasKeyFrame,           \* the recording thread
    file, lost,                 \* history: packets given to the muxer for this file, and not queued for it
    opens, recordings           \* history: streams and output files opened

callers == <<mutex, call, closing>>
source == <<stream, rest, live, codecs, opens>>
demux == <<dpc, pkt, interrupt>>
flags == <<isRecording, shouldStop>>
queues == <<queue, aborted>>
contexts == <<output, input, mapping, format, layout, first>>
thread == <<rpc, hasKeyFrame>>
written == <<file, lost, recordings>>
vars == <<callers, source, demux, flags, queues, contexts, thread, written>>

NoFirst == [m \in Media |-> [pts |-> NoPts, dts |-> NoPts]]
Empty == [m \in Media |-> <<>>]

Init ==
    /\ mutex = NoCaller /\ call = [c \in Callers |-> "idle"] /\ closing = {}
    /\ stream = 0 /\ rest = <<>> /\ live = FALSE /\ codecs = NoCodecs /\ opens = 0
    /\ dpc = "none" /\ pkt = <<>> /\ interrupt = FALSE
    /\ isRecording = FALSE /\ shouldStop = FALSE
    /\ queue = Empty /\ aborted = [m \in Media |-> FALSE]
    /\ output = 0 /\ input = 0 /\ mapping = FALSE /\ first = NoFirst
    /\ format = "unknown" /\ layout = NoCodecs
    /\ rpc = "none" /\ hasKeyFrame = FALSE
    /\ file = <<>> /\ lost = {} /\ recordings = 0
-----------------------------------------------------------------------------
\* c begins or goes on with a call, with the mutex kept or given back.
Enter(c, step) == call[c] = step /\ mutex = NoCaller
At(c, step) == call[c] = step /\ mutex = c
Hold(c, step) == mutex' = c /\ call' = [call EXCEPT ![c] = step]
Leave(c, step) == mutex' = NoCaller /\ call' = [call EXCEPT ![c] = step]

\* The file is closed, the references are dropped, the queues flushed.
cleanup ==
    /\ output' = 0 /\ input' = 0 /\ mapping' = FALSE /\ first' = NoFirst
    /\ format' = "unknown" /\ layout' = NoCodecs
    /\ queue' = Empty
    /\ file' = <<>> /\ lost' = {}

\* What has been allocated is left, and the next start does not free it.
initOutputContextFails(ext) ==
    /\ output' \in {0, recordings + 1} /\ input' = stream /\ format' = detectContainerFormat(ext)
    /\ UNCHANGED <<mutex, call, mapping, layout, first, file, lost, queue>>

createStreamMappingFails == cleanup /\ UNCHANGED <<mutex, call>>

\* The output has a stream for every stream of the input.
initOutputContext(ext) ==
    /\ output' = recordings + 1 /\ input' = stream /\ format' = detectContainerFormat(ext)
    /\ layout' = codecs
    /\ UNCHANGED <<first, file, lost, queue>>

(* startRecording.  A call refused because a recording runs changes        *)
(* nothing; one refused for its format leaves currentFormat_ behind.       *)

Refused(c, ext) ==
    /\ Enter(c, "idle")
    /\ stream # 0 /\ live /\ ~isRecording
    /\ ~validateFormatCompatibility(detectContainerFormat(ext), codecs)
    /\ format' = detectContainerFormat(ext)
    /\ UNCHANGED <<callers, source, demux, flags, queues, output, input, mapping, layout, first,
                   thread, written>>

startRecording(c, ext) ==
    /\ Enter(c, "idle")
    /\ stream # 0 /\ live /\ ~isRecording /\ recordings < MaxRecordings
    /\ validateFormatCompatibility(detectContainerFormat(ext), codecs)
    /\ recordings' = recordings + 1
    /\ \/ initOutputContextFails(ext) \/ createStreamMappingFails
       \/ /\ initOutputContext(ext) /\ mapping' = TRUE
          /\ Hold(c, "startQueues")
    /\ UNCHANGED <<closing, source, demux, flags, aborted, rpc, hasKeyFrame>>

StartQueues(c) ==
    /\ At(c, "startQueues")
    /\ aborted' = [m \in Media |-> FALSE]
    /\ Hold(c, "startThread")
    /\ UNCHANGED <<closing, source, demux, flags, queue, contexts, thread, written>>

StartThread(c) ==
    /\ At(c, "startThread")
    /\ shouldStop' = FALSE /\ isRecording' = TRUE
    /\ rpc' = "top" /\ hasKeyFrame' = FALSE
    /\ Leave(c, "idle")
    /\ UNCHANGED <<closing, source, demux, queues, contexts, written>>
-----------------------------------------------------------------------------
(* stopRecording, called by the application or by close().                 *)

\* Seeded bug: the recording thread is not told to stop.
StopQuietly(c, step) ==
    /\ Enter(c, step) /\ isRecording
    /\ Hold(c, "abort")
    /\ UNCHANGED <<closing, source, demux, flags, queues, contexts, thread, written>>

stopRecording(c, step) ==
    /\ Enter(c, step) /\ isRecording
    /\ shouldStop' = TRUE
    /\ Hold(c, "abort")
    /\ UNCHANGED <<closing, source, demux, isRecording, queues, contexts, thread, written>>

AbortQueues(c) ==
    /\ At(c, "abort")
    /\ aborted' = [m \in Media |-> TRUE]
    /\ Hold(c, "join")
    /\ UNCHANGED <<closing, source, demux, flags, queue, contexts, thread, written>>

\* Seeded bug: the contexts are freed without waiting for the thread.
CleanupEarly(c) ==
    /\ At(c, "join")
    /\ cleanup
    /\ Hold(c, "stopped")
    /\ UNCHANGED <<closing, source, demux, flags, aborted, thread, recordings>>

\* The thread has been joined.
Cleanup(c) ==
    /\ At(c, "join") /\ rpc = "none"
    /\ cleanup
    /\ Hold(c, "stopped")
    /\ UNCHANGED <<closing, source, demux, flags, aborted, thread, recordings>>

Stopped(c) ==
    /\ At(c, "stopped")
    /\ isRecording' = FALSE
    /\ Leave(c, IF c \in closing THEN "closeStream" ELSE "idle")
    /\ UNCHANGED <<closing, source, demux, shouldStop, queues, contexts, thread, written>>
-----------------------------------------------------------------------------
(* close() looks at isRecording, stops the recording and closes the        *)
(* stream, each with the mutex taken anew.  open() closes an open stream   *)
(* itself, and the recording goes on.                                      *)

close(c) ==
    /\ Enter(c, "idle")
    /\ closing' = closing \cup {c}
    /\ Leave(c, IF isRecording THEN "closeRecording" ELSE "closeStream")
    /\ UNCHANGED <<source, demux, flags, queues, contexts, thread, written>>

AlreadyStopped(c) ==
    /\ Enter(c, "closeRecording") /\ ~isRecording
    /\ Leave(c, "closeStream")
    /\ UNCHANGED <<closing, source, demux, flags, queues, contexts, thread, written>>

\* closeInternal asks the demux thread to end and joins it.
Interrupt(c, step, next) ==
    /\ Enter(c, step)
    /\ interrupt' = (stream # 0)
    /\ Hold(c, next)
    /\ UNCHANGED <<closing, source, dpc, pkt, flags, queues, contexts, thread, written>>

NoStream == stream' = 0 /\ rest' = <<>> /\ live' = FALSE /\ codecs' = NoCodecs

CloseStream(c) ==
    /\ At(c, "closeJoin") /\ dpc = "none"
    /\ NoStream /\ interrupt' = FALSE
    /\ closing' = closing \ {c}
    /\ Leave(c, "idle")
    /\ UNCHANGED <<opens, dpc, pkt, flags, queues, contexts, thread, written>>

open(c) == opens < Len(Inputs) /\ Interrupt(c, "idle", "openJoin")

OpenStream(c) ==
    /\ At(c, "openJoin") /\ dpc = "none"
    /\ interrupt' = FALSE
    /\ opens' = opens + 1
    /\ \/ \E i \in Inputs[opens'] :
            /\ stream' = opens' /\ rest' = i.packets /\ live' = i.live /\ codecs' = i.codecs
            /\ dpc' = "read"
       \/ NoStream /\ dpc' = dpc
    /\ Leave(c, "idle")
    /\ UNCHANGED <<closing, pkt, flags, queues, contexts, thread, written>>
-----------------------------------------------------------------------------
(* The demux thread.                                                       *)

NotQueued(p) == IF mapping THEN lost \cup {<<stream, p.media, p.n>>} ELSE lost

\* The packet read is handed on if the recorder is seen to be recording.
Read ==
    /\ dpc = "read" /\ ~interrupt /\ rest # <<>>
    /\ rest' = Tail(rest)
    /\ IF isRecording
       THEN dpc' = "write" /\ pkt' = Head(rest) /\ lost' = lost
       ELSE dpc' = "read" /\ pkt' = pkt /\ lost' = NotQueued(Head(rest))
    /\ UNCHANGED <<callers, stream, live, codecs, opens, interrupt, flags, queues, contexts, thread, file,
                   recordings>>

\* A packet as it is queued: with its stream and the recording of the moment.
Queued == [packet |-> pkt, stream |-> stream, recording |-> recordings]

\* push without waiting: nothing enters a full or an aborted queue.
writePacket ==
    /\ dpc = "write"
    /\ IF ~aborted[pkt.media] /\ Len(queue[pkt.media]) < Capacity
       THEN queue' = [queue EXCEPT ![pkt.media] = Append(@, Queued)] /\ lost' = lost
       ELSE queue' = queue /\ lost' = NotQueued(pkt)
    /\ dpc' = "read" /\ pkt' = <<>>
    /\ UNCHANGED <<callers, source, interrupt, flags, aborted, contexts, thread, file, recordings>>

\* On request, or after too many read errors, which are as good as a stream
\* that has no more packets.
ThreadEnds ==
    /\ dpc = "read" /\ (interrupt \/ rest = <<>>)
    /\ dpc' = "none"
    /\ UNCHANGED <<callers, source, pkt, interrupt, flags, queues, contexts, thread, written>>
-----------------------------------------------------------------------------
(* The recording thread.                                                   *)

LoopTop ==
    /\ rpc = "top"
    /\ rpc' = IF shouldStop THEN "none" ELSE "video"
    /\ UNCHANGED <<callers, source, demux, flags, queues, contexts, hasKeyFrame, written>>

\* Seeded bug: the time bases are swapped.
av_rescale_swapped(x) == (2 * x * Den + Num) \div (2 * Num)

\* av_rescale_q of x >= 0: to the nearest, halves up.
av_rescale_q(x) == (2 * x * Num + Den) \div (2 * Den)

\* A time stamp relative to the first one of its medium, in the output's unit.
Relative(t, t0) ==
    IF t = NoPts THEN NoPts ELSE av_rescale_q(IF t < t0 THEN 0 ELSE t - t0)

\* Seeded bug: DTS is not limited to PTS.
ConvertOnly(p, f) == [pts |-> Relative(p.pts, f.pts), dts |-> Relative(p.dts, f.dts)]

\* The time stamps a packet is written with, f being the first of its medium.
Convert(p, f) ==
    LET pts == Relative(p.pts, f.pts)
        dts == Relative(p.dts, f.dts)
    IN  [pts |-> pts,
         dts |-> IF NoPts \notin {pts, dts} /\ dts > pts THEN pts ELSE dts]

FirstOf(p) ==
    LET pts == IF p.pts # NoPts THEN p.pts ELSE 0
    IN  [pts |-> pts, dts |-> IF p.dts # NoPts THEN p.dts ELSE pts]

\* Seeded bug: the key frame is waited for anew in every iteration.
KeyEachTime(p) == p.media = "video" /\ ~p.key

\* Seeded bug: recording begins with whatever comes first.
NoWait(p) == FALSE

AwaitsKeyFrame(p) == p.media = "video" /\ ~hasKeyFrame /\ ~p.key

\* processPacket(q) hands the packet to the muxer; a refusal is only reported.
processPacket(q) ==
    LET p == q.packet
        f == IF first[p.media] = NoFirst[p.media] THEN FirstOf(p) ELSE first[p.media]
    IN  IF output = 0 \/ input = 0 \/ ~mapping \/ AwaitsKeyFrame(p)
        THEN UNCHANGED <<first, hasKeyFrame, file>>
        ELSE /\ hasKeyFrame' = (hasKeyFrame \/ p.media = "video")
             /\ first' = [first EXCEPT ![p.media] = f]
             /\ file' = Append(file, [packet |-> p, stream |-> q.stream, recording |-> q.recording,
                                      out |-> Convert(p, f)])

\* pop() of the queue of medium m gives up after a millisecond.
Pop(m) ==
    /\ rpc = m
    /\ \/ /\ queue[m] # <<>>
          /\ queue' = [queue EXCEPT ![m] = Tail(@)]
          /\ processPacket(Head(queue[m]))
       \/ queue[m] = <<>> /\ UNCHANGED <<queue, first, hasKeyFrame, file>>
    /\ rpc' = IF m = "video" /\ hasKeyFrame' THEN "audio" ELSE "top"
    /\ UNCHANGED <<callers, source, demux, flags, aborted, output, input, mapping, format, layout,
                   lost, recordings>>
-----------------------------------------------------------------------------
Start(c) == StartQueues(c) \/ StartThread(c)
Stop(c) == AbortQueues(c) \/ Cleanup(c) \/ Stopped(c)

Close(c) ==
    \/ stopRecording(c, "closeRecording") \/ AlreadyStopped(c)
    \/ Interrupt(c, "closeStream", "closeJoin") \/ CloseStream(c)

Return(c) == Start(c) \/ Stop(c) \/ Close(c) \/ OpenStream(c)

Demux == Read \/ writePacket \/ ThreadEnds
Record == LoopTop \/ \E m \in Media : Pop(m)

Next ==
    \/ \E c \in Recorders : \E ext \in Extensions : Refused(c, ext) \/ startRecording(c, ext)
    \/ \E c \in Recorders : stopRecording(c, "idle")
    \/ \E c \in Callers : open(c) \/ close(c) \/ Return(c)
    \/ Demux \/ Record

Spec == Init /\ [][Next]_vars

\* Threads are scheduled; nobody has to call anything.
FairSpec ==
    Spec /\ (\A c \in Callers : WF_vars(Return(c))) /\ WF_vars(Demux) /\ WF_vars(Record)
-----------------------------------------------------------------------------
\* While the recording thread runs, the output file and the stream mapping are
\* there, of a container that takes the codecs written to it: no stop frees
\* them under the thread, and no start, refused or not, replaces them.
FileHeld ==
    rpc # "none" =>
        /\ isRecording /\ output # 0 /\ output = recordings /\ mapping
        /\ \A m \in Media : layout[m] \in formatInfoMap[format][m] \cup {"none"}

\* What is queued or written belongs to the recording of the moment: nothing
\* that was queued for one file is written to the next.
OwnPackets ==
    /\ \A i \in DOMAIN file : file[i].recording = recordings
    /\ \A m \in Media : \A i \in DOMAIN queue[m] : queue[m][i].recording = recordings

\* A file begins with a key frame.
KeyFrameFirst == file # <<>> => file[1].packet.media = "video" /\ file[1].packet.key

\* The pictures of one stream are written in order, and one is missing between
\* two others only if it was never queued: the queue was full, or the demux
\* thread saw the recorder not yet recording.
NothingSkipped ==
    \A i, j \in DOMAIN file :
        LET a == file[i].packet
            b == file[j].packet
        IN  i < j /\ a.media = b.media /\ file[i].stream = file[j].stream
            => /\ a.n < b.n
               /\ \A k \in a.n + 1 .. b.n - 1 :
                    \/ \E h \in i .. j : file[h].packet.n = k /\ file[h].packet.media = a.media
                    \/ <<file[i].stream, a.media, k>> \in lost

\* The file holds one run of one recording: what is queued or written belongs to
\* the recording of the moment, and no picture is left out between two others.
OneRun == OwnPackets /\ NothingSkipped

\* One recording owns the file and the recording thread from startRecording to
\* the end of stopRecording, and what is in the file is one run of it.
OneFile == FileHeld /\ OneRun

\* A written time stamp is not negative, a DTS is not after its PTS, and packets
\* that are not reordered keep apart if the output's clock is no coarser than the
\* input's.
StampsAdvance ==
    /\ \A i \in DOMAIN file :
        LET out == file[i].out
        IN  /\ {out.pts, out.dts} \ {NoPts} \subseteq Nat
            /\ NoPts \notin {out.pts, out.dts} => out.dts <= out.pts
    /\ \A i, j \in DOMAIN file :
        LET a == file[i].packet
            b == file[j].packet
        IN  /\ i < j /\ a.media = b.media /\ file[i].stream = file[j].stream
            /\ a.dts # NoPts /\ b.dts # NoPts /\ a.pts = a.dts /\ b.pts = b.dts /\ a.dts < b.dts
            /\ first[a.media] # NoFirst[a.media] /\ b.dts > first[a.media].dts
            /\ Num >= Den /\ first[a.media].pts = first[a.media].dts
            => file[i].out.dts < file[j].out.dts

\* What recordingLoop writes can be played: the file begins with a key frame and
\* its time stamps are in order.
FilePlays == KeyFrameFirst /\ StampsAdvance

\* Whoever holds the mutex gives it back: a stop is not held up by the
\* recording thread nor a close by the demux thread.
MutexReleased == \A c \in Callers : mutex = c ~> mutex # c
=============================================================================
