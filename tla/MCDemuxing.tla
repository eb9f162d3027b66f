----------------------------- MODULE MCDemuxing -----------------------------
(***************************************************************************)
(* Instances for TLC of the way of a packet from the input to a decoder:   *)
(* PacketQueue has the queue with its producers and consumers, Demuxer the *)
(* demux thread and the controller's calls, with the queues as the bounded *)
(* FIFOs that PacketQueue implements.  A run takes the steps of one of the *)
(* two, and the other stays in an initial state.                           *)
(***************************************************************************)
EXTENDS PacketQueue

CONSTANTS Capacity, FileEnd, Seeks, Kinds, LoopModes, LoopBound   \* of Demuxer

ASSUME DemuxerAssumption ==
    /\ Capacity \in Nat \ {0} /\ FileEnd \in Nat \ {0} /\ LoopBound \in Nat
    /\ Seeks \subseteq 0..FileEnd
    /\ Kinds \subseteq {"file", "live"}
    /\ LoopModes \subseteq [mode : {"none", "single", "infinite"}, max : Int]

VARIABLES
    dOpened, dContext, dKind, dPaused, dInterrupt, dSeekMs, dQueue, dCtl, dReopen, dPc, dPkt,
    dTarget, dFlushing, dLooping, dEof, dReadPos, dLoop, dLoops, dLanded, dPausedReads

\* The demux thread and the controller.
dVars == <<dOpened, dContext, dKind, dPaused, dInterrupt, dSeekMs, dQueue, dCtl, dReopen, dPc,
           dPkt, dTarget, dFlushing, dLooping, dEof, dReadPos, dLoop, dLoops, dLanded,
           dPausedReads>>
Demux == INSTANCE Demuxer WITH
    opened <- dOpened, context <- dContext, kind <- dKind, paused <- dPaused,
    interrupt <- dInterrupt, seekMs <- dSeekMs, queue <- dQueue, ctl <- dCtl, reopen <- dReopen,
    pc <- dPc, pkt <- dPkt, target <- dTarget, flushing <- dFlushing, looping <- dLooping,
    eof <- dEof, readPos <- dReadPos, loop <- dLoop, loops <- dLoops, landed <- dLanded,
    pausedReads <- dPausedReads

-----------------------------------------------------------------------------
DemuxingInit == Init /\ Demux!Init

QueueNext == Next /\ UNCHANGED dVars
DemuxerNext == Demux!Next /\ UNCHANGED vars

\* The queue runs, and no stream is opened.
QueueRun ==
    /\ DemuxingInit /\ [][QueueNext]_<<vars, dVars>>
    /\ Fairness

\* The demuxer runs, and nothing is done to the queue.
DemuxerRun ==
    /\ DemuxingInit /\ [][DemuxerNext]_<<vars, dVars>>
    /\ Demux!Fairness

\* A packet with data, and the empty packet of the end of a file.
CONSTANTS p1, c1, c2, data, end, none

MCPackets == {data, end}
MCValid == {data}
MCSizeOf == [p \in MCPackets |-> IF p = data THEN 2 ELSE 5]
MCDurationOf == [p \in MCPackets |-> IF p = data THEN 3 ELSE 7]

LoopOnce == {[mode |-> "single", max |-> 1]}
-----------------------------------------------------------------------------
\* What the queues of a file hold after a seek was read after it, in file order.
FileOrder == Demux!FileOrder

\* A paused file is not read, but for the packet the thread had gone on to read.
PausedFileStops == Demux!PausedFileStops

\* close() returns if the stream is live or not paused.
StopTerminatesAwake == Demux!StopTerminatesAwake
=============================================================================
