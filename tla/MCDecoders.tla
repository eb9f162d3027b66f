----------------------------- MODULE MCDecoders -----------------------------
(***************************************************************************)
(* Instances for TLC of what starts the decoders and what they run:        *)
(* PreBuffer has the threads that hold both decoders back and let them go, *)
(* DecoderThread the life of one decoder and its loop, with the pre-buffer *)
(* as an event, HardwareAccel the device contexts that its codec and its   *)
(* frames use.  A behaviour runs one of them, chosen in the initial state. *)
(***************************************************************************)
EXTENDS PreBuffer

CONSTANTS
    MaxFrames,     \* of DecoderThread
    MaxContexts,   \* of HardwareAccel
    MaxHeld        \* its MaxFrames: frames of a context in the queue, and with the user

ASSUME FramesAssumption == MaxFrames \in Nat
ASSUME ContextsAssumption == MaxContexts \in Nat

VARIABLES
    part,     \* the part that is run; the others stay in an initial state
    tVideo, tOpened, tStarted, tCodec, tPaused, tInterrupt, tWaiting, tAborted, tFull,
    tPacketsAborted, tCpc, tThen, tPc, tReadFirstFrame, tHasKeyFrame, tErrorStart, tPending, tPrimed,
    hConfig, hAvail, hFaults, hDec

\* The decoder and its thread.
tVars == <<tVideo, tOpened, tStarted, tCodec, tPaused, tInterrupt, tWaiting, tAborted, tFull,
           tPacketsAborted, tCpc, tThen, tPc, tReadFirstFrame, tHasKeyFrame, tErrorStart, tPending,
           tPrimed>>
Thread == INSTANCE DecoderThread WITH
    video <- tVideo, isOpened <- tOpened, isStarted <- tStarted, codec <- tCodec,
    isPaused <- tPaused, interrupt <- tInterrupt, waiting <- tWaiting, aborted <- tAborted,
    full <- tFull, packetsAborted <- tPacketsAborted, cpc <- tCpc, then <- tThen, tpc <- tPc,
    readFirstFrame <- tReadFirstFrame, hasKeyFrame <- tHasKeyFrame, errorStart <- tErrorStart,
    pending <- tPending, primed <- tPrimed

\* The hardware contexts of one decoder.
hVars == <<hConfig, hAvail, hFaults, hDec>>
Hardware == INSTANCE HardwareAccel WITH
    MaxFrames <- MaxHeld, config <- hConfig, avail <- hAvail, faults <- hFaults, dec <- hDec

-----------------------------------------------------------------------------
DecodersInit ==
    /\ part \in {"buffer", "thread", "hardware"}
    /\ Init
    /\ Thread!Init
    /\ part # "thread" => tVideo
    /\ Hardware!Init
    /\ part # "hardware" => hConfig.type = "kNone" /\ ~hConfig.callback /\ ~hConfig.inMemory
                             /\ ~hConfig.fallback /\ hAvail = {} /\ ~hFaults

DecodersNext ==
    \/ part = "buffer" /\ Next /\ UNCHANGED <<part, tVars, hVars>>
    \/ part = "thread" /\ Thread!Next /\ UNCHANGED <<part, vars, hVars>>
    \/ part = "hardware" /\ Hardware!Next /\ UNCHANGED <<part, vars, tVars>>

\* Threads are scheduled; the application need not call anything, and nobody has
\* to pop frames.
DecodersSpec ==
    /\ DecodersInit /\ [][DecodersNext]_<<part, vars, tVars, hVars>>
    /\ WF_vars(part = "buffer" /\ App)
    /\ WF_vars(part = "buffer" /\ Demux)
    /\ \A m \in Media : WF_vars(part = "buffer" /\ Decode(m))
    /\ WF_tVars(part = "thread" /\ Thread!CallStep)
    /\ WF_tVars(part = "thread" /\ Thread!ThreadStep)

\* Off, and on with one medium or both, automatic or not.
MCConfigs ==
    {NoConfig,
     [enable |-> TRUE, auto |-> TRUE, both |-> FALSE, video |-> 2, audio |-> 1],
     [enable |-> TRUE, auto |-> TRUE, both |-> TRUE, video |-> 1, audio |-> 2],
     [enable |-> TRUE, auto |-> FALSE, both |-> FALSE, video |-> 1, audio |-> 0]}

\* A file with more pictures than a queue holds, a live stream that fits into
\* the queues, and a file without sound.
MCStreams ==
    {[has |-> Media, live |-> FALSE, video |-> 3, audio |-> 1],
     [has |-> Media, live |-> TRUE, video |-> 1, audio |-> 2],
     [has |-> {"video"}, live |-> FALSE, video |-> 2, audio |-> 0]}
-----------------------------------------------------------------------------
\* The decode loop runs only while the decoder is open and has its codec.
LoopHasCodec == Thread!LoopHasCodec

\* A video codec is given a key frame before anything else.
KeyFrameFirst == Thread!KeyFrameFirst

\* stop() comes to its end.
StopReturns == Thread!StopReturns

\* A context made by createHwContextCallback is given back by
\* freeHwContextCallback once, after its last use, and is not lost.
ContextOwned == Hardware!ContextInUse /\ Hardware!ContextReturned
=============================================================================
