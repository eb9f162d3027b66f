-------------------------- MODULE MCPlayerThreads ---------------------------
(***************************************************************************)
(* Instances for TLC of the parts of the example player, for two           *)
(* questions.  ThreadsSpec: the threads that wait for each other, those of *)
(* a stream's worker and the render thread with the CUDA streams.          *)
(* PlayersSpec: the players, which share workers through the stream        *)
(* manager, whose module this one extends, and one player with its render  *)
(* thread.  The parts share no state: a behaviour runs one of them, chosen *)
(* in the initial state.                                                   *)
(***************************************************************************)
EXTENDS StreamManager, Sequences, TLC

CONSTANTS
    MaxTasks, MaxReconnects,     \* of StreamWorker
    MaxPictures,                 \* MaxFrames of CudaRender
    Kinds, Sounds, MaxPosted     \* of VideoPlayer

\* The pictures and the sounds are told from the other calls of the slots.
ASSUME SlotsAssumption == (Kinds \cup Sounds) \cap {"playing", "pause", "stop"} = {}

VARIABLES
    part,     \* the part that is run; the others stay in an initial state
    wTask, wPreparing, wWpc, wDoing, wIntr, wUpc, wUq, wDpc, wQuit, wDecoder, wNulled, wOpenpc,
    wStream, wFresh, wEvq, wEpc, wIsOpening, wSpc, wSintr, wFrames, wRecording, wReopening,
    wAsked, wRetries, wLive, wOdd,
    cPc, cFrame, cRegistered, cFailed, cStream, cStreams, cCopySucced, cTexture, cFaulty,
    pPlayerState, pPosted, pVideo, pAudio, pTexture, pShown, pHeld, pTimer, pTimeout, pFailed,
    pWorker

\* One worker of the player with its six threads.
wVars == <<wTask, wPreparing, wWpc, wDoing, wIntr, wUpc, wUq, wDpc, wQuit, wDecoder, wNulled,
           wOpenpc, wStream, wFresh, wEvq, wEpc, wIsOpening, wSpc, wSintr, wFrames, wRecording,
           wReopening, wAsked, wRetries, wLive, wOdd>>
Worker == INSTANCE StreamWorker WITH
    task <- wTask, preparing <- wPreparing, wpc <- wWpc,
    doing <- wDoing, intr <- wIntr, upc <- wUpc, uq <- wUq, dpc <- wDpc, quit <- wQuit, decoder
    <- wDecoder, nulled <- wNulled, openpc <- wOpenpc, stream <- wStream, fresh <- wFresh, evq
    <- wEvq, epc <- wEpc, isOpening <- wIsOpening, spc <- wSpc, sintr <- wSintr, frames <-
    wFrames, recording <- wRecording, reopening <- wReopening, asked <- wAsked, retries <-
    wRetries, live <- wLive, odd <- wOdd

\* One CUDA renderer.
cVars == <<cPc, cFrame, cRegistered, cFailed, cStream, cStreams, cCopySucced, cTexture, cFaulty>>
Cuda == INSTANCE CudaRender WITH
    MaxFrames <- MaxPictures,
    pc <- cPc, frame <- cFrame, registered <- cRegistered, failed <- cFailed,
    stream <- cStream, streams <- cStreams, copySucced <- cCopySucced, texture <- cTexture,
    faulty <- cFaulty

\* One player and its render thread.
pVars == <<pPlayerState, pPosted, pVideo, pAudio, pTexture, pShown, pHeld, pTimer, pTimeout,
           pFailed, pWorker>>
Player == INSTANCE VideoPlayer WITH
    playerState <- pPlayerState, posted <- pPosted, video <- pVideo, audio <- pAudio,
    texture <- pTexture, shown <- pShown, held <- pHeld, timer <- pTimer, timeout <- pTimeout,
    failed <- pFailed, worker <- pWorker

-----------------------------------------------------------------------------
\* Every part in an initial state; what the world chooses for the worker and
\* the CUDA driver is fixed where they do not run.
PartsInit ==
    /\ Worker!Init
    /\ part # "worker" => wLive /\ wOdd = "nothing"
    /\ Cuda!Init
    /\ part # "cuda" => cFaulty
    /\ Init
    /\ Player!Init

ThreadsInit == part \in {"worker", "cuda"} /\ PartsInit

ThreadsNext ==
    \/ part = "worker" /\ Worker!Next /\ UNCHANGED <<part, cVars, vars, pVars>>
    \/ part = "cuda" /\ Cuda!Next /\ UNCHANGED <<part, wVars, vars, pVars>>

PlayersInit == part \in {"manager", "player"} /\ PartsInit

PlayersNext ==
    \/ part = "manager" /\ Next /\ UNCHANGED <<part, wVars, cVars, pVars>>
    \/ part = "player" /\ Player!Next /\ UNCHANGED <<part, wVars, cVars, vars>>

allVars == <<part, wVars, cVars, vars, pVars>>

PlayersSpec == PlayersInit /\ [][PlayersNext]_allVars

\* Players and addresses are interchangeable.
Symmetry == Permutations(Players) \cup Permutations(Urls)

\* The fairness of a part is assumed where that part runs.
ThreadsSpec ==
    /\ ThreadsInit /\ [][ThreadsNext]_allVars
    /\ WF_wVars(part = "worker" /\ Worker!UiStep)
    /\ WF_wVars(part = "worker" /\ Worker!runStep)
    /\ WF_wVars(part = "worker" /\ Worker!DStep)
    /\ WF_wVars(part = "worker" /\ Worker!deleteStep)
    /\ WF_wVars(part = "worker" /\ Worker!DecoderThread_run)
    /\ WF_wVars(part = "worker" /\ Worker!EStep)
    /\ WF_wVars(part = "worker" /\ Worker!openCallback)
    /\ WF_wVars(part = "worker" /\ Worker!startDecode)
    /\ WF_wVars(part = "worker" /\ Worker!decodeFirstFrame)
    /\ WF_wVars(part = "worker" /\ Worker!reconnected)
    /\ WF_cVars(part = "cuda" /\ Cuda!RenderThread)
    /\ WF_cVars(part = "cuda" /\ Cuda!Stream("Y"))
    /\ WF_cVars(part = "cuda" /\ Cuda!Stream("UV"))
-----------------------------------------------------------------------------
\* The UI thread does not use a StreamDecoder that has been destroyed.
DecoderAlive == Worker!DecoderAlive

\* What is begun comes to its end: a close that StreamDecoderWorker is asked for
\* is carried out until the worker is deleted (StreamWorker!CloseCompletes), and
\* renderFrame of Nv12Render_Cuda returns if the driver takes its callbacks
\* (CudaRender!RenderReturns).  A behaviour runs one part, so this is the
\* conjunction of the two.
WaitsEnd ==
    \/ part = "worker" /\ wOdd = "nothing" /\ wPreparing
    \/ part = "cuda" /\ ~cFaulty /\ cPc = "callbackY"
    ~>
    \/ part = "worker" /\ wUpc = "deleted"
    \/ part = "cuda" /\ cPc = "idle"

\* A live stream that StreamDecoderWorker decodes is shown, after every start,
\* resume and reconnect.
FramesFlow == Worker!FramesFlow

\* Nv12Render_Cuda draws one whole frame at a time.
WholeFrame == Cuda!WholeFrame

\* RenderWorker has released renderer and audio output once it has caught up
\* with prepareStop, preparePause or the destructor of VideoPlayerImpl.
Released == Player!Released

\* VideoPlayerImpl tells the truth: once the render thread has caught up with a
\* player that plays, paintGL has the renderer in use, and the timer of failed
\* opens runs only while the last open has failed.
StateTrue == Player!PlayingVisible /\ Player!TimeoutTrue
=============================================================================
