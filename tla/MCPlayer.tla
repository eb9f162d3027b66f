------------------------------ MODULE MCPlayer ------------------------------
(***************************************************************************)
(* Instances for TLC of the rendering of the example player (the buffers   *)
(* that its threads share, and the textures it shares with Direct3D) and   *)
(* of the log that all of the library writes.  They share no state: a      *)
(* behaviour runs one of them, chosen in the initial state.                *)
(***************************************************************************)
EXTENDS Rendering, Sequences

VARIABLES
    part,     \* the part that is run; the others stay in an initial state
    lNow, lDir, lInitialized, lLogger, lBase, lFileCounter, lCurrentSize, lNextRotationTime,
    lLogged, lStarts, lWorld

\* The rotating files of the logger, two ticks a period.
lVars == <<lNow, lDir, lInitialized, lLogger, lBase, lFileCounter, lCurrentSize,
           lNextRotationTime, lLogged, lStarts, lWorld>>
Log == INSTANCE Logger WITH
    MaxSize <- 3, Overall <- 5, Retention <- 2, Period <- 2, MaxMessage <- 2, MaxTime <- 4,
    MaxStarts <- 2, MaxMessages <- 4, now <- lNow, dir <- lDir, initialized <- lInitialized,
    logger <- lLogger, base <- lBase, fileCounter <- lFileCounter, currentSize <- lCurrentSize,
    nextRotationTime <- lNextRotationTime, logged <- lLogged, starts <- lStarts, world <- lWorld

-----------------------------------------------------------------------------
Parts == {"buffers", "interop", "log"}

PlayerInit ==
    /\ part \in Parts
    /\ Init
    /\ part # "buffers" => fences /\ ~faults /\ steady
    /\ Interop!Init
    /\ part # "interop" => dQuiet
    /\ Log!Init
    /\ part # "log" => lWorld = "clean"

PlayerNext ==
    \/ part = "buffers" /\ Next /\ UNCHANGED <<part, dVars, lVars>>
    \/ part = "interop" /\ Interop!Next /\ UNCHANGED <<part, vars, lVars>>
    \/ part = "log" /\ Log!Next /\ UNCHANGED <<part, vars, dVars>>

allVars == <<part, vars, dVars, lVars>>

PlayerSpec ==
    /\ PlayerInit /\ [][PlayerNext]_allVars
-----------------------------------------------------------------------------
\* The sink removes old files and not the one it writes, keeps the sum of the
\* sizes within its limit, and keeps the periods apart.
FilesKept == part = "log" => Log!CurrentKept /\ Log!SizeBounded /\ Log!OnePeriod
=============================================================================
