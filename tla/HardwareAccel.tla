---------------------------- MODULE HardwareAccel ---------------------------
(***************************************************************************)
(* The hardware accelerator of the video decoder and the device contexts   *)
(* behind it.  A context is made by the user's callback, or by FFmpeg when *)
(* there is no callback or what it returns cannot be used.  FFmpeg counts  *)
(* the references to it: the accelerator has one, the codec has one, every *)
(* frame in device memory has one; with the last one the user's context is *)
(* given back through the free callback.                                   *)
(*                                                                         *)
(* Contexts of the user are numbers; Default is a device of FFmpeg's own.  *)
(***************************************************************************)
EXTENDS Integers, Sequences, FiniteSets

CONSTANTS
    MaxContexts,   \* bound: contexts that the user's callback makes
    MaxFrames      \* bound: frames of a context in the queue, and with the user

None == 0
Default == -1
Contexts == 1 .. MaxContexts

\* The order in which findBestHWAccelType looks.
Priority == <<"cuda", "d3d11va", "dxva2", "qsv", "vaapi">>
\* The types that createHWDeviceFromUserContext knows.
UserTypes == {"cuda", "d3d11va", "dxva2", "vaapi"}

\* What the machine offers; the order of the types decides among them.
getSupportedHWAccelTypes == {{}, {"vaapi"}, {"qsv", "vaapi"}}

VARIABLES
    config,   \* hwAccelType, callbacks, requireFrameInSystemMemory, enableHardwareFallback
    avail,    \* getSupportedHWAccelTypes: found once
    faults,   \* allocation, validation or avcodec_open2 may fail
    dec       \* the decoder and the contexts

vars == <<config, avail, faults, dec>>

Init ==
    /\ config \in [type : {"kNone", "kAuto", "vaapi", "qsv"}, callback : BOOLEAN, inMemory : BOOLEAN,
                   fallback : BOOLEAN]
    /\ avail \in getSupportedHWAccelTypes /\ faults \in BOOLEAN
    /\ dec = [opened |-> FALSE,
              codec |-> FALSE, device |-> None,    \* codecCtx_ and its hw_device_ctx
              accel |-> None,                      \* the device of hwAccel_
              made |-> 0,                          \* contexts the callback has made
              refs |-> [c \in Contexts |-> 0],     \* references to a context
              queued |-> [c \in Contexts |-> 0],   \* frames in its memory in frameQueue_
              taken |-> [c \in Contexts |-> 0],    \* frames in its memory with the user
              freed |-> [c \in Contexts |-> 0]]    \* calls of the free callback
-----------------------------------------------------------------------------
(* References *)

\* av_buffer_ref
Ref(d, c) == IF c \in Contexts THEN [d EXCEPT !.refs[c] = @ + 1] ELSE d

\* av_buffer_unref: the last one calls freeHWContextCallback.
Unref(d, c) ==
    IF c \in Contexts
    THEN [d EXCEPT !.refs[c] = @ - 1, !.freed[c] = @ + (IF d.refs[c] = 1 THEN 1 ELSE 0)]
    ELSE d

\* hwAccel_.reset(): ~HardwareAccel, which also leaves hwAccelMap_.
removeHardwareDecode(d) == [Unref(d, d.accel) EXCEPT !.accel = None]

\* frameQueue_->uninit(): every frame in the queue gives its reference back.
ClearQueue(d) ==
    [d EXCEPT !.refs = [c \in Contexts |-> d.refs[c] - d.queued[c]],
              !.freed = [c \in Contexts |->
                            d.freed[c] + (IF d.queued[c] > 0 /\ d.refs[c] = d.queued[c] THEN 1 ELSE 0)],
              !.queued = [c \in Contexts |-> 0]]

\* avcodec_free_context
FreeCodec(d) == [Unref(d, d.device) EXCEPT !.codec = FALSE, !.device = None]
-----------------------------------------------------------------------------
(* HardwareAccel: each operator is the set of states it may lead to *)

isAvailableHWAccelType(t) == t \in avail

\* The first of the order that is there.
findBestHWAccelType ==
    LET found == {i \in DOMAIN Priority : isAvailableHWAccelType(Priority[i])}
    IN IF found = {} THEN "none" ELSE Priority[CHOOSE i \in found : \A j \in found : i <= j]

\* av_hwdevice_ctx_create
DefaultDevice(d) == {[d EXCEPT !.accel = Default], d}

\* A context of the user becomes the device; it goes back if it cannot be
\* initialised, and nobody has it if the type is not known, if it is not what
\* the callback should have made, or if memory is short.
createHWDeviceFromUserContext(d, t) ==
    LET c == d.made + 1
        m == [d EXCEPT !.made = c]
    IN IF t \notin UserTypes THEN DefaultDevice(m)
       ELSE {[m EXCEPT !.accel = c, !.refs[c] = 1]}
            \cup DefaultDevice([m EXCEPT !.freed[c] = 1])
            \cup (IF faults THEN DefaultDevice(m) ELSE {})

\* The callback may return no context, or throw.
initHWDevice(d, t) ==
    DefaultDevice(d)
    \cup (IF config.callback /\ d.made < MaxContexts THEN createHWDeviceFromUserContext(d, t) ELSE {})

\* A type that is not there becomes kNone, which is a success without a device.
init(d) ==
    IF config.type = "kNone" THEN {d}
    ELSE IF config.type = "kAuto"
         THEN IF findBestHWAccelType = "none" THEN {d} ELSE initHWDevice(d, findBestHWAccelType)
         ELSE IF isAvailableHWAccelType(config.type) THEN initHWDevice(d, config.type) ELSE {d}

\* Seeded bug: the codec borrows the reference of the accelerator.
setupDecoderBorrowed(d) == {[d EXCEPT !.device = d.accel]}

\* The codec gets a reference of its own; if that fails the accelerator goes.
setupDecoder(d) ==
    {[Ref(d, d.accel) EXCEPT !.device = d.accel]} \cup (IF faults THEN {removeHardwareDecode(d)} ELSE {})

\* A new accelerator takes the place of the old one before it is set up.
setupHardwareDecode(d) ==
    UNION {IF a.accel = None THEN {a} ELSE setupDecoder(a) : a \in init(removeHardwareDecode(d))}
-----------------------------------------------------------------------------
(* The decoder *)

\* Seeded bug: the accelerator stays until the next one.
closeInternalKept(d) == IF d.opened THEN [ClearQueue(FreeCodec(d)) EXCEPT !.opened = FALSE] ELSE d

closeInternal(d) ==
    IF d.opened THEN [removeHardwareDecode(ClearQueue(FreeCodec(d))) EXCEPT !.opened = FALSE] ELSE d

\* A codec left by an open that failed is forgotten, with its reference.
openInternal(d) ==
    LET fresh == [closeInternal(d) EXCEPT !.codec = TRUE, !.device = None]
        ready == setupHardwareDecode(fresh)
    IN {[r EXCEPT !.opened = TRUE] : r \in ready} \cup (IF faults THEN ready \cup {fresh} ELSE {})

open == dec' \in openInternal(dec) /\ UNCHANGED <<config, avail, faults>>

close == dec.opened /\ dec' = closeInternal(dec) /\ UNCHANGED <<config, avail, faults>>

\* getHWPixelFormat finds the accelerator of the codec and takes its format.
getHWPixelFormat(d) == d.device # None /\ d.accel = d.device

\* processFrameConversion: a frame of the device stays in its memory, unless
\* frames are wanted in system memory: then transferFrameToHost copies it.
processFrameConversion(d) ==
    IF getHWPixelFormat(d) /\ d.device \in Contexts /\ ~config.inMemory
    THEN [Ref(d, d.device) EXCEPT !.queued[d.device] = @ + 1]
    ELSE d

decode ==
    /\ dec.opened /\ dec.codec /\ dec.device \in Contexts
    /\ dec.queued[dec.device] < MaxFrames
    /\ dec' = processFrameConversion(dec)
    /\ UNCHANGED <<config, avail, faults>>

\* The user takes a frame from the queue, and lets go of it at any time.
takeFrame ==
    /\ \E c \in Contexts :
        /\ dec.queued[c] > 0 /\ dec.taken[c] < MaxFrames
        /\ dec' = [dec EXCEPT !.queued[c] = @ - 1, !.taken[c] = @ + 1]
    /\ UNCHANGED <<config, avail, faults>>

releaseFrame ==
    /\ \E c \in Contexts : dec.taken[c] > 0 /\ dec' = [Unref(dec, c) EXCEPT !.taken[c] = @ - 1]
    /\ UNCHANGED <<config, avail, faults>>

shouldFallbackToSoftware(d) == config.fallback /\ d.codec /\ d.device # None

\* The codec and the accelerator go; a codec without a device takes over, or none.
reinitializeWithSoftwareDecoder(d) ==
    LET bare == removeHardwareDecode(FreeCodec(d)) IN {[bare EXCEPT !.codec = TRUE], bare}

\* A loop that has not decoded a frame yet meets errors for too long.  Frames
\* of an earlier loop, which was stopped, may still be about.
fallBack ==
    /\ dec.opened /\ shouldFallbackToSoftware(dec)
    /\ dec' \in reinitializeWithSoftwareDecoder(dec)
    /\ UNCHANGED <<config, avail, faults>>

Next == open \/ close \/ decode \/ takeFrame \/ releaseFrame \/ fallBack

Spec == Init /\ [][Next]_vars
-----------------------------------------------------------------------------
(* Properties *)

Used(c) == dec.accel = c \/ dec.device = c \/ dec.queued[c] + dec.taken[c] > 0

\* A context of the user is given back at most once, and not while the
\* accelerator, the codec or a frame somewhere still uses it.
ContextInUse == \A c \in Contexts : dec.freed[c] <= 1 /\ (Used(c) => dec.freed[c] = 0)

\* Without faults nothing is lost: when the decoder is closed and the user
\* has let go of the frames, every context that the callback made for a type that can use it
\* has been given back.
ContextReturned ==
    (~faults /\ ~dec.opened /\ (config.type = "vaapi" \/ avail = {"vaapi"})) =>
        \A c \in 1 .. dec.made : dec.taken[c] = 0 => dec.freed[c] = 1
=============================================================================
