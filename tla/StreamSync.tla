----------------------------- MODULE StreamSync -----------------------------
(***************************************************************************)
(* stream_sync/: the clocks, and the delay the video decoder waits before  *)
(* it commits a picture when frame rate control is enabled.                *)
(*                                                                         *)
(* Times are whole milliseconds and a speed is a number of quarters (4 is  *)
(* normal speed).  The code computes with doubles; what is divided here is *)
(* rounded towards zero, and comparisons are multiplied out instead.  The  *)
(* application, the audio decoder and the video decoder interleave.  The   *)
(* video decoder reads the speed, then the master clock and the drift, and *)
(* uses what it read in a later step.  One clock operation is one step.    *)
(* The functions of Clock and StreamSyncManager that nothing calls         *)
(* (setPaused, calibrate, setAVSyncThreshold, setAdaptiveSync, the quality *)
(* statistics) are left out, so the threshold stays at its 10 ms and       *)
(* adaptiveSync_ stays TRUE.                                               *)
(***************************************************************************)
EXTENDS Integers

CONSTANTS
    Stamps,         \* time stamps of frames and positions of seeks, ms
    Durations,      \* durations of pictures, ms
    Speeds,         \* playback speeds that are asked for, in quarters
    Step, MaxTime,  \* system time advances by Step, up to MaxTime
    MaxFrames,      \* bound on the pictures decoded
    MaxCalls        \* bound on the application's calls

ASSUME StreamSyncAssumption ==
    /\ Stamps \subseteq Nat /\ Durations \subseteq Nat
    /\ Speeds \subseteq Nat \ {0} /\ 4 \in Speeds
    /\ Step \in Nat \ {0} /\ MaxTime \in Nat /\ {MaxFrames, MaxCalls} \subseteq Nat

Clocks == {"audio", "video", "external"}
Threshold == 10
None == -1

VARIABLES
    live,                               \* whether the stream is a live one
    now,                                \* av_gettime_relative and steady_clock
    ptsDrift, lastUpdated, speed,       \* the members of each Clock
    master, drift,                      \* master_ and smoothedVideoDrift_
    decoderSpeed,                       \* DecoderBase::speed_
    apc, arg, calls,                    \* the application's call: step, argument, number
    vpc, frame, lastFrameTime,          \* the video decoder: step, picture, pacing
    reading, prevDrift,                 \* what computeVideoDelay has read
    decoded, result                     \* number of pictures; outcome for the present one

clocks == <<ptsDrift, lastUpdated, speed>>
app == <<apc, arg, calls>>
decoder == <<vpc, frame, lastFrameTime, reading, prevDrift, decoded, result>>
vars == <<live, now, clocks, master, drift, decoderSpeed, app, decoder>>

NoFrame == [pts |-> 0, duration |-> 0, start |-> 0, base |-> 0, speed |-> 4]
NoResult == [prev |-> 0, diff |-> 0, drift |-> 0, clock |-> 4, delay |-> 0]

\* setSpeed of a decoder refuses more than 64.
Accepted(s) == s <= 256

Init ==
    /\ live \in BOOLEAN
    /\ now = 0
    /\ ptsDrift = [k \in Clocks |-> 0] /\ lastUpdated = ptsDrift
    /\ speed = [k \in Clocks |-> 4]
    /\ master \in {"audio", "video"} /\ drift = 0
    /\ decoderSpeed \in {s \in Speeds : Accepted(s)}
    /\ apc = "idle" /\ arg = 0 /\ calls = 0
    /\ vpc = "decode" /\ frame = NoFrame /\ lastFrameTime = None
    /\ reading = 0 /\ prevDrift = 0
    /\ decoded = 0 /\ result = NoResult
-----------------------------------------------------------------------------
Least(a, b) == IF a < b THEN a ELSE b
Most(a, b) == IF a > b THEN a ELSE b
Abs(a) == IF a < 0 THEN -a ELSE a
clamp(x, lo, hi) == Most(lo, Least(x, hi))

\* a / b, rounded towards zero.
Over(a, b) == IF a < 0 THEN -((-a) \div b) ELSE a \div b

(* Clock.                                                                  *)

\* What clock k reads when its speed is s.
ReadingAt(k, s) == ptsDrift[k] + now - Over((now - lastUpdated[k]) * s, 4)
getClock(k) == ReadingAt(k, speed[k])

\* The clocks of ks are set to v.
setClock(ks, v) ==
    /\ ptsDrift' = [k \in Clocks |-> IF k \in ks THEN v[k] - now ELSE ptsDrift[k]]
    /\ lastUpdated' = [k \in Clocks |-> IF k \in ks THEN now ELSE lastUpdated[k]]

\* The new speed is in place when a clock is set to what it reads.
setClockSpeed(s) ==
    /\ speed' = [k \in Clocks |-> s]
    /\ setClock({k \in Clocks : speed[k] # s}, [k \in Clocks |-> ReadingAt(k, s)])

resetClocks ==
    /\ setClock(Clocks, [k \in Clocks |-> 0])
    /\ speed' = [k \in Clocks |-> 4]
    /\ drift' = 0

updateClock(k, p) == setClock({k}, [c \in Clocks |-> p]) /\ UNCHANGED speed

Tick ==
    /\ now < MaxTime
    /\ now' = now + Step
    /\ UNCHANGED <<live, clocks, master, drift, decoderSpeed, app, decoder>>
-----------------------------------------------------------------------------
(* The application.  But for setMasterClock its calls hold the mutex_ of    *)
(* the controller.                                                         *)

Call == calls < MaxCalls /\ calls' = calls + 1

\* startDecode resets the clocks and later makes audio the master.  It gives
\* the decoders the speed they have been given before.
startDecode ==
    /\ apc = "idle" /\ Call
    /\ resetClocks
    /\ apc' = "master"
    /\ UNCHANGED <<live, now, master, decoderSpeed, arg, decoder>>

DefaultMaster ==
    /\ apc = "master"
    /\ master' = "audio"
    /\ apc' = "idle"
    /\ UNCHANGED <<live, now, clocks, drift, decoderSpeed, arg, calls, decoder>>

resume ==
    /\ apc = "idle" /\ live /\ Call
    /\ resetClocks
    /\ UNCHANGED <<live, now, master, decoderSpeed, apc, arg, decoder>>

\* seek resets the clocks and then sets those of the decoders.
seek(position) ==
    /\ apc = "idle" /\ ~live /\ Call
    /\ resetClocks
    /\ apc' = "audio" /\ arg' = position
    /\ UNCHANGED <<live, now, master, decoderSpeed, decoder>>

SeekAudioClock ==
    /\ apc = "audio"
    /\ updateClock("audio", arg)
    /\ apc' = "video"
    /\ UNCHANGED <<live, now, master, drift, decoderSpeed, arg, calls, decoder>>

SeekVideoClock ==
    /\ apc = "video"
    /\ updateClock("video", arg)
    /\ apc' = "idle" /\ arg' = 0
    /\ UNCHANGED <<live, now, master, drift, decoderSpeed, calls, decoder>>

\* setSpeed tells the decoders first and the clocks after them.
setSpeed(s) ==
    /\ apc = "idle" /\ ~live /\ Call
    /\ decoderSpeed' = IF Accepted(s) THEN s ELSE decoderSpeed
    /\ apc' = "speed" /\ arg' = s
    /\ UNCHANGED <<live, now, clocks, master, drift, decoder>>

SetClockSpeeds ==
    /\ apc = "speed"
    /\ setClockSpeed(arg)
    /\ apc' = "idle" /\ arg' = 0
    /\ UNCHANGED <<live, now, master, drift, decoderSpeed, calls, decoder>>

setMasterClock(k) ==
    /\ master # k /\ Call
    /\ master' = k
    /\ UNCHANGED <<live, now, clocks, drift, decoderSpeed, apc, arg, decoder>>
-----------------------------------------------------------------------------
(* The decoders.                                                           *)

\* A frame of sound, or 0 at the start and on a new serial.
updateAudioClock(p) ==
    /\ updateClock("audio", p)
    /\ UNCHANGED <<live, now, master, drift, decoderSpeed, app, decoder>>

\* decodeLoop starts, or sees a new serial: the clock is set to 0 and the
\* pacing begins anew.
NewSerial ==
    /\ vpc = "decode"
    /\ updateClock("video", 0)
    /\ lastFrameTime' = None
    /\ UNCHANGED <<live, now, master, drift, decoderSpeed, app, vpc, frame, reading, prevDrift,
                   decoded, result>>

\* decodeLoop has waited for the end of a pause.
Waited ==
    /\ vpc = "decode" /\ lastFrameTime # None
    /\ lastFrameTime' = None
    /\ UNCHANGED <<live, now, clocks, master, drift, decoderSpeed, app, vpc, frame, reading,
                   prevDrift, decoded, result>>

\* A picture is decoded.  It is left out (seek in progress, before the target
\* of a seek, not convertible) or goes on to be shown.
Decoded(p, d) ==
    /\ vpc = "decode" /\ decoded < MaxFrames
    /\ updateClock("video", p)
    /\ decoded' = decoded + 1
    /\ \/ UNCHANGED <<vpc, frame>>
       \/ vpc' = "display" /\ frame' = [NoFrame EXCEPT !.pts = p, !.duration = d, !.start = now]
    /\ UNCHANGED <<live, now, master, drift, decoderSpeed, app, lastFrameTime, reading, prevDrift,
                   result>>

\* The time the picture is due, from the one before it.
nextFrameTime == lastFrameTime + Over(frame.duration * 4, decoderSpeed)

calculateFrameDisplayTime ==
    /\ vpc = "display"
    /\ lastFrameTime' = IF lastFrameTime = None THEN frame.start ELSE nextFrameTime
    /\ frame' = [frame EXCEPT !.base = lastFrameTime' - frame.start, !.speed = decoderSpeed]
    /\ vpc' = "read"
    /\ UNCHANGED <<live, now, clocks, master, drift, decoderSpeed, app, reading, prevDrift, decoded,
                   result>>

getMasterClock ==
    /\ vpc = "read"
    /\ reading' = getClock(master) /\ prevDrift' = drift
    /\ vpc' = "compute"
    /\ UNCHANGED <<live, now, clocks, master, drift, decoderSpeed, app, frame, lastFrameTime,
                   decoded, result>>

\* Seeded bug: the accumulated drift is not limited.
smoothUnlimited(prev, cur, s) == prev + Over(5 * s * (cur - prev), 200)

\* alpha_ is 0.1 and maxChange 100 ms; both are multiplied by the speed (4 at
\* most) and doubled when the drift changes its sign.  The result stays within
\* 200 ms times the speed.
smoothEMA(prev, cur, s) ==
    LET f == Least(s, 16)
        turn == (prev > 0 /\ cur < 0) \/ (prev < 0 /\ cur > 0)
        maxChange == (IF turn THEN 50 ELSE 25) * f
        alpha == IF turn THEN Least(2 * Least(5 * f, 180), 200) ELSE Least(5 * f, 180)
        change == clamp(cur - prev, -maxChange, maxChange)
    IN  clamp(prev + Over(alpha * change, 200), -50 * f, 50 * f)

\* Four times the threshold for the drift d; the drift of audio is always 0.
computeAdaptiveThreshold(d) == clamp(4 * Threshold + Abs(d), 20, 200)

\* Seeded bug: a short picture is dropped however little it is late.
shouldDropShort(d, duration) == d < 0 /\ duration * speed["video"] < 132

shouldDropFrame(d, duration) ==
    d * speed["video"] < -12 * Threshold /\ duration * speed["video"] < 132

\* Seeded bug: the delay of a picture that is early shrinks.
delaySwapped(d, s, base) ==
    Most(0, IF Abs(d) * s <= computeAdaptiveThreshold(d) THEN base ELSE base - Over(4 * d, s))

\* The delay of a picture that is not dropped.
correctedDelay(d, s, base) ==
    Most(0, IF Abs(d) * s <= computeAdaptiveThreshold(d) THEN base
            ELSE IF d > 0 THEN base + Over(4 * d, s)
            ELSE base + Over(d * Least(8, s), 8))

\* A dropped picture has the delay -1.
computeVideoDelay ==
    /\ vpc = "compute"
    /\ LET diff == frame.pts - reading
           d == smoothEMA(prevDrift, diff, frame.speed)
           drop == /\ d * frame.speed < -computeAdaptiveThreshold(d)
                   /\ shouldDropFrame(d, frame.duration)
       IN  /\ drift' = d
           /\ result' = [prev |-> prevDrift, diff |-> diff, drift |-> d, clock |-> speed["video"],
                         delay |-> IF drop THEN -1 ELSE correctedDelay(d, frame.speed, frame.base)]
    /\ vpc' = "wait"
    /\ UNCHANGED <<live, now, clocks, master, decoderSpeed, app, frame, lastFrameTime, reading,
                   prevDrift, decoded>>

\* sleep_until has come back, or there is nothing to wait for.
Slept == vpc = "wait" /\ (result.delay > 0 => now >= frame.start + result.delay)

\* A dropped picture is released at once, another committed after its delay.
commitFrame ==
    /\ Slept
    /\ vpc' = "decode" /\ frame' = NoFrame /\ result' = NoResult
    /\ reading' = 0 /\ prevDrift' = 0
    /\ UNCHANGED <<live, now, clocks, master, drift, decoderSpeed, app, lastFrameTime, decoded>>
-----------------------------------------------------------------------------
Application ==
    \/ startDecode \/ DefaultMaster \/ resume
    \/ \E p \in Stamps : seek(p)
    \/ SeekAudioClock \/ SeekVideoClock
    \/ \E s \in Speeds : setSpeed(s)
    \/ SetClockSpeeds
    \/ \E k \in Clocks : setMasterClock(k)

Decoders ==
    \/ \E p \in Stamps : updateAudioClock(p)
    \/ NewSerial \/ Waited
    \/ \E p \in Stamps, d \in Durations : Decoded(p, d)
    \/ calculateFrameDisplayTime \/ getMasterClock \/ computeVideoDelay \/ commitFrame

Next == Tick \/ Application \/ Decoders

Spec == Init /\ [][Next]_vars
-----------------------------------------------------------------------------
\* computeVideoDelay holds a picture back by at most 200 ms on top of its
\* pacing, whatever the speeds and the clocks, and a late one by nothing.
DelayBounded ==
    /\ result.delay <= Most(0, frame.base) + 200
    /\ result.drift < 0 => result.delay <= Most(0, frame.base)

\* evaluateSyncState, as the statistics report it.
evaluateSyncState(d) ==
    IF d < Threshold THEN "inSync" ELSE IF d < 3 * Threshold THEN "slightDrift" ELSE "outOfSync"

\* While the video clock is at normal speed or slower, shouldDropFrame drops a
\* picture only where evaluateSyncState has the streams out of sync, and only
\* for being late.
DropsOnlyLate ==
    result.delay = -1 =>
        /\ result.drift < 0 /\ (result.diff < 0 \/ result.prev < 0)
        /\ result.clock <= 4 => evaluateSyncState(Abs(result.drift)) = "outOfSync"

\* decodeLoop commits no picture before the time calculateFrameDisplayTime
\* gave it unless the video is late.
NotEarly == Slept /\ result.drift >= 0 => now >= lastFrameTime
=============================================================================
