----------------------------- MODULE VideoPlayer ----------------------------
(***************************************************************************)
(* One player of the GUI: VideoPlayerImpl in the UI thread, and its        *)
(* RenderWorker, which owns the video and the audio renderer, in a render  *)
(* thread.  The UI thread sends the worker its slots as queued signals;    *)
(* the worker answers with textureReady, whose handler has no context      *)
(* object and therefore runs in the render thread.                         *)
(*                                                                         *)
(* Renderers are told apart by numbers.  A renderer lives while the worker *)
(* or a paintGL in progress holds it; the player keeps a weak pointer.     *)
(* What a VideoRender does inside is RenderBufferQueue.                    *)
(***************************************************************************)
EXTENDS Integers, Sequences

CONSTANTS
    Kinds,       \* pixel format and size of a video frame, as a renderer sees them
    Sounds,      \* rate, channels and sample format of an audio frame
    MaxPosted    \* bound: slots waiting for the render thread

Ids == 1 .. 4   \* enough for the renderers that something still refers to
None == 0
NoVideo == [id |-> None, kind |-> "none", valid |-> FALSE]
NoAudio == [kind |-> "none", valid |-> FALSE, playing |-> FALSE]

VARIABLES
    playerState,     \* playerState_
    posted,          \* the slots posted to the render thread
    video,           \* RenderWorker::render_ and the format it was made for
    audio,           \* RenderWorker::audioRender_ and the format it was made for
    texture,         \* a rendered texture that has not been announced yet
    shown,           \* VideoPlayerImpl::render_, a weak pointer
    held,            \* the renderer that paintGL has locked
    timer, timeout,  \* streamOpenErrorTimer_ is active, streamOpenTimeout_
    failed,          \* history: an open has failed since the last success or stop
    worker           \* the render thread: running, quit, gone, killed

vars == <<playerState, posted, video, audio, texture, shown, held, timer, timeout, failed,
          worker>>
render == <<video, audio, texture, shown>>
opening == <<timer, timeout, failed>>

Init ==
    /\ playerState = "Stop" /\ posted = <<>>
    /\ video = NoVideo /\ audio = NoAudio /\ texture = FALSE /\ shown = None /\ held = None
    /\ timer = FALSE /\ timeout = FALSE /\ failed = FALSE
    /\ worker = "running"

Alive(id) == id # None /\ id \in {video.id, held}
-----------------------------------------------------------------------------
(* The UI thread *)

Room(n) == Len(posted) + n <= MaxPosted /\ worker = "running"

\* The slot that setPlayerState posts for a state.
Prepares(s) ==
    CASE s = "Playing" -> <<"playing">> [] s = "Pause" -> <<"pause">> [] s = "Stop" -> <<"stop">>
      [] OTHER -> <<>>

\* A pause also takes the last picture from the renderer; a stop ends the
\* watch over the opening.
setPlayerState(s) ==
    /\ Room(1)
    /\ playerState' = s
    /\ posted' = posted \o Prepares(s)
    /\ IF s = "Stop" THEN timer' = FALSE /\ timeout' = FALSE /\ failed' = FALSE
                     ELSE UNCHANGED <<timer, timeout, failed>>
    /\ UNCHANGED <<render, held, worker>>

\* What RtspStreamPlayer asks for.
command ==
    \/ setPlayerState("Stop")
    \/ playerState = "Stop" /\ setPlayerState("Start")
    \/ playerState \in {"Start", "Playing", "Resume"} /\ setPlayerState("Pause")
    \/ playerState = "Pause" /\ setPlayerState("Resume")

\* Seeded bug: the state is not asked.
videoFrameReadyAlways(f) ==
    /\ Room(2)
    /\ posted' = posted \o <<f>>
    /\ UNCHANGED <<playerState, render, held, opening, worker>>

\* The first frame makes the player play; no frame passes a stop or a pause.
videoFrameReady(f) ==
    /\ Room(2) /\ playerState \in {"Start", "Resume", "Playing"}
    /\ playerState' = "Playing"
    /\ posted' = posted \o (IF playerState = "Playing" THEN <<>> ELSE Prepares("Playing")) \o <<f>>
    /\ UNCHANGED <<render, held, opening, worker>>

\* paintGL locks the weak pointer and draws; the last reference may be this one.
paintGL ==
    /\ held = None /\ Alive(shown) /\ playerState \in {"Playing", "Pause"}
    /\ held' = shown
    /\ UNCHANGED <<playerState, posted, render, opening, worker>>

painted ==
    /\ held # None
    /\ held' = None
    /\ UNCHANGED <<playerState, posted, render, opening, worker>>

\* Seeded bug: a success leaves the timer running.
onDecoderEventChangedTicking(e) ==
    /\ worker = "running"
    /\ timer' = (timer \/ (e = "kStreamOpenFailed" /\ ~timeout))
    /\ timeout' = (timeout /\ e = "kStreamOpenFailed")
    /\ failed' = (e = "kStreamOpenFailed")
    /\ UNCHANGED <<playerState, posted, render, held, worker>>

\* A failure starts the timer unless it runs or has run out already.
onDecoderEventChanged(e) ==
    /\ worker = "running"
    /\ timer' = (e = "kStreamOpenFailed" /\ (timer \/ ~timeout))
    /\ timeout' = (timeout /\ e = "kStreamOpenFailed")
    /\ failed' = (e = "kStreamOpenFailed")
    /\ UNCHANGED <<playerState, posted, render, held, worker>>

\* The timer of 18 s runs out: streamClosed.
streamOpenTimeout ==
    /\ worker = "running" /\ timer
    /\ timer' = FALSE /\ timeout' = TRUE
    /\ UNCHANGED <<playerState, posted, render, held, failed, worker>>

\* ~VideoPlayerImpl: the worker is to delete itself, its thread to quit.
destructor ==
    /\ worker = "running" /\ held = None
    /\ worker' = "quit"
    /\ UNCHANGED <<playerState, posted, render, held, opening>>

\* After three seconds the thread is terminated, and what it owned stays.
terminate ==
    /\ worker = "quit"
    /\ worker' = "killed"
    /\ UNCHANGED <<playerState, posted, render, held, opening>>
-----------------------------------------------------------------------------
(* The render thread: the slot at the head of the queue *)

Slot == Head(posted)
Runs == worker = "running" /\ posted # <<>> /\ ~texture
Unused == CHOOSE i \in Ids : i \notin {video.id, shown, held}

\* AudioRender: made for a format, valid if the device could be opened.
AudioRender_initialize(k, ok) == [kind |-> k, valid |-> ok, playing |-> FALSE]
AudioRender_start(a, ok) == [a EXCEPT !.playing = @ \/ (a.valid /\ ok)]

\* A new format makes a new AudioRender, which stops the old one.
renderAudio ==
    /\ Runs /\ Slot \in Sounds
    /\ posted' = Tail(posted)
    /\ IF audio.kind = Slot THEN UNCHANGED audio
       ELSE \E ok, started \in BOOLEAN :
                audio' = AudioRender_start(AudioRender_initialize(Slot, ok), started)
    /\ UNCHANGED <<playerState, video, texture, shown, held, opening, worker>>

\* createRenderer and VideoRender::initialize, which may fail.
createRenderer(k, ok) == [id |-> Unused, kind |-> k, valid |-> ok]

\* A renderer is made for the first frame, for another size or format, and
\* for every frame while initialize fails.
renderVideo ==
    /\ Runs /\ Slot \in Kinds
    /\ posted' = Tail(posted)
    /\ IF video.valid /\ video.kind = Slot THEN UNCHANGED video
       ELSE \E ok \in BOOLEAN : video' = createRenderer(Slot, ok)
    /\ texture' = TRUE
    /\ UNCHANGED <<playerState, audio, shown, held, opening, worker>>

\* Seeded bug: the weak pointer is set only when what it points to is gone.
textureReadyOnce ==
    /\ texture /\ worker \in {"running", "quit"}
    /\ texture' = FALSE
    /\ shown' = IF playerState = "Playing" /\ ~Alive(shown) THEN video.id ELSE shown
    /\ UNCHANGED <<playerState, posted, video, audio, held, opening, worker>>

\* The lambda of VideoPlayerImpl::initialize, in the render thread.
textureReady ==
    /\ texture /\ worker \in {"running", "quit"}
    /\ texture' = FALSE
    /\ shown' = IF playerState = "Playing" THEN video.id ELSE shown
    /\ UNCHANGED <<playerState, posted, video, audio, held, opening, worker>>

\* preparePlaying sets a flag that nothing reads.
preparePlaying ==
    /\ Runs /\ Slot = "playing"
    /\ posted' = Tail(posted)
    /\ UNCHANGED <<playerState, render, held, opening, worker>>

\* prepareStop and preparePause: both renderers go.
prepareStop ==
    /\ Runs /\ Slot \in {"stop", "pause"}
    /\ posted' = Tail(posted)
    /\ video' = NoVideo /\ audio' = NoAudio
    /\ UNCHANGED <<playerState, texture, shown, held, opening, worker>>

\* The thread leaves its loop, perhaps before it has taken all slots, and
\* deletes the worker.
workerDeleted ==
    /\ worker = "quit" /\ ~texture
    /\ worker' = "gone"
    /\ posted' = <<>>
    /\ video' = NoVideo /\ audio' = NoAudio
    /\ UNCHANGED <<playerState, texture, shown, held, opening>>

Next ==
    \/ command \/ \E f \in Kinds \cup Sounds : videoFrameReady(f)
    \/ paintGL \/ painted
    \/ \E e \in {"kStreamOpenFailed", "kStreamOpened"} : onDecoderEventChanged(e)
    \/ streamOpenTimeout \/ destructor \/ terminate
    \/ renderAudio \/ renderVideo \/ textureReady \/ preparePlaying \/ prepareStop \/ workerDeleted

Spec == Init /\ [][Next]_vars
-----------------------------------------------------------------------------
(* Properties *)

CaughtUp == posted = <<>> /\ ~texture

\* Once the render thread has caught up with a stop or a pause, or has deleted
\* its worker, no renderer and no audio output is left, whatever frames were
\* under way.
Released ==
    ((playerState \in {"Stop", "Pause"} /\ CaughtUp /\ worker = "running") \/ worker = "gone") =>
        video = NoVideo /\ audio = NoAudio

\* Once the render thread has caught up with a player that plays, the weak
\* pointer that paintGL uses is that of the renderer in use, although the
\* handler that sets it ignores the textures announced in any other state.
PlayingVisible ==
    (playerState = "Playing" /\ CaughtUp /\ worker = "running" /\ video # NoVideo) => shown = video.id

\* The timer that will report the stream as closed runs only while the last
\* attempt to open has failed, and not after it has reported: one streamClosed
\* for a series of failures.
TimeoutTrue == timer => failed /\ ~timeout
=============================================================================
