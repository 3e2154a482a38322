----------------------------- MODULE PlayerSession -----------------------------
(* The player process (rustconsole-player pipe-session): its main loop, the    *)
(* thread of the stream session it runs at any time, and what they share: the  *)
(* channel of session events, the queue of decoded frames, the channel of      *)
(* input and the stop flag.  The main loop reads commands from the client's    *)
(* pipe and presents with the renderer of Presenter.                           *)
(*                                                                             *)
(* One iteration of the loop polls, in turn, the command, the retry time, the  *)
(* session events, the window events and the frames, then renders.  Each poll  *)
(* is an action, and they are taken in any order: every poll may find nothing, *)
(* and the polls of events stop after two milliseconds whatever is left.       *)
EXTENDS Presenter, SequencesExt

CONSTANTS
    Depths,        \* the bit depths a session may negotiate
    MaxFailures,   \* bound: sessions that fail and swapchains that are replaced
    MaxInputs,     \* bound: events for the host and times it asks for the pointer back
    MaxFrames,     \* bound: frames a session delivers
    InputCapacity  \* input_channel: events that wait for the session thread

ASSUME PlayerAssumption ==
    /\ Depths \subseteq Nat \ {0} /\ InputCapacity \in Nat \ {0}
    /\ {MaxFailures, MaxInputs, MaxFrames} \subseteq Nat

VARIABLES
    loop,       \* the main loop's variables
    thread,     \* the session thread: phase, stop flag, depth, frames left
    orphans,    \* session threads that run although the loop has lost them
    sessionRx,  \* events from the session thread: [sid, kind, depth]
    frames,     \* LatestVideoQueue: the sessions of the decoded frames in it
    input,      \* how many input events wait for the session thread
    commands,   \* the command pipe
    surface,    \* what the window's device offers the renderer
    tally       \* what the bounds count

playerVars == <<loop, thread, orphans, sessionRx, frames, input, commands, surface, screen, tally>>

VideoQueueCapacity == 2

-------------------------------------------------------------------------------
(* Starting a session.                                                         *)

NoThread == [phase |-> "gone", stop |-> FALSE, depth |-> 0, left |-> 0]

FreshThread == [phase |-> "opening", stop |-> FALSE, depth |-> 0, left |-> MaxFrames]

(* "todo" is what the loop is blocked in: sending input, dropping the renderer *)
(* or replacing its swapchain, and what it presented before that.              *)
FreshLoop ==
    [pc |-> "running", why |-> "", todo |-> "", sid |-> 1,
     authenticated |-> FALSE, started |-> FALSE, ever |-> FALSE,
     recovering |-> FALSE, stable |-> FALSE, retry |-> FALSE,
     preference |-> 8, last |-> 0, fresh |-> FALSE, pending |-> {}, result |-> "ended"]

(* A thread the loop drops without having joined it goes on by itself.         *)
LeftRunning(t) == IF t.phase = "gone" THEN 0 ELSE 1

(* The sessions are 1 and 2 in turn: what one leaves, the next would see.       *)
StartSession(l) ==
    /\ thread' = FreshThread
    /\ orphans' = orphans + LeftRunning(thread)
    /\ loop' = [l EXCEPT !.sid = 3 - @]
    /\ input' = 0

Running == loop.pc = "running" /\ loop.todo = ""

-------------------------------------------------------------------------------
(* Leaving a session.  send_input blocks while the channel is full and its     *)
(* receiver lives; stop sets the flag and joins the thread.  What follows is   *)
(* in "why": exit, restart (a new session at once) or retry (after a delay).   *)

Leave(l, why, todo) == [l EXCEPT !.pc = "leaving", !.why = why, !.todo = todo]

Break(l, result) == [Leave(l, "exit", "input") EXCEPT !.result = result]

(* InputSender::blocking_send.                                                 *)
SendInput ==
    /\ loop.todo = "input"
    /\ \/ thread.phase = "gone" /\ UNCHANGED input
       \/ thread.phase # "gone" /\ input < InputCapacity /\ input' = input + 1
    /\ loop' = [loop EXCEPT !.todo = ""]
    /\ UNCHANGED <<thread, orphans, sessionRx, frames, commands, surface, screen, tally>>

RaiseStop ==
    /\ loop.pc = "leaving" /\ loop.todo = "" /\ ~thread.stop
    /\ thread' = [thread EXCEPT !.stop = TRUE]
    /\ UNCHANGED <<loop, orphans, sessionRx, frames, input, commands, surface, screen, tally>>

Joined == loop.pc = "leaving" /\ loop.todo = "" /\ thread.stop /\ thread.phase = "gone"

(* The renderer is dropped when nothing uses it any more.                      *)
RendererDropped == Idle(screen) /\ screen' = NoRenderer

(* What the loop forgets between two sessions.                                 *)
Forgotten(l) ==
    [l EXCEPT !.pc = "running", !.why = "", !.authenticated = FALSE, !.started = FALSE,
              !.recovering = TRUE, !.stable = FALSE,
              !.last = 0, !.fresh = FALSE, !.pending = {}, !.result = "ended"]

(* Mutant: the events are drained before the thread has been joined.           *)
EmptiedEarly ==
    /\ sessionRx' = IF sessionRx = <<>> THEN <<>> ELSE <<Last(sessionRx)>>
    /\ frames' = <<>>

Emptied == sessionRx' = <<>> /\ frames' = <<>>

(* Mutant: a retry that is due stays due.                                      *)
StillDue(l) == Forgotten(l)

(* Reconnect and Reconfigure: the next session starts at once.                 *)
Restarted(l) == [Forgotten(l) EXCEPT !.retry = FALSE]

Restart ==
    /\ Joined /\ loop.why = "restart"
    /\ Emptied /\ RendererDropped
    /\ StartSession(Restarted(loop))
    /\ UNCHANGED <<commands, surface, tally>>

(* Mutant: the retry time is never set.                                        *)
NoRetryTime ==
    /\ Joined /\ loop.why = "retry"
    /\ Emptied /\ RendererDropped
    /\ loop' = Forgotten(loop)
    /\ UNCHANGED <<thread, orphans, input, commands, surface, tally>>

(* A lost session: the next one starts after the backoff's delay.              *)
AwaitRetry ==
    /\ Joined /\ loop.why = "retry"
    /\ Emptied /\ RendererDropped
    /\ loop' = [Forgotten(loop) EXCEPT !.retry = TRUE]
    /\ UNCHANGED <<thread, orphans, input, commands, surface, tally>>

(* The process is gone, and with it its threads and what they held.            *)
Ended(result) ==
    /\ loop' = [FreshLoop EXCEPT !.pc = "exited", !.result = result]
    /\ thread' = NoThread /\ sessionRx' = <<>> /\ frames' = <<>> /\ input' = 0
    /\ screen' = NoRenderer
    /\ UNCHANGED <<orphans, commands, surface>>

Exit ==
    /\ Joined /\ loop.why = "exit"
    /\ RendererDropped
    /\ Ended(loop.result)
    /\ UNCHANGED tally

(* The retry time has come.                                                    *)
Retry ==
    /\ Running /\ loop.retry
    /\ StartSession([loop EXCEPT !.retry = FALSE])
    /\ UNCHANGED <<sessionRx, frames, commands, surface, screen, tally>>

-------------------------------------------------------------------------------
(* The command poll.  The end of the pipe is the same to the loop as a Stop.   *)

(* Mutant: a command that comes while a retry is awaited is lost.              *)
LostWhileWaiting ==
    /\ Running /\ commands # <<>>
    /\ commands' = Tail(commands)
    /\ loop' = CASE loop.retry -> loop
                 [] ~loop.retry /\ Head(commands) = "stop" -> Break(loop, "ended")
                 [] ~loop.retry /\ Head(commands) # "stop" -> Leave(loop, "restart", "input")
    /\ UNCHANGED <<thread, orphans, sessionRx, frames, input, surface, screen, tally>>

TakeCommand ==
    /\ Running /\ commands # <<>>
    /\ commands' = Tail(commands)
    /\ loop' = IF Head(commands) = "stop" THEN Break(loop, "ended") ELSE Leave(loop, "restart", "input")
    /\ UNCHANGED <<thread, orphans, sessionRx, frames, input, surface, screen, tally>>

-------------------------------------------------------------------------------
(* The session events.                                                         *)

(* should_retry_session_end *)
Retries(l, failed) == l.ever /\ failed

OnAuthenticated(l) == [l EXCEPT !.authenticated = TRUE]

OnVideoNegotiated(l, depth) ==
    [l EXCEPT !.preference = depth, !.todo = IF Made(screen) THEN "drop" ELSE ""]

OnReleaseCapture(l) == [l EXCEPT !.todo = "input"]

OnBudgetExceeded(l) == Break(l, "error")

OnReconfigure(l) == Leave(l, "restart", "input")

OnEnded(l, failed) ==
    IF Retries(l, failed) THEN Leave(l, "retry", "")
    ELSE Break(l, IF failed THEN "error" ELSE "ended")

Handled(l, kind, depth) ==
    CASE kind = "authenticated" -> OnAuthenticated(l)
      [] kind = "negotiated" -> OnVideoNegotiated(l, depth)
      [] kind = "release" -> OnReleaseCapture(l)
      [] kind = "latency" -> OnBudgetExceeded(l)
      [] kind = "reconfigure" -> OnReconfigure(l)
      [] kind = "failed" -> OnEnded(l, TRUE)
      [] kind = "stopped" -> OnEnded(l, FALSE)

TakeEvent ==
    /\ Running /\ sessionRx # <<>>
    /\ sessionRx' = Tail(sessionRx)
    /\ loop' = Handled(loop, Head(sessionRx).kind, Head(sessionRx).depth)
    /\ UNCHANGED <<thread, orphans, frames, input, commands, surface, screen, tally>>

DropRenderer ==
    /\ loop.todo = "drop"
    /\ RendererDropped
    /\ loop' = [loop EXCEPT !.todo = ""]
    /\ UNCHANGED <<thread, orphans, sessionRx, frames, input, commands, surface, tally>>

-------------------------------------------------------------------------------
(* Window events: a key, a button, the wheel, a movement or the loss of the    *)
(* focus is an event for the host, unless the player's own controls take it.   *)

WindowInput ==
    /\ Running /\ tally.inputs < MaxInputs
    /\ tally' = [tally EXCEPT !.inputs = @ + 1]
    /\ loop' = [loop EXCEPT !.todo = "input"]
    /\ UNCHANGED <<thread, orphans, sessionRx, frames, input, commands, surface, screen>>

Quit ==
    /\ Running
    /\ loop' = Break(loop, "ended")
    /\ UNCHANGED <<thread, orphans, sessionRx, frames, input, commands, surface, screen, tally>>

-------------------------------------------------------------------------------
(* Frames and rendering.                                                       *)

TakeFrame ==
    /\ Running /\ frames # <<>>
    /\ loop' = [loop EXCEPT !.last = Last(frames), !.fresh = TRUE]
    /\ frames' = <<>>
    /\ UNCHANGED <<thread, orphans, sessionRx, input, commands, surface, screen, tally>>

Renders == Running /\ (loop.authenticated \/ loop.recovering)

(* A renderer is made for the preferred output when there is none.             *)
Rendering == IF Made(screen) THEN screen ELSE NewRenderer(surface, loop.preference)

LoadingDrawn == Submitted(Rendering, LoadingCommands(Rendering))

(* present_loading *)
ShowLoading ==
    /\ Renders /\ loop.last = 0 /\ SlotFree(Rendering)
    /\ screen' = LoadingDrawn
    /\ UNCHANGED <<loop, thread, orphans, sessionRx, frames, input, commands, surface, tally>>

(* A frame is measured once: when the compositor has shown it, if its          *)
(* presentation is tracked, at once otherwise.                                 *)
Measured(l, tracked) ==
    [l EXCEPT !.fresh = FALSE,
              !.pending = IF l.fresh /\ tracked THEN @ \union {l.last} ELSE @]

(* After present_frame; "started" is reported to the client.                   *)
Shown(l, tracked) ==
    [Measured(l, tracked) EXCEPT
        !.todo = "", !.started = TRUE, !.ever = TRUE, !.stable = @ \/ ~l.started]

(* Only the presentation that counts is known to "pending".                    *)
Owner == IF loop.fresh THEN loop.last ELSE 0

Drawn == Submitted(Rendering, FrameCommands(Rendering, loop.last))

(* present_frame *)
ShowFrame ==
    /\ Renders /\ loop.last # 0 /\ SlotFree(Rendering)
    /\ screen' = Tracked(Drawn, Owner)
    /\ loop' = Shown(loop, CanTrack(Drawn))
    /\ UNCHANGED <<thread, orphans, sessionRx, frames, input, commands, surface, tally>>

(* The window's size has changed: the swapchain is replaced first.             *)
WindowResized ==
    /\ Renders /\ Made(screen) /\ tally.failures < MaxFailures
    /\ loop' = [loop EXCEPT !.todo = "resized"]
    /\ tally' = [tally EXCEPT !.failures = @ + 1]
    /\ UNCHANGED <<thread, orphans, sessionRx, frames, input, commands, surface, screen>>

(* acquire_next_image finds the swapchain out of date: nothing is drawn, but   *)
(* the frame counts as shown.                                                  *)
NothingAcquired ==
    /\ Renders /\ SlotFree(Rendering) /\ tally.failures < MaxFailures
    /\ screen' = Rendering
    /\ loop' = [loop EXCEPT !.todo = IF loop.last = 0 THEN "resized" ELSE "untracked"]
    /\ tally' = [tally EXCEPT !.failures = @ + 1]
    /\ UNCHANGED <<thread, orphans, sessionRx, frames, input, commands, surface>>

(* queue_present takes the frame and finds the swapchain suboptimal, or finds  *)
(* it out of date and refuses the frame.                                       *)
PresentedOutdated(queued) ==
    /\ Renders /\ loop.last # 0 /\ SlotFree(Rendering) /\ tally.failures < MaxFailures
    /\ screen' = IF queued THEN Tracked(Drawn, Owner) ELSE Drawn
    /\ loop' = [loop EXCEPT !.todo = IF queued /\ CanTrack(Drawn) THEN "tracked" ELSE "untracked"]
    /\ tally' = [tally EXCEPT !.failures = @ + 1]
    /\ UNCHANGED <<thread, orphans, sessionRx, frames, input, commands, surface>>

(* Mutant: the tracker is not drained.                                         *)
RecreatedUndrained ==
    /\ loop.todo \in {"resized", "tracked", "untracked"}
    /\ screen.gpu = <<>>
    /\ screen' = Recreated(screen)
    /\ loop' = IF loop.todo = "resized" THEN [loop EXCEPT !.todo = ""]
               ELSE Shown(loop, loop.todo = "tracked")
    /\ UNCHANGED <<thread, orphans, sessionRx, frames, input, commands, surface, tally>>

(* recreate_swapchain, and what follows the presentation that called it.       *)
RecreateSwapchain ==
    /\ loop.todo \in {"resized", "tracked", "untracked"}
    /\ Idle(screen)
    /\ screen' = Recreated(screen)
    /\ loop' = IF loop.todo = "resized" THEN [loop EXCEPT !.todo = ""]
               ELSE Shown(loop, loop.todo = "tracked")
    /\ UNCHANGED <<thread, orphans, sessionRx, frames, input, commands, surface, tally>>

(* take_presentation_feedback *)
TakeFeedback ==
    /\ Running /\ screen.feedback # <<>>
    /\ screen' = [screen EXCEPT !.feedback = Tail(@)]
    /\ loop' = [loop EXCEPT !.pending = @ \ {Head(screen.feedback)}]
    /\ UNCHANGED <<thread, orphans, sessionRx, frames, input, commands, surface, tally>>

(* Thirty seconds without a loss end the recovery.                             *)
BecomesStable ==
    /\ Running /\ loop.recovering /\ loop.stable
    /\ loop' = [loop EXCEPT !.recovering = FALSE, !.stable = FALSE]
    /\ UNCHANGED <<thread, orphans, sessionRx, frames, input, commands, surface, screen, tally>>

-------------------------------------------------------------------------------
(* The session thread: stream_quic_video on the network, in its phases.  It    *)
(* polls the stop flag only while it receives the stream; before that it ends  *)
(* by itself, with the connection or with one of its timeouts.                 *)

Tell(kind) ==
    sessionRx' = Append(sessionRx, [sid |-> loop.sid, kind |-> kind, depth |-> thread'.depth])

(* The VA-API device and its decoder are opened before the host is called.     *)
OpenDecoder ==
    /\ thread.phase = "opening"
    /\ thread' = [thread EXCEPT !.phase = "connecting"]
    /\ UNCHANGED <<loop, orphans, sessionRx, frames, input, commands, surface, screen, tally>>

Authenticate ==
    /\ thread.phase = "connecting"
    /\ thread' = [thread EXCEPT !.phase = "authenticated"]
    /\ Tell("authenticated")
    /\ UNCHANGED <<loop, orphans, frames, input, commands, surface, screen, tally>>

Negotiate(depth) ==
    /\ thread.phase = "authenticated"
    /\ thread' = [thread EXCEPT !.phase = "streaming", !.depth = depth]
    /\ Tell("negotiated")
    /\ UNCHANGED <<loop, orphans, frames, input, commands, surface, screen, tally>>

(* decode_packet gives a picture of some depth, or an error (0); a picture it  *)
(* holds back changes nothing here.  map_dma_buf gives it some format, or is   *)
(* an error.                                                                   *)
Pictures == {0, 8, 10}

Formats == {"error", "NV12", "P010", "other"}

ExpectedFormat(depth) == IF depth = 10 THEN "P010" ELSE "NV12"

(* The depth must be the negotiated one, and the format that of the depth.     *)
Contradicts(depth, format) == depth # thread.depth \/ format # ExpectedFormat(depth)

(* The video callback: the oldest frames make room.                            *)
Pushed(queue) ==
    Append(IF Len(queue) < VideoQueueCapacity THEN queue ELSE Tail(queue), loop.sid)

Deliver ==
    /\ thread.phase = "streaming" /\ thread.left > 0
    /\ \E depth \in Pictures, format \in Formats : ~Contradicts(depth, format)
    /\ thread' = [thread EXCEPT !.left = @ - 1]
    /\ frames' = Pushed(frames)
    /\ UNCHANGED <<loop, orphans, sessionRx, input, commands, surface, screen, tally>>

(* The host gives the pointer back (its desktop changed).                      *)
HostReleases ==
    /\ thread.phase = "streaming" /\ tally.inputs < MaxInputs
    /\ tally' = [tally EXCEPT !.inputs = @ + 1]
    /\ UNCHANGED thread
    /\ Tell("release")
    /\ UNCHANGED <<loop, orphans, frames, input, commands, surface, screen>>

ForwardInput ==
    /\ thread.phase = "streaming" /\ input > 0
    /\ input' = input - 1
    /\ UNCHANGED <<loop, thread, orphans, sessionRx, frames, commands, surface, screen, tally>>

(* The thread's last event, after which its ends of the channels are closed.   *)
EndWith(kind) ==
    /\ thread' = [thread EXCEPT !.phase = "gone"]
    /\ Tell(kind)
    /\ input' = 0
    /\ UNCHANGED <<loop, orphans, frames, commands, surface, screen>>

(* Any error: of the decoder's device, the network, the negotiation, or one    *)
(* that the loss of the connection is to the stream.                           *)
Fail ==
    /\ thread.phase # "gone"
    /\ tally.failures < MaxFailures \/ (thread.stop /\ thread.phase # "streaming")
    /\ tally' = [tally EXCEPT !.failures = IF thread.stop THEN @ ELSE @ + 1]
    /\ EndWith("failed")

(* A packet that cannot be decoded or mapped, or a picture that contradicts    *)
(* the negotiation.                                                            *)
DecodingFails ==
    /\ thread.phase = "streaming" /\ thread.left > 0 /\ tally.failures < MaxFailures
    /\ \E depth \in Pictures, format \in Formats : Contradicts(depth, format)
    /\ tally' = [tally EXCEPT !.failures = @ + 1]
    /\ EndWith("failed")

HostReconfigures ==
    /\ thread.phase = "streaming" /\ tally.failures < MaxFailures
    /\ tally' = [tally EXCEPT !.failures = @ + 1]
    /\ EndWith("reconfigure")

BudgetExceeded ==
    /\ thread.phase = "streaming" /\ tally.failures < MaxFailures
    /\ tally' = [tally EXCEPT !.failures = @ + 1]
    /\ EndWith("latency")

ObeyStop ==
    /\ thread.phase = "streaming" /\ thread.stop
    /\ EndWith("stopped")
    /\ UNCHANGED tally

-------------------------------------------------------------------------------
(* The process as a whole.                                                     *)

(* An error of the window, the renderer or the event pipe ends main, and with  *)
(* it the threads, before a last event is written.                             *)
Crash ==
    /\ loop.pc = "running" /\ loop.todo # "input" /\ tally.failures < MaxFailures
    /\ tally' = [tally EXCEPT !.failures = @ + 1]
    /\ Ended("none")

LoopStep ==
    \/ SendInput \/ RaiseStop \/ Restart \/ AwaitRetry \/ Exit \/ Retry
    \/ TakeCommand \/ TakeEvent \/ DropRenderer \/ TakeFrame
    \/ ShowLoading \/ ShowFrame \/ WindowResized \/ NothingAcquired
    \/ (\E queued \in BOOLEAN : PresentedOutdated(queued))
    \/ RecreateSwapchain \/ TakeFeedback \/ BecomesStable
    \/ WindowInput \/ Quit

ThreadStep ==
    \/ OpenDecoder \/ Authenticate \/ (\E depth \in Depths : Negotiate(depth))
    \/ Deliver \/ DecodingFails \/ HostReleases \/ ForwardInput
    \/ Fail \/ HostReconfigures \/ BudgetExceeded \/ ObeyStop

PresenterStep ==
    /\ GpuFinishes \/ \E shown \in BOOLEAN : TrackerAnswers(shown)
    /\ UNCHANGED <<loop, thread, orphans, sessionRx, frames, input, commands, surface, tally>>

(* The client: bound: one command.                                             *)
ClientSends(command) ==
    /\ loop.pc # "exited"
    /\ tally.commands = 0
    /\ commands' = Append(commands, command)
    /\ tally' = [tally EXCEPT !.commands = 1]
    /\ UNCHANGED <<loop, thread, orphans, sessionRx, frames, input, surface, screen>>

PlayerInit ==
    /\ loop = FreshLoop /\ thread = FreshThread /\ orphans = 0
    /\ sessionRx = <<>> /\ frames = <<>> /\ input = 0 /\ commands = <<>>
    /\ surface \in Surfaces /\ screen = NoRenderer
    /\ tally = [failures |-> 0, inputs |-> 0, commands |-> 0]

Exited == loop.pc = "exited" /\ UNCHANGED playerVars

PlayerNext ==
    \/ LoopStep \/ ThreadStep \/ PresenterStep \/ Crash
    \/ \E command \in {"stop", "reconnect"} : ClientSends(command)
    \/ Exited

(* The loop comes to each of its polls again and again, the session thread     *)
(* goes on (the network answers, or the attempt ends at one of its timeouts),  *)
(* the GPU executes what it has, and the compositor answers every wait.        *)
PlayerFairness ==
    /\ WF_playerVars(SendInput) /\ WF_playerVars(RaiseStop)
    /\ WF_playerVars(Restart \/ AwaitRetry \/ Exit) /\ WF_playerVars(Retry)
    /\ WF_playerVars(TakeCommand) /\ WF_playerVars(TakeEvent)
    /\ WF_playerVars(DropRenderer \/ RecreateSwapchain)
    /\ WF_playerVars(TakeFrame) /\ WF_playerVars(loop.fresh /\ ShowFrame)
    /\ WF_playerVars(OpenDecoder \/ Authenticate \/ \E depth \in Depths : Negotiate(depth))
    /\ WF_playerVars(Deliver)
    /\ WF_playerVars(ForwardInput) /\ WF_playerVars(ObeyStop)
    /\ WF_playerVars(PresenterStep)

PlayerSpec == PlayerInit /\ [][PlayerNext]_playerVars /\ PlayerFairness

-------------------------------------------------------------------------------
(* Properties.                                                                 *)

(* There is never a second stream session beside the one the loop knows: a     *)
(* session is started only after the last one's thread has been joined         *)
(* (start_stream_session, ActiveStreamSession::stop).                          *)
OneSession == orphans = 0

(* Whenever the loop is not between sessions, what it has taken or may still   *)
(* take comes from the session it runs: no event, decoded frame, submitted     *)
(* picture or feedback of a session before it (the join, then the draining,    *)
(* then the renderer).                                                         *)
OnlyCurrent ==
    loop.pc = "running" =>
        /\ \A i \in DOMAIN sessionRx : sessionRx[i].sid = loop.sid
        /\ \A i \in DOMAIN frames : frames[i] = loop.sid
        /\ loop.pending \subseteq {loop.sid}
        /\ \A i \in DOMAIN screen.gpu : \A plane \in screen.gpu[i].reads : plane.owner = loop.sid
        /\ {loop.last} \union {screen.feedback[i] : i \in DOMAIN screen.feedback} \subseteq {0, loop.sid}

(* Neither the GPU nor the tracker ever uses a swapchain that is gone, however *)
(* the window's changes, the negotiation and the session's end fall between    *)
(* presentations (recreate_swapchain, Drop).                                   *)
NothingInUse ==
    /\ \A i \in DOMAIN screen.gpu : screen.gpu[i].swapchain = screen.swapchain
    /\ \A i \in DOMAIN screen.waits : screen.waits[i].swapchain = screen.swapchain
    /\ ~Made(screen) => Idle(screen)

(* A session that is lost after it has streamed is taken up again: the player  *)
(* shows the next session's frames, or ends.                                   *)
StreamResumes ==
    loop.pc = "running" /\ loop.recovering /\ ~loop.started ~> loop.started \/ loop.pc = "exited"

(* A player that has been told to stop, or whose client is gone, exits: even   *)
(* if its loop is blocked on a full input channel, its session thread is       *)
(* connecting, which no stop flag interrupts, or the compositor has not shown  *)
(* its last frame.                                                             *)
Told == loop.pc # "exited" /\ \E i \in DOMAIN commands : commands[i] = "stop"

StopEnds == Told ~> loop.pc = "exited"
=============================================================================
