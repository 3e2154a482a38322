------------------------------- MODULE SessionEnd -------------------------------
(***************************************************************************)
(* How a video session ends, and whether the player learns why.  Five      *)
(* actors: the worker process, the service's media thread with the queue   *)
(* of worker events, the session task that owns the control stream, the    *)
(* connection, and the player's receiver task.  The worker ends a stream   *)
(* by an event; the media thread turns the event into an exit and stops    *)
(* the worker; the session task turns the exit into a last response; the   *)
(* player turns the response into a StreamEnd.                             *)
(***************************************************************************)
EXTENDS Integers, Sequences, SequencesExt

CONSTANTS
  EventQueueSize,   \* capacity of the LatestQueue of worker events
  ControlCapacity,  \* capacity of the channel to the media thread
  MaxCommands,      \* bound: commands in the command pipe
  MaxMessages,      \* bound: control messages between player and host
  MayCrash          \* whether the worker process may crash

ASSUME ConstantsAssumption ==
  /\ {EventQueueSize, ControlCapacity, MaxCommands, MaxMessages} \subseteq Nat \ {0}
  /\ MayCrash \in BOOLEAN

VARIABLES
  workerAt,       \* run_video_stream, the loop of run_files, or gone
  commands,       \* the command pipe
  events,         \* the LatestQueue of worker events
  readerDone,     \* the thread that reads the event pipe has ended
  dropUnseen,     \* dropped_events is ahead of observed_worker_drops
  serviceAt,      \* where the media thread is
  pending,        \* a frame is being sent
  waiting,        \* VideoRecovery.waiting_for_keyframe
  exit,           \* the WorkerVideoExit, or "failed"
  controls,       \* the channel to the media thread
  sessionAt,      \* where the session task is
  controlError,   \* control_error is set
  mediaFinished,  \* media_finished
  released,       \* the input session is closed, all keys are up
  response,       \* the last response, while the response writer has it
  connection,     \* open, or which side closed it
  toHost,         \* control messages on their way to the host
  toPlayer,       \* the last response, written to the stream
  reason,         \* what the player's receiver read: its `end`
  playerEnd       \* what receive_stream returned

workerVars  == <<workerAt, commands, events, readerDone, dropUnseen>>
serviceVars == <<serviceAt, pending, waiting, exit, controls>>
sessionVars == <<sessionAt, controlError, mediaFinished, released, response>>
linkVars    == <<connection, toHost, toPlayer>>
playerVars  == <<reason, playerEnd>>
vars == <<workerVars, serviceVars, sessionVars, linkVars, playerVars>>

Reason == {"reconfigured", "latency"}
(* What crosses the two pipes of the worker: a stop, any other order, a    *)
(* frame, and the events that end a stream.  The thread that reads the     *)
(* events makes the end of the pipe an event, too.                         *)
WorkerCommand == {"control", "stop"}
Terminal == {"reconfigure", "failure", "closed"}
WorkerEvent == {"frame"} \union Terminal

Init ==
  /\ workerAt = "streaming" /\ commands = <<>> /\ events = <<>>
  /\ readerDone = FALSE /\ dropUnseen = FALSE
  /\ serviceAt = "controls" /\ pending = FALSE /\ waiting = FALSE
  /\ exit = "none" /\ controls = <<>>
  /\ sessionAt = "select" /\ controlError = FALSE /\ mediaFinished = FALSE
  /\ released = FALSE /\ response = "none"
  /\ connection = "open" /\ toHost = <<>> /\ toPlayer = "none"
  /\ reason = "none" /\ playerEnd = "none"

-----------------------------------------------------------------------------
(* The worker process, and the thread that reads its event pipe.           *)

(* LatestQueue::push                                                       *)
PushEvent(event) ==
  /\ events' = Append(IF Len(events) = EventQueueSize THEN Tail(events) ELSE events, event)
  /\ dropUnseen' = (dropUnseen \/ Len(events) = EventQueueSize)
(* An event that the worker writes is read and queued whole.               *)
WriteEvent(event) == event # "closed" /\ PushEvent(event)
(* The oldest command in the pipe; the end of the pipe is no command.      *)
TakeCommand(command) ==
  commands # <<>> /\ Head(commands) = command /\ commands' = Tail(commands)

EncodeFrame ==
  /\ workerAt = "streaming"
  /\ WriteEvent("frame")
  /\ UNCHANGED <<workerAt, commands, readerDone>>

(* A display or format change ends the stream, not the worker.             *)
RequireReconfiguration ==
  /\ workerAt = "streaming"
  /\ WriteEvent("reconfigure")
  /\ workerAt' = "idle"
  /\ UNCHANGED <<commands, readerDone>>

FailStream ==
  /\ workerAt = "streaming"
  /\ WriteEvent("failure")
  /\ workerAt' = "idle"
  /\ UNCHANGED <<commands, readerDone>>

(* A worker without a stream answers every stream control with a failure.  *)
ReadCommand ==
  /\ workerAt # "gone"
  /\ \/ /\ TakeCommand("stop")
        /\ workerAt' = "gone"
        /\ UNCHANGED <<events, dropUnseen>>
     \/ /\ TakeCommand("control")
        /\ IF workerAt = "idle" THEN WriteEvent("failure") ELSE UNCHANGED <<events, dropUnseen>>
        /\ UNCHANGED workerAt
  /\ UNCHANGED <<readerDone>>

Crash ==
  /\ MayCrash
  /\ workerAt # "gone"
  /\ workerAt' = "gone"
  /\ UNCHANGED <<commands, events, readerDone, dropUnseen>>

ReaderEnds ==
  /\ workerAt = "gone"
  /\ ~readerDone
  /\ readerDone' = TRUE
  /\ PushEvent("closed")
  /\ UNCHANGED <<workerAt, commands>>

WorkerOnly == UNCHANGED <<serviceVars, sessionVars, linkVars, playerVars>>
Worker ==
  /\ \/ EncodeFrame \/ RequireReconfiguration \/ FailStream
     \/ ReadCommand \/ Crash \/ ReaderEnds
  /\ WorkerOnly

-----------------------------------------------------------------------------
(* The media thread: run_worker_video_stream.                              *)

Exit(how) == exit' = how /\ serviceAt' = "stopping"

Written(command) == Append(commands, command)
(* Writing to the pipe of a worker that is gone is an error.               *)
Command(command, next) ==
  IF workerAt = "gone" THEN Exit("failed") /\ UNCHANGED commands
  ELSE /\ Len(commands) < MaxCommands
       /\ commands' = Written(command)
       /\ serviceAt' = next
       /\ UNCHANGED exit

Proceed(next) == serviceAt' = next /\ UNCHANGED <<commands, exit>>

TakeControl ==
  /\ serviceAt = "controls"
  /\ controls # <<>>
  /\ controls' = Tail(controls)
  /\ waiting' = (waiting \/ Head(controls) = "keyframe")
  /\ \/ Proceed("controls")
     \/ Head(controls) = "report" /\ Command("control", "controls")
     \/ Head(controls) = "report" /\ Exit("latency") /\ UNCHANGED commands
  /\ UNCHANGED <<pending, dropUnseen, events>>

ControlsDrained ==
  /\ serviceAt = "controls"
  /\ controls = <<>>
  /\ Proceed("checks")
  /\ UNCHANGED <<pending, waiting, controls, dropUnseen, events>>

(* Stop or a closed channel after the last control, or a closed connection. *)
ConnectionClosed == connection # "open"                                \* mutant
StopDue == sessionAt \in {"drain", "closed"} \/ connection # "open"

StopRequested ==
  /\ serviceAt = "checks"
  /\ StopDue
  /\ Exit("stopped")
  /\ UNCHANGED <<pending, waiting, controls, commands, dropUnseen, events>>

(* A keyframe that is needed is asked for at most once per interval.       *)
ObserveDropsAndRequest ==
  /\ serviceAt = "checks"
  /\ ~StopDue
  /\ waiting' = (waiting \/ dropUnseen)
  /\ dropUnseen' = FALSE
  /\ \/ waiting' /\ Command("control", "event")
     \/ Proceed("event")
  /\ UNCHANGED <<pending, controls, events>>

TakeFrame ==
  /\ serviceAt = "event"
  /\ ~pending
  /\ events # <<>> /\ Head(events) = "frame"
  /\ events' = Tail(events)
  /\ \/ pending' = TRUE /\ waiting' = FALSE /\ Proceed("controls")
     \/ pending' = FALSE /\ waiting' = TRUE /\ Proceed("controls")
     \/ UNCHANGED <<pending, waiting>> /\ Command("control", "controls")
  /\ UNCHANGED <<controls, dropUnseen>>

ExitFor(event) == IF event = "reconfigure" THEN "reconfigured" ELSE "failed"
TakeTerminal ==
  /\ serviceAt = "event"
  /\ ~pending
  /\ events # <<>> /\ Head(events) \in Terminal
  /\ events' = Tail(events)
  /\ Exit(ExitFor(Head(events)))
  /\ UNCHANGED <<pending, waiting, controls, commands, dropUnseen>>

(* Some chunks go out, or the last one does, or the frame is given up.     *)
SendChunks ==
  /\ serviceAt = "event"
  /\ pending \/ events = <<>>
  /\ \/ Proceed("controls") /\ UNCHANGED <<pending, waiting>>
     \/ Proceed("controls") /\ pending' = FALSE /\ waiting' \in {waiting, TRUE}
     \/ connection # "open" /\ Exit("failed") /\ UNCHANGED <<pending, waiting, commands>>
  /\ UNCHANGED <<controls, dropUnseen, events>>

(* Dropping the stream: stop_and_wait, the job object, the reader thread.  *)
WriteStop ==
  /\ serviceAt = "stopping"
  /\ Len(commands) < MaxCommands \/ workerAt = "gone"
  /\ commands' = IF workerAt = "gone" THEN commands ELSE Written("stop")
  /\ serviceAt' = "joining"
  /\ pending' = FALSE
  /\ waiting' = FALSE
  /\ UNCHANGED <<exit, controls, dropUnseen, events>>

MediaEnds ==
  /\ serviceAt = "joining"
  /\ readerDone
  /\ serviceAt' = "done"
  /\ controls' = <<>>
  /\ events' = <<>>
  /\ dropUnseen' = FALSE
  /\ UNCHANGED <<pending, waiting, exit, commands>>

ServiceOnly == UNCHANGED <<workerAt, readerDone, sessionVars, linkVars, playerVars>>
Service ==
  /\ \/ TakeControl \/ StopRequested \/ ObserveDropsAndRequest
     \/ ControlsDrained \/ TakeFrame \/ TakeTerminal \/ SendChunks
     \/ WriteStop \/ MediaEnds
  /\ ServiceOnly

(* Five seconds after the stop, closing the job object ends the worker.    *)
KillWorker ==
  /\ serviceAt = "joining"
  /\ workerAt # "gone"
  /\ workerAt' = "gone"
  /\ UNCHANGED <<commands, events, readerDone, dropUnseen, serviceVars,
                 sessionVars, linkVars, playerVars>>

-----------------------------------------------------------------------------
(* The session task, its readers and its response writer.                  *)

TakeMediaEnd ==
  /\ sessionAt = "select"
  /\ serviceAt = "done"
  /\ mediaFinished' = TRUE
  /\ IF exit \in Reason
     THEN response' = exit /\ UNCHANGED controlError
     ELSE controlError' = TRUE /\ UNCHANGED response
  /\ sessionAt' = "release"
  /\ UNCHANGED <<released, linkVars, controls>>

(* A full channel refuses everything but a report; a closed one also that. *)
Refused(message) ==
  serviceAt = "done" \/ (Len(controls) = ControlCapacity /\ message # "report")

TakeMessage ==
  /\ sessionAt = "select"
  /\ toHost # <<>>
  /\ toHost' = Tail(toHost)
  /\ LET message == Head(toHost)
     IN \/ /\ message = "stop"
           /\ sessionAt' = "release"
           /\ UNCHANGED <<controls, controlError>>
        \/ /\ message # "stop"
           /\ Refused(message)
           /\ sessionAt' = "release"
           /\ controlError' = TRUE
           /\ UNCHANGED controls
        \/ /\ message # "stop"
           /\ ~Refused(message)
           /\ controls' = IF Len(controls) = ControlCapacity THEN controls
                          ELSE Append(controls, message)
           /\ UNCHANGED <<sessionAt, controlError>>
  /\ UNCHANGED <<mediaFinished, released, response, connection, toPlayer>>

(* chunk_request_reader: a request that finds the channel full is dropped. *)
TakeChunkRequest ==
  /\ sessionAt \in {"select", "release"}
  /\ connection = "open"
  /\ serviceAt # "done"
  /\ Len(controls) < ControlCapacity
  /\ controls' = Append(controls, "resend")
  /\ UNCHANGED <<sessionVars, linkVars>>

SeeConnectionClosed ==
  /\ sessionAt = "select"
  /\ connection = "player"
  /\ controlError' = TRUE
  /\ sessionAt' = "release"
  /\ UNCHANGED <<mediaFinished, released, response, linkVars, controls>>

ReleaseInput ==
  /\ sessionAt = "release"
  /\ released' = TRUE
  /\ sessionAt' = "drain"
  /\ UNCHANGED <<controlError, mediaFinished, response, linkVars, controls>>

WriteResponse ==
  /\ response # "none"
  /\ response' = "none"
  /\ IF connection = "open"
     THEN toPlayer' = response /\ UNCHANGED controlError
     ELSE controlError' = TRUE /\ UNCHANGED toPlayer
  /\ UNCHANGED <<sessionAt, mediaFinished, released, connection, toHost, controls>>

(* Both tasks are joined; the connection is closed, or its last handle is  *)
(* dropped, which closes it too.                                           *)
CloseSession ==
  /\ sessionAt = "drain"
  /\ response = "none"
  /\ serviceAt = "done"
  /\ controlError' = (controlError \/ (~mediaFinished /\ exit = "failed"))
  /\ sessionAt' = "closed"
  /\ connection' = IF connection = "open" THEN "host" ELSE connection
  /\ UNCHANGED <<mediaFinished, released, response, toHost, toPlayer, controls>>

SessionOnly == UNCHANGED <<serviceAt, pending, waiting, exit, workerVars, playerVars>>
Session ==
  /\ \/ TakeMediaEnd \/ TakeMessage \/ TakeChunkRequest \/ SeeConnectionClosed
     \/ ReleaseInput \/ WriteResponse \/ CloseSession
  /\ SessionOnly

-----------------------------------------------------------------------------
(* The player's receiver task.                                             *)

Streaming == reason = "none" /\ playerEnd = "none"

SendMessage ==
  /\ Streaming
  /\ connection = "open"
  /\ Len(toHost) < MaxMessages
  /\ \E message \in {"keyframe", "report"} : toHost' = Append(toHost, message)
  /\ UNCHANGED <<connection, toPlayer, playerVars>>

ReadReason ==
  /\ Streaming
  /\ toPlayer # "none"
  /\ reason' = toPlayer
  /\ UNCHANGED <<playerEnd, linkVars>>

(* A closed connection fails the next datagram or message, also while the  *)
(* last response is still unread or undelivered.                           *)
SeeHostClose ==
  /\ Streaming
  /\ connection = "host"
  /\ playerEnd' = "error"
  /\ UNCHANGED <<reason, linkVars>>

StopPlaying ==
  /\ Streaming
  /\ connection = "open"
  /\ reason' = "stopped"
  /\ UNCHANGED <<playerEnd, linkVars>>

(* The receiver releases its keys and says stop.  Only a latency failure   *)
(* survives a stream that cannot be written any more.                      *)
CleanUp ==
  /\ reason # "none" /\ playerEnd = "none"
  /\ playerEnd' = IF connection = "open" \/ reason = "latency" THEN reason ELSE "error"
  /\ toHost' = IF connection = "open" THEN Append(toHost, "stop") ELSE toHost
  /\ UNCHANGED <<reason, connection, toPlayer>>

ClosePlayer ==
  /\ playerEnd # "none"
  /\ connection = "open"
  /\ connection' = "player"
  /\ UNCHANGED <<toHost, toPlayer, playerVars>>

PlayerOnly == UNCHANGED <<workerVars, serviceVars, sessionVars>>
Player ==
  /\ \/ SendMessage \/ ReadReason \/ SeeHostClose \/ StopPlaying \/ CleanUp \/ ClosePlayer
  /\ PlayerOnly

-----------------------------------------------------------------------------

Next == Worker \/ Service \/ KillWorker \/ Session \/ Player

(* Every thread and task keeps running; no event, fault or message is owed. *)
(* The media thread drains its controls faster than they come, and the     *)
(* pacer lets a frame's last chunk go although the loop runs in between.   *)
Fairness ==
  /\ WF_vars((ReadCommand \/ ReaderEnds) /\ WorkerOnly)
  /\ WF_vars(Service)
  /\ SF_vars(ControlsDrained /\ ServiceOnly)
  /\ SF_vars(Service /\ pending /\ ~pending')
  /\ WF_vars(KillWorker)
  /\ WF_vars((TakeMediaEnd \/ TakeMessage \/ SeeConnectionClosed) /\ SessionOnly)
  /\ WF_vars((ReleaseInput \/ CloseSession) /\ SessionOnly)
  /\ WF_vars(WriteResponse /\ SessionOnly)
  /\ WF_vars((ReadReason \/ SeeHostClose \/ CleanUp \/ ClosePlayer) /\ PlayerOnly)

Spec == Init /\ [][Next]_vars
FairSpec == Spec /\ Fairness

-----------------------------------------------------------------------------
(* Properties *)

(* Every variable has its type and no queue exceeds its capacity.          *)
TypeOK ==
  /\ workerAt \in {"streaming", "idle", "gone"}
  /\ commands \in BoundedSeq(WorkerCommand, MaxCommands)
  /\ events \in BoundedSeq(WorkerEvent, EventQueueSize)
  /\ {readerDone, dropUnseen, pending, waiting} \subseteq BOOLEAN
  /\ {controlError, mediaFinished, released} \subseteq BOOLEAN
  /\ serviceAt \in {"controls", "checks", "event", "stopping", "joining", "done"}
  /\ exit \in {"none", "stopped", "failed"} \union Reason
  /\ controls \in BoundedSeq({"keyframe", "report", "resend"}, ControlCapacity)
  /\ sessionAt \in {"select", "release", "drain", "closed"}
  /\ {response, toPlayer} \subseteq {"none"} \union Reason
  /\ connection \in {"open", "host", "player"}
  /\ toHost \in BoundedSeq({"keyframe", "report", "stop"}, MaxMessages + 1)
  /\ reason \in {"none", "stopped"} \union Reason
  /\ playerEnd \in {"none", "stopped", "error"} \union Reason

(* When the stream is over at any of its ends, everything ends: the worker *)
(* is gone, the input released, the session closed, the player returns.    *)
AllEnd ==
  workerAt # "streaming" \/ exit # "none" \/ sessionAt # "select" \/ playerEnd # "none" ~>
    /\ workerAt = "gone" /\ released
    /\ sessionAt = "closed" /\ playerEnd # "none"
=============================================================================
