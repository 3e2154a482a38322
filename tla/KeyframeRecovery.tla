--------------------------- MODULE KeyframeRecovery ---------------------------
(***************************************************************************)
(* How a broken video stream heals: the loop from the player that cannot   *)
(* decode, over its keyframe request, the service's request to the worker  *)
(* and the next keyframe, back to the player.  The steps are FrameStream's *)
(* but a frame carries only what the loop looks at, so the stream can run  *)
(* for ever: whether it is a keyframe, and whether the frame before it on  *)
(* the encoder's output went missing on its way here.                      *)
(*                                                                         *)
(* Everything that takes a frame away, and every false alarm, is a fault.  *)
(* Faults come at any moment, but no more than MaxFaults of them: the      *)
(* question is what the code does after the last one.                      *)
(***************************************************************************)
EXTENDS Integers, Sequences

CONSTANTS
  EventQueueSize,   \* capacity of the LatestQueue of worker events
  FrameQueueSize,   \* capacity of the MediaQueue of assembled frames
  MaxInPipe,        \* bound: frames in the pipe, one less after each fault
  MaxRequests,      \* bound: keyframe requests on the control stream at once
  MaxFaults         \* bound: faults in one behaviour

ASSUME ConstantsAssumption ==
  /\ {EventQueueSize, FrameQueueSize, MaxInPipe, MaxRequests} \subseteq Nat \ {0}
  /\ MaxFaults \in Nat

VARIABLES
  forceKeyframe,     \* the encoder's force_next_keyframe
  keyframeCommand,   \* a command that forces a keyframe is in the command pipe
  events,            \* encoded frames waiting for the service
  dropUnseen,        \* dropped_events is ahead of observed_worker_drops
  serviceAt,         \* the part of its loop the service is about to run
  hostGap,           \* the next event does not continue VideoRecovery.last_sequence
  waiting,           \* VideoRecovery.waiting_for_keyframe
  hostRetryOver,     \* KEYFRAME_RETRY_INTERVAL has passed since last_request
  pending,           \* the frame being sent: none or one
  wireGap,           \* a frame after the last one of net went missing
  requests,          \* keyframe requests on their way to the service
  net,               \* wholly sent frames that are neither released nor lost
  readerAt,          \* where the receiver task is
  anyReleased,       \* ResendState.released_sequence is set
  owed,              \* ResendState.dependency_lost
  assembled,         \* the released frame that is not yet in the queue
  playerRetryOver,   \* KEYFRAME_RETRY_INTERVAL has passed since last_keyframe
  recover,
  request,           \* request_keyframe
  frames,            \* the MediaQueue of assembled frames
  consumerAt,        \* where the consumer thread is
  popped,            \* the frames this pass of the loop popped: none or one
  anyAccepted,       \* DecodeContinuity.last is set
  ready,             \* DecodeContinuity.ready
  faults

workerVars   == <<forceKeyframe>>
serviceVars  == <<serviceAt, hostGap, waiting, hostRetryOver, pending, wireGap>>
readerVars   == <<readerAt, anyReleased, owed, assembled, playerRetryOver>>
consumerVars == <<consumerAt, popped, anyAccepted, ready>>
linkVars     == <<keyframeCommand, events, dropUnseen, requests, net>>
sharedVars   == <<recover, request, frames>>
vars == <<workerVars, serviceVars, readerVars, consumerVars, linkVars, sharedVars, faults>>

Frame == [key : BOOLEAN, gap : BOOLEAN]

Fault == faults < MaxFaults /\ faults' = faults + 1
FaultIf(condition) == IF condition THEN Fault ELSE UNCHANGED faults

(* A queue that lost the frame before its first one.                       *)
AfterGap(queue) == [i \in DOMAIN queue |->
                      IF i = 1 THEN [queue[i] EXCEPT !.gap = TRUE] ELSE queue[i]]

IsFull(queue, capacity) == Len(queue) = capacity
(* LatestQueue::push and MediaQueue::push *)
PushLatest(queue, frame, capacity) ==
  LET longer == Append(queue, frame)
  IN IF IsFull(queue, capacity) THEN AfterGap(Tail(longer)) ELSE longer

-----------------------------------------------------------------------------

Init ==
  /\ forceKeyframe = TRUE /\ keyframeCommand = FALSE
  /\ events = <<>> /\ dropUnseen = FALSE
  /\ serviceAt = "controls" /\ hostGap = TRUE /\ waiting = FALSE
  /\ hostRetryOver = TRUE /\ pending = <<>> /\ wireGap = FALSE
  /\ requests = 0 /\ net = <<>>
  /\ readerAt = "select" /\ anyReleased = FALSE /\ owed = FALSE
  /\ assembled = <<>> /\ playerRetryOver = TRUE
  /\ recover = FALSE /\ request = FALSE /\ frames = <<>>
  /\ consumerAt = "pop" /\ popped = <<>> /\ anyAccepted = FALSE /\ ready = FALSE
  /\ faults = 0

-----------------------------------------------------------------------------
(* The worker process and the thread that reads its event pipe. *)

ReadCommand ==
  /\ keyframeCommand
  /\ keyframeCommand' = FALSE
  /\ forceKeyframe' = TRUE
  /\ UNCHANGED <<events, dropUnseen, requests, net, serviceVars, readerVars,
                 consumerVars, sharedVars, faults>>

InPipe ==
  Len(events) + Len(pending) + Len(net) + Len(assembled) + Len(frames) + Len(popped)

Encode ==
  /\ InPipe = 0 \/ InPipe + faults < MaxInPipe
  /\ FaultIf(IsFull(events, EventQueueSize))
  /\ events' = PushLatest(events, [key |-> forceKeyframe, gap |-> FALSE], EventQueueSize)
  /\ dropUnseen' = (dropUnseen \/ IsFull(events, EventQueueSize))
  /\ forceKeyframe' = FALSE
  /\ UNCHANGED <<keyframeCommand, requests, net, serviceVars, readerVars,
                 consumerVars, sharedVars>>

-----------------------------------------------------------------------------
(* The service thread. *)

TakeControl ==
  /\ serviceAt = "controls"
  /\ requests > 0
  /\ requests' = requests - 1
  /\ waiting' = TRUE
  /\ UNCHANGED <<serviceAt, hostGap, hostRetryOver, pending, wireGap, keyframeCommand,
                 events, dropUnseen, net, workerVars, readerVars, consumerVars,
                 sharedVars, faults>>

(* VideoRecovery::request_due *)
RequestDue(needed) == needed /\ hostRetryOver

ObserveDropsAndRequest ==
  /\ serviceAt = "controls"
  /\ requests = 0
  /\ dropUnseen' = FALSE
  /\ waiting' = (waiting \/ dropUnseen)
  /\ keyframeCommand' = (keyframeCommand \/ RequestDue(waiting'))
  /\ hostRetryOver' = (hostRetryOver /\ ~RequestDue(waiting'))
  /\ serviceAt' = "event"
  /\ UNCHANGED <<hostGap, pending, wireGap, events, requests, net, workerVars,
                 readerVars, consumerVars, sharedVars, faults>>

HostRetryElapsed ==
  /\ ~hostRetryOver
  /\ hostRetryOver' = TRUE
  /\ UNCHANGED <<serviceAt, hostGap, waiting, pending, wireGap, linkVars, workerVars,
                 readerVars, consumerVars, sharedVars, faults>>

(* The send deadline passes, or the path takes smaller datagrams only.     *)
AbandonPending ==
  /\ serviceAt = "event"
  /\ pending # <<>>
  /\ Fault
  /\ pending' = <<>>
  /\ wireGap' = TRUE
  /\ waiting' = TRUE
  /\ UNCHANGED <<serviceAt, hostGap, hostRetryOver, linkVars, workerVars, readerVars,
                 consumerVars, sharedVars>>

(* VideoRecovery::accept *)
AcceptFrame ==
  LET frame == Head(events)
      refused == ~frame.key /\ (waiting \/ hostGap \/ frame.gap)
  IN /\ serviceAt = "event"
     /\ pending = <<>>
     /\ events # <<>>
     /\ events' = Tail(events)
     /\ hostGap' = FALSE
     /\ waiting' = refused
     /\ pending' = IF refused THEN <<>> ELSE <<[frame EXCEPT !.gap = wireGap]>>
     /\ wireGap' = refused
     /\ serviceAt' = "controls"
     /\ UNCHANGED <<hostRetryOver, keyframeCommand, dropUnseen, requests, net,
                    workerVars, readerVars, consumerVars, sharedVars, faults>>

DiscardStaleCapture ==
  /\ serviceAt = "event"
  /\ pending = <<>>
  /\ events # <<>>
  /\ Fault
  /\ events' = Tail(events)
  /\ hostGap' = TRUE
  /\ wireGap' = TRUE
  /\ keyframeCommand' = TRUE
  /\ serviceAt' = "controls"
  /\ UNCHANGED <<waiting, hostRetryOver, pending, dropUnseen, requests, net,
                 workerVars, readerVars, consumerVars, sharedVars>>

SendSomeChunks ==
  /\ serviceAt = "event"
  /\ pending # <<>> \/ events = <<>>
  /\ serviceAt' = "controls"
  /\ UNCHANGED <<hostGap, waiting, hostRetryOver, pending, wireGap, linkVars,
                 workerVars, readerVars, consumerVars, sharedVars, faults>>

SendLastChunk ==
  /\ serviceAt = "event"
  /\ pending # <<>>
  /\ net' = net \o pending
  /\ pending' = <<>>
  /\ serviceAt' = "controls"
  /\ UNCHANGED <<hostGap, waiting, hostRetryOver, wireGap, keyframeCommand, events,
                 dropUnseen, requests, workerVars, readerVars, consumerVars,
                 sharedVars, faults>>

Service ==
  \/ TakeControl \/ ObserveDropsAndRequest \/ AcceptFrame \/ SendSomeChunks

-----------------------------------------------------------------------------
(* The network: losing the frame that is last on the wire leaves the gap   *)
(* in front of the one being sent, or of the next one.                     *)

LoseFrame ==
  /\ Fault
  /\ \E i \in 1..Len(net) :
       /\ net' = SubSeq(net, 1, i - 1) \o AfterGap(SubSeq(net, i + 1, Len(net)))
       /\ IF i = Len(net)
          THEN /\ pending' = AfterGap(pending)
               /\ wireGap' = (wireGap \/ pending = <<>>)
          ELSE UNCHANGED <<pending, wireGap>>
  /\ UNCHANGED <<serviceAt, hostGap, waiting, hostRetryOver, keyframeCommand, events,
                 dropUnseen, requests, workerVars, readerVars, consumerVars, sharedVars>>

-----------------------------------------------------------------------------
(* The player's receiver task. *)

(* VideoFrameAssembler::next_ready, and Receiver.datagram up to its push.   *)
(* An incomplete frame that expired although its repair still arrives is a *)
(* false alarm.                                                            *)
ReleaseFrame ==
  /\ readerAt = "select"
  /\ net # <<>>
  /\ \E givenUp, first \in BOOLEAN :
       LET frame == Head(net)
           lost == ~frame.key /\ (owed \/ givenUp \/ (anyReleased /\ frame.gap))
       IN /\ FaultIf(givenUp)
          /\ assembled' = <<frame>>
          /\ recover' = (recover \/ (lost /\ first))
          /\ owed' = (lost /\ ~first)
  /\ anyReleased' = TRUE
  /\ net' = Tail(net)
  /\ readerAt' = "push"
  /\ UNCHANGED <<playerRetryOver, keyframeCommand, events, dropUnseen, requests,
                 request, frames, workerVars, serviceVars, consumerVars>>

ReportLoss ==
  /\ readerAt = "select"
  /\ FaultIf(~owed)
  /\ recover' = TRUE
  /\ owed' = FALSE
  /\ UNCHANGED <<readerAt, anyReleased, assembled, playerRetryOver, request, frames,
                 linkVars, workerVars, serviceVars, consumerVars>>

QueueFrame ==
  /\ readerAt = "push"
  /\ FaultIf(IsFull(frames, FrameQueueSize))
  /\ frames' = PushLatest(frames, assembled[1], FrameQueueSize)
  /\ assembled' = <<>>
  /\ readerAt' = IF IsFull(frames, FrameQueueSize) THEN "dropped" ELSE "select"
  /\ UNCHANGED <<anyReleased, owed, playerRetryOver, recover, request, linkVars,
                 workerVars, serviceVars, consumerVars>>

ReportQueueDrop ==
  /\ readerAt = "dropped"
  /\ recover' = TRUE
  /\ readerAt' = "select"
  /\ UNCHANGED <<anyReleased, owed, assembled, playerRetryOver, request, frames,
                 linkVars, workerVars, serviceVars, consumerVars, faults>>

TickRequest ==
  /\ readerAt = "select"
  /\ request \/ recover
  /\ playerRetryOver
  /\ requests < MaxRequests
  /\ requests' = requests + 1
  /\ readerAt' = "clear"
  /\ UNCHANGED <<anyReleased, owed, assembled, playerRetryOver, keyframeCommand,
                 events, dropUnseen, net, workerVars, serviceVars, consumerVars,
                 sharedVars, faults>>

TickClear ==
  /\ readerAt = "clear"
  /\ request' = FALSE
  /\ playerRetryOver' = FALSE
  /\ readerAt' = "select"
  /\ UNCHANGED <<anyReleased, owed, assembled, recover, frames, linkVars, workerVars,
                 serviceVars, consumerVars, faults>>

PlayerRetryElapsed ==
  /\ ~playerRetryOver
  /\ playerRetryOver' = TRUE
  /\ UNCHANGED <<readerAt, anyReleased, owed, assembled, linkVars, workerVars,
                 serviceVars, consumerVars, sharedVars, faults>>

-----------------------------------------------------------------------------
(* The player's consumer thread. *)

PopFrame ==
  /\ consumerAt = "pop"
  /\ frames # <<>>
  /\ popped' = <<Head(frames)>>
  /\ frames' = Tail(frames)
  /\ consumerAt' = "recover"
  /\ UNCHANGED <<anyAccepted, ready, recover, request, linkVars, workerVars,
                 serviceVars, readerVars, faults>>

PassedRecover ==
  \/ consumerAt = "recover" /\ consumerAt' = "accept"
  \/ consumerAt = "pop" /\ recover /\ UNCHANGED consumerAt
LoadRecover ==   \* mutant
  /\ PassedRecover
  /\ ready' = (ready /\ ~recover)
  /\ request' = (request \/ recover)
  /\ UNCHANGED <<recover, popped, anyAccepted, frames, linkVars, workerVars, serviceVars,
                 readerVars, faults>>
SwapRecover ==
  /\ PassedRecover
  /\ recover' = FALSE
  /\ ready' = (ready /\ ~recover)
  /\ request' = (request \/ recover)
  /\ UNCHANGED <<popped, anyAccepted, frames, linkVars, workerVars, serviceVars,
                 readerVars, faults>>

SilentRefusal(frame, decodable) == request /\ ~(frame.key /\ decodable)   \* mutant
RequestAfter(frame, decodable) ==
  IF decodable THEN request /\ ~frame.key ELSE TRUE

(* DecodeContinuity::accept and what the loop does with its answer.        *)
ConsumeFrame ==
  /\ consumerAt = "accept"
  /\ LET frame == popped[1]
         decodable == frame.key \/ (ready /\ ~(anyAccepted /\ frame.gap))
     IN /\ ready' = decodable
        /\ request' = RequestAfter(frame, decodable)
  /\ anyAccepted' = TRUE
  /\ popped' = <<>>
  /\ consumerAt' = "pop"
  /\ UNCHANGED <<recover, frames, linkVars, workerVars, serviceVars, readerVars, faults>>

-----------------------------------------------------------------------------

Reader == ReleaseFrame \/ QueueFrame \/ ReportQueueDrop \/ TickClear
Consumer == PopFrame \/ SwapRecover \/ ConsumeFrame

Next ==
  \/ ReadCommand \/ Encode
  \/ Service \/ SendLastChunk \/ HostRetryElapsed \/ AbandonPending \/ DiscardStaleCapture
  \/ LoseFrame
  \/ Reader \/ ReportLoss \/ TickRequest \/ PlayerRetryElapsed
  \/ Consumer

(* Every thread keeps running, the display keeps changing, time passes and *)
(* what is on the wire arrives; a fault is never owed.  The pacer lets a   *)
(* frame's last chunk go although the service loops in between, and the    *)
(* receiver task takes a tick although datagrams keep coming.              *)
NoFault == UNCHANGED faults
Fairness ==
  /\ WF_vars(ReadCommand)
  /\ WF_vars(Encode /\ NoFault)
  /\ WF_vars(Service)
  /\ SF_vars(SendLastChunk)
  /\ WF_vars(HostRetryElapsed)
  /\ WF_vars(Reader /\ NoFault)
  /\ SF_vars(TickRequest)
  /\ WF_vars(PlayerRetryElapsed)
  /\ WF_vars(Consumer)

Spec == Init /\ [][Next]_vars
FairSpec == Spec /\ Fairness

-----------------------------------------------------------------------------
(* Properties *)

AtMost(queue, capacity) == queue \in Seq(Frame) /\ Len(queue) <= capacity

(* Every variable has its type, and no queue exceeds its capacity.         *)
TypeOK ==
  /\ {forceKeyframe, keyframeCommand, dropUnseen, hostGap, waiting, hostRetryOver,
      wireGap, anyReleased, owed, playerRetryOver, recover, request, anyAccepted,
      ready} \subseteq BOOLEAN
  /\ serviceAt \in {"controls", "event"}
  /\ readerAt \in {"select", "push", "dropped", "clear"}
  /\ consumerAt \in {"pop", "recover", "accept"}
  /\ AtMost(events, EventQueueSize) /\ AtMost(pending, 1) /\ AtMost(net, MaxInPipe)
  /\ AtMost(assembled, 1) /\ AtMost(frames, FrameQueueSize) /\ AtMost(popped, 1)
  /\ requests \in 0..MaxRequests
  /\ faults \in 0..MaxFaults

(* After the last fault the decoder gets a keyframe and every frame after  *)
(* it, whatever the fault was and however the flags were lost or raced.    *)
Resumes == <>[]ready

(* The keyframe requests die out: the retries of the player and those of   *)
(* the host do not keep each other going.                                  *)
RequestsEnd == <>[](requests = 0 /\ ~request /\ ~keyframeCommand /\ ~waiting)
=============================================================================
