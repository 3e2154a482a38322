----------------------------- MODULE FrameStream -----------------------------
(***************************************************************************)
(* One video stream, frame by frame, from the encoder of the media worker  *)
(* to the decoder of the player: the worker's encode loop, the queue of    *)
(* worker events, the service thread that sends frames, the network, the   *)
(* player's receiver task and the player's consumer thread.  A frame is    *)
(* its sequence number and whether it is a keyframe.                       *)
(*                                                                         *)
(* A step is one access to state that another thread or process shares.    *)
(* Chunks, resends and assembly deadlines are abstracted here: an accepted *)
(* frame is on its way until it is released, in order, or lost.            *)
(***************************************************************************)
EXTENDS Integers, Sequences

CONSTANTS
  EventQueueSize,   \* capacity of the LatestQueue of worker events
  FrameQueueSize,   \* capacity of the MediaQueue of assembled frames
  MaxSequence,      \* bound: the encoder stops after this many frames
  MaxInFlight,      \* bound: frames on the wire at once
  MaxRequests       \* bound: keyframe requests on the control stream at once

ASSUME ConstantsAssumption ==
  /\ EventQueueSize \in Nat \ {0}
  /\ FrameQueueSize \in Nat \ {0}
  /\ MaxSequence \in Nat
  /\ MaxInFlight \in Nat
  /\ MaxRequests \in Nat

VARIABLES
  \* media worker
  nextSequence,      \* number the next encoded frame gets
  forceKeyframe,     \* the encoder's force_next_keyframe
  keyframeCommand,   \* a command that forces a keyframe is in the command pipe
  \* between the worker's reader thread and the service thread
  events,            \* encoded frames waiting for the service
  dropUnseen,        \* dropped_events is ahead of observed_worker_drops
  \* service thread
  serviceAt,         \* the part of its loop it is about to run
  lastSequence,      \* VideoRecovery.last_sequence
  waiting,           \* VideoRecovery.waiting_for_keyframe
  hostRetryOver,     \* KEYFRAME_RETRY_INTERVAL has passed since last_request
  pending,           \* number of the frame whose chunks are being sent
  handed,            \* history: the newest accepted frame, if wholly sent
  \* network
  requests,          \* keyframe requests on their way to the service
  net,               \* accepted frames that are neither released nor lost
  \* player, receiver task
  readerAt,
  released,          \* ResendState.released_sequence
  owed,              \* ResendState.dependency_lost
  assembled,         \* the released frame that is not yet in the queue
  playerRetryOver,   \* KEYFRAME_RETRY_INTERVAL has passed since last_keyframe
  \* shared by the receiver task and the consumer thread
  recover,
  request,           \* request_keyframe
  mediaQueue,        \* the MediaQueue of assembled frames
  \* player, consumer thread
  consumerAt,
  popped,            \* the frames this pass of the loop popped: none or one
  last,              \* DecodeContinuity.last
  ready,             \* DecodeContinuity.ready
  shown,             \* history: the newest frame given to consume_video
  shownKey           \* history: whether that frame is a keyframe

workerVars   == <<nextSequence, forceKeyframe>>
serviceVars  == <<serviceAt, lastSequence, waiting, hostRetryOver, pending, handed>>
readerVars   == <<readerAt, released, owed, assembled, playerRetryOver>>
consumerVars == <<consumerAt, popped, last, ready, shown, shownKey>>
linkVars     == <<keyframeCommand, events, dropUnseen, requests, net>>
sharedVars   == <<recover, request, mediaQueue>>
vars == <<workerVars, serviceVars, readerVars, consumerVars, linkVars, sharedVars>>

None == -1

Frame == [seq : Nat, key : BOOLEAN]

(* LatestQueue::push and MediaQueue::push: a full queue gives up its oldest item. *)
IsFull(queue, capacity) == Len(queue) = capacity
PushLatest(queue, item, capacity) ==
  Append(IF IsFull(queue, capacity) THEN Tail(queue) ELSE queue, item)

(* Whether a frame directly continues the one numbered `previous`. *)
Follows(previous, frame) == previous + 1 = frame.seq

-----------------------------------------------------------------------------

Init ==
  /\ nextSequence = 0
  /\ forceKeyframe = TRUE
  /\ keyframeCommand = FALSE
  /\ events = <<>>
  /\ dropUnseen = FALSE
  /\ serviceAt = "controls"
  /\ lastSequence = None
  /\ waiting = FALSE
  /\ hostRetryOver = TRUE
  /\ pending = None
  /\ handed = None
  /\ requests = 0
  /\ net = <<>>
  /\ readerAt = "select"
  /\ released = None
  /\ owed = FALSE
  /\ assembled = <<>>
  /\ playerRetryOver = TRUE
  /\ recover = FALSE
  /\ request = FALSE
  /\ mediaQueue = <<>>
  /\ consumerAt = "pop"
  /\ popped = <<>>
  /\ last = None
  /\ ready = FALSE
  /\ shown = None
  /\ shownKey = FALSE

-----------------------------------------------------------------------------
(* The worker process and the thread that reads its event pipe. *)

ReadCommand ==
  /\ keyframeCommand
  /\ keyframeCommand' = FALSE
  /\ forceKeyframe' = TRUE
  /\ UNCHANGED <<nextSequence, events, dropUnseen, requests, net,
                 serviceVars, readerVars, consumerVars, sharedVars>>

(* The encoder has no keyframe interval, so only a request makes one. *)
Encode ==
  /\ nextSequence < MaxSequence
  /\ events' = PushLatest(events, [seq |-> nextSequence, key |-> forceKeyframe],
                          EventQueueSize)
  /\ dropUnseen' = (dropUnseen \/ IsFull(events, EventQueueSize))
  /\ nextSequence' = nextSequence + 1
  /\ forceKeyframe' = FALSE
  /\ UNCHANGED <<keyframeCommand, requests, net,
                 serviceVars, readerVars, consumerVars, sharedVars>>

-----------------------------------------------------------------------------
(* The service thread: one pass of its loop drains the controls, looks at  *)
(* the worker's drop counter, asks for a keyframe, gives up a frame that   *)
(* took too long, takes an event if nothing is being sent, and sends.      *)

TakeControl ==
  /\ serviceAt = "controls"
  /\ requests > 0
  /\ requests' = requests - 1
  /\ waiting' = TRUE
  /\ UNCHANGED <<serviceAt, lastSequence, hostRetryOver, pending, handed,
                 keyframeCommand, events, dropUnseen, net, workerVars, readerVars,
                 consumerVars, sharedVars>>

ObserveDropsAndRequest ==
  /\ serviceAt = "controls"
  /\ requests = 0
  /\ dropUnseen' = FALSE
  /\ waiting' = (waiting \/ dropUnseen)
  /\ LET due == waiting' /\ hostRetryOver
     IN /\ keyframeCommand' = (keyframeCommand \/ due)
        /\ hostRetryOver' = (hostRetryOver /\ ~due)
  /\ serviceAt' = "event"
  /\ UNCHANGED <<lastSequence, pending, handed, events, requests, net, workerVars,
                 readerVars, consumerVars, sharedVars>>

HostRetryElapsed ==
  /\ ~hostRetryOver
  /\ hostRetryOver' = TRUE
  /\ UNCHANGED <<serviceAt, lastSequence, waiting, pending, handed, linkVars,
                 workerVars, readerVars, consumerVars, sharedVars>>

AbandonSilently ==   \* mutant
  /\ pending # None
  /\ pending' = None
  /\ handed' = None
  /\ UNCHANGED waiting
(* Both ways a frame is abandoned clear video_pending and call             *)
(* require_keyframe.                                                       *)
AbandonPending ==
  /\ pending # None
  /\ pending' = None
  /\ handed' = None
  /\ waiting' = TRUE

SendDeadlineExpired ==
  /\ serviceAt = "event"
  /\ AbandonPending
  /\ UNCHANGED <<serviceAt, lastSequence, hostRetryOver, linkVars, workerVars,
                 readerVars, consumerVars, sharedVars>>

(* VideoRecovery::accept, whatever it answers. *)
StillWaiting(frame) ==
  ~frame.key /\ (waiting \/ lastSequence = None \/ ~Follows(lastSequence, frame))

AcceptFrame ==
  LET frame == Head(events)
      refused == StillWaiting(frame)
  IN /\ serviceAt = "event"
     /\ pending = None
     /\ events # <<>>
     /\ Len(net) < MaxInFlight
     /\ events' = Tail(events)
     /\ lastSequence' = frame.seq
     /\ waiting' = refused
     /\ IF refused
        THEN UNCHANGED <<pending, net>>
        ELSE /\ pending' = frame.seq
             /\ net' = Append(net, frame)
     /\ serviceAt' = "controls"
     /\ UNCHANGED <<hostRetryOver, handed, keyframeCommand, dropUnseen, requests,
                    workerVars, readerVars, consumerVars, sharedVars>>

(* A frame of a stale capture is discarded before VideoRecovery sees it,   *)
(* and restarting the capture forces a keyframe.                           *)
DiscardStaleCapture ==
  /\ serviceAt = "event"
  /\ pending = None
  /\ events # <<>>
  /\ events' = Tail(events)
  /\ keyframeCommand' = TRUE
  /\ serviceAt' = "controls"
  /\ UNCHANGED <<lastSequence, waiting, hostRetryOver, pending, handed, dropUnseen,
                 requests, net, workerVars, readerVars, consumerVars, sharedVars>>

(* Some chunks are sent, or the last of them, or none because the path     *)
(* suddenly takes smaller datagrams only.  The pass that accepts a frame   *)
(* sends its first chunks, which changes nothing here.                     *)
SendChunks ==
  /\ serviceAt = "event"
  /\ pending # None \/ events = <<>>
  /\ serviceAt' = "controls"
  /\ \/ UNCHANGED <<pending, handed, waiting>>
     \/ /\ pending # None
        /\ handed' = pending
        /\ pending' = None
        /\ UNCHANGED waiting
     \/ AbandonPending
  /\ UNCHANGED <<lastSequence, hostRetryOver, linkVars, workerVars, readerVars,
                 consumerVars, sharedVars>>

Service ==
  \/ TakeControl \/ ObserveDropsAndRequest \/ HostRetryElapsed
  \/ SendDeadlineExpired \/ AcceptFrame \/ DiscardStaleCapture \/ SendChunks

-----------------------------------------------------------------------------
(* The network loses frames; the assembler hides reordering.               *)

LoseFrame ==
  /\ \E i \in 1..Len(net) :
       net' = SubSeq(net, 1, i - 1) \o SubSeq(net, i + 1, Len(net))
  /\ UNCHANGED <<keyframeCommand, events, dropUnseen, requests, workerVars,
                 serviceVars, readerVars, consumerVars, sharedVars>>

-----------------------------------------------------------------------------
(* The player's receiver task. *)

Skipped(frame) == released # None /\ ~Follows(released, frame)

(* VideoFrameAssembler::next_ready.  A datagram reports the loss before    *)
(* the first frame it releases; a loss before a further frame stays owed   *)
(* until the next datagram.  `givenUp` is a frame that expired: a resend   *)
(* may still have completed it since.                                      *)
ReleaseFrame ==
  /\ readerAt = "select"
  /\ net # <<>>
  /\ LET frame == Head(net)
     IN \E givenUp, first \in BOOLEAN :
          LET lost == ~frame.key /\ (owed \/ givenUp \/ Skipped(frame))
          IN /\ released' = frame.seq
             /\ assembled' = <<frame>>
             /\ recover' = (recover \/ (lost /\ first))
             /\ owed' = (lost /\ ~first)
  /\ net' = Tail(net)
  /\ readerAt' = "push"
  /\ UNCHANGED <<playerRetryOver, keyframeCommand, events, dropUnseen, requests,
                 request, mediaQueue, workerVars, serviceVars, consumerVars>>

(* A datagram that releases nothing still expires frames and collects what *)
(* is owed.                                                                *)
ReportLoss ==
  /\ readerAt = "select"
  /\ owed \/ lastSequence > released
  /\ recover' = TRUE
  /\ owed' = FALSE
  /\ UNCHANGED <<readerAt, released, assembled, playerRetryOver, request, mediaQueue,
                 linkVars, workerVars, serviceVars, consumerVars>>

QueueFrame ==
  /\ readerAt = "push"
  /\ mediaQueue' = PushLatest(mediaQueue, assembled[1], FrameQueueSize)
  /\ assembled' = <<>>
  /\ readerAt' = IF IsFull(mediaQueue, FrameQueueSize) THEN "dropped" ELSE "select"
  /\ UNCHANGED <<released, owed, playerRetryOver, recover, request, linkVars,
                 workerVars, serviceVars, consumerVars>>

ReportQueueDrop ==
  /\ readerAt = "dropped"
  /\ recover' = TRUE
  /\ readerAt' = "select"
  /\ UNCHANGED <<released, owed, assembled, playerRetryOver, request, mediaQueue,
                 linkVars, workerVars, serviceVars, consumerVars>>

(* The tick reads both flags, queues the request, and only then clears its *)
(* flag: what the consumer stored in between is overwritten.               *)
TickRequest ==
  /\ readerAt = "select"
  /\ request \/ recover
  /\ playerRetryOver
  /\ requests < MaxRequests
  /\ requests' = requests + 1
  /\ readerAt' = "clear"
  /\ UNCHANGED <<released, owed, assembled, playerRetryOver, keyframeCommand,
                 events, dropUnseen, net, workerVars, serviceVars, consumerVars,
                 sharedVars>>

TickClear ==
  /\ readerAt = "clear"
  /\ request' = FALSE
  /\ playerRetryOver' = FALSE
  /\ readerAt' = "select"
  /\ UNCHANGED <<released, owed, assembled, recover, mediaQueue, linkVars, workerVars,
                 serviceVars, consumerVars>>

PlayerRetryElapsed ==
  /\ ~playerRetryOver
  /\ playerRetryOver' = TRUE
  /\ UNCHANGED <<readerAt, released, owed, assembled, linkVars, workerVars,
                 serviceVars, consumerVars, sharedVars>>

Reader ==
  \/ ReleaseFrame \/ ReportLoss \/ QueueFrame \/ ReportQueueDrop
  \/ TickRequest \/ TickClear \/ PlayerRetryElapsed

-----------------------------------------------------------------------------
(* The player's consumer thread. *)

PopFrame ==
  /\ consumerAt = "pop"
  /\ mediaQueue # <<>>
  /\ popped' = <<Head(mediaQueue)>>
  /\ mediaQueue' = Tail(mediaQueue)
  /\ consumerAt' = "recover"
  /\ UNCHANGED <<last, ready, shown, shownKey, recover, request, linkVars, workerVars,
                 serviceVars, readerVars>>

(* Every pass swaps the flag, also one whose pop timed out: its pop and its *)
(* swap are one step, because a frame queued between them is popped by the *)
(* next pass in either order.                                              *)
SwapRecover ==
  /\ \/ consumerAt = "recover" /\ consumerAt' = "accept"
     \/ consumerAt = "pop" /\ recover /\ UNCHANGED consumerAt
  /\ recover' = FALSE
  /\ ready' = (ready /\ ~recover)
  /\ request' = (request \/ recover)
  /\ UNCHANGED <<popped, last, shown, shownKey, mediaQueue, linkVars, workerVars, serviceVars,
                 readerVars>>

(* DecodeContinuity::accept *)
DecodableWithoutKeyframe(frame) ==                                     \* mutant
  frame.key \/ last = None \/ Follows(last, frame)
Decodable(frame) == frame.key \/ (ready /\ (last = None \/ Follows(last, frame)))

ConsumeFrame ==
  /\ consumerAt = "accept"
  /\ LET frame == popped[1]
         decodable == Decodable(frame)
     IN /\ last' = frame.seq
        /\ ready' = decodable
        /\ shown' = IF decodable THEN frame.seq ELSE shown
        /\ shownKey' = IF decodable THEN frame.key ELSE shownKey
        /\ request' = IF ~decodable THEN TRUE ELSE request /\ ~frame.key
  /\ popped' = <<>>
  /\ consumerAt' = "pop"
  /\ UNCHANGED <<recover, mediaQueue, linkVars, workerVars, serviceVars, readerVars>>

Consumer == PopFrame \/ SwapRecover \/ ConsumeFrame

-----------------------------------------------------------------------------

Next == ReadCommand \/ Encode \/ Service \/ LoseFrame \/ Reader \/ Consumer

Spec == Init /\ [][Next]_vars
-----------------------------------------------------------------------------
(* Properties *)

SequenceNumber == Nat \union {None}
Queue(capacity) == {queue \in Seq(Frame) : Len(queue) <= capacity}

WorkerTypeOK ==
  nextSequence \in Nat /\ forceKeyframe \in BOOLEAN
ServiceTypeOK ==
  /\ serviceAt \in {"controls", "event"}
  /\ lastSequence \in SequenceNumber
  /\ pending \in SequenceNumber
  /\ handed \in SequenceNumber
  /\ waiting \in BOOLEAN /\ hostRetryOver \in BOOLEAN
ReaderTypeOK ==
  /\ readerAt \in {"select", "push", "dropped", "clear"}
  /\ released \in SequenceNumber
  /\ owed \in BOOLEAN /\ playerRetryOver \in BOOLEAN
  /\ assembled \in Seq(Frame) /\ Len(assembled) = IF readerAt = "push" THEN 1 ELSE 0
ConsumerTypeOK ==
  /\ consumerAt \in {"pop", "recover", "accept"}
  /\ popped \in Seq(Frame) /\ Len(popped) = IF consumerAt = "pop" THEN 0 ELSE 1
  /\ last \in SequenceNumber
  /\ shown \in SequenceNumber
  /\ ready \in BOOLEAN /\ shownKey \in BOOLEAN
LinkTypeOK ==
  /\ keyframeCommand \in BOOLEAN /\ dropUnseen \in BOOLEAN
  /\ events \in Queue(EventQueueSize)
  /\ requests \in Nat
  /\ net \in Seq(Frame)
SharedTypeOK ==
  /\ recover \in BOOLEAN /\ request \in BOOLEAN
  /\ mediaQueue \in Queue(FrameQueueSize)

(* Every variable has its type, and no queue exceeds its capacity.         *)
TypeOK ==
  /\ WorkerTypeOK /\ ServiceTypeOK /\ ReaderTypeOK
  /\ ConsumerTypeOK /\ LinkTypeOK /\ SharedTypeOK

Sorted(queue) == \A i, j \in 1..Len(queue) : i < j => queue[i].seq < queue[j].seq
Within(low, queue, high) ==
  \A i \in 1..Len(queue) : low < queue[i].seq /\ queue[i].seq <= high

NewestQueued == IF assembled = <<>> THEN released ELSE released - 1
PlayerOrdered ==
  /\ shown <= last
  /\ last <= NewestQueued
  /\ Sorted(mediaQueue)
  /\ Within(last, popped, NewestQueued)
  /\ Within(released - 1, assembled, released)
  /\ Within(IF popped = <<>> THEN last ELSE popped[1].seq, mediaQueue, NewestQueued)
NetOrdered ==
  /\ released <= lastSequence
  /\ Sorted(net)
  /\ Within(released, net, lastSequence)
HostOrdered ==
  /\ lastSequence < nextSequence
  /\ Sorted(events)
  /\ Within(lastSequence, events, nextSequence - 1)

(* Frames never overtake one another anywhere between the encoder and the  *)
(* decoder, although the two queues and the network drop them: whatever is *)
(* further along the path is older.  Every gap check relies on it.         *)
PipelineOrdered == PlayerOrdered /\ NetOrdered /\ HostOrdered

(* The decoder is never given a delta frame unless the last frame it was   *)
(* given is the one this frame was encoded against, and it never goes back *)
(* (the consumer loop of receive_stream and DecodeContinuity).             *)
ShownChain ==
  [][shown' # shown => /\ shown' > shown
                       /\ popped[1].key \/ shown' = shown + 1]_vars

(* The host never starts to send a delta frame whose reference it skipped, *)
(* dropped or abandoned half-way (VideoRecovery and the send deadline).    *)
SentChain ==
  [][pending = None /\ pending' # None =>
       net'[Len(net')].key \/ handed = pending' - 1]_vars

(* The decoder's input is the one DecodableStream specifies.               *)
Stream == INSTANCE DecodableStream WITH key <- shownKey, chained <- ready
ImplementsDecodableStream == Stream!Spec
=============================================================================
