----------------------------- MODULE PlaybackProofs -----------------------------
(* Proofs about a stream and the session that plays it, for every bound and    *)
(* every queue capacity.  FrameStream: frames reach the decoder in order and   *)
(* only with their references.  PlayerSession: it never runs two stream        *)
(* sessions, nothing of a session before the current one is left, and no       *)
(* swapchain is used that is gone.                                             *)
EXTENDS FrameStream, PlayerSession, TLAPS

-----------------------------------------------------------------------------
(* FrameStream. *)

(* A push keeps the queue a sequence of frames within its capacity.        *)
LEMMA PushLatestType ==
  ASSUME NEW capacity \in Nat \ {0}, NEW queue \in Queue(capacity), NEW frame \in Frame
  PROVE  PushLatest(queue, frame, capacity) \in Queue(capacity)
BY DEF PushLatest, IsFull, Queue

(* A wider range still holds the queue.                                        *)
LEMMA WithinWider ==
  ASSUME NEW low, NEW queue, NEW high \in Int, NEW above \in Int, high <= above,
         \A i \in 1..Len(queue) : queue[i].seq \in Int, Within(low, queue, high)
  PROVE  Within(low, queue, above)
BY DEF Within

(* Every element of a queue is a frame, with a natural sequence number.    *)
LEMMA ElementType ==
  ASSUME NEW queue \in Seq(Frame), NEW i \in 1..Len(queue)
  PROVE  queue[i] \in Frame /\ queue[i].seq \in Nat /\ queue[i].key \in BOOLEAN
<1>1. queue[i] \in Frame
  OBVIOUS
<1> QED
  BY <1>1 DEF Frame

(* The head of a non-empty queue is a frame and its tail is a queue.       *)
LEMMA HeadTailType ==
  ASSUME NEW queue \in Seq(Frame), queue # <<>>
  PROVE  /\ Head(queue) \in Frame
         /\ Tail(queue) \in Seq(Frame)
         /\ Len(Tail(queue)) = Len(queue) - 1
OBVIOUS

(* The parts of the type invariant depend on their own variables only.     *)
LEMMA TypeUnchanged ==
  /\ WorkerTypeOK /\ UNCHANGED workerVars => WorkerTypeOK'
  /\ ServiceTypeOK /\ UNCHANGED serviceVars => ServiceTypeOK'
  /\ ReaderTypeOK /\ UNCHANGED readerVars => ReaderTypeOK'
  /\ ConsumerTypeOK /\ UNCHANGED consumerVars => ConsumerTypeOK'
  /\ LinkTypeOK /\ UNCHANGED linkVars => LinkTypeOK'
  /\ SharedTypeOK /\ UNCHANGED sharedVars => SharedTypeOK'
BY DEF WorkerTypeOK, ServiceTypeOK, ReaderTypeOK, ConsumerTypeOK, LinkTypeOK,
       SharedTypeOK, workerVars, serviceVars, readerVars, consumerVars, linkVars,
       sharedVars

(* The state variables have their types and the queues their capacities.   *)
THEOREM TypeCorrect == Spec => []TypeOK
<1>1. Init => TypeOK
  <2> SUFFICES ASSUME Init PROVE TypeOK
    OBVIOUS
  <2>0. <<>> \in Seq(Frame) /\ Len(<<>>) = 0
    OBVIOUS
  <2>1. <<>> \in Queue(EventQueueSize) /\ <<>> \in Queue(FrameQueueSize)
    BY ConstantsAssumption DEF Queue
  <2>2. WorkerTypeOK /\ ServiceTypeOK
    BY DEF Init, WorkerTypeOK, ServiceTypeOK, SequenceNumber
  <2>3. ReaderTypeOK
    <3>1. Len(assembled) = IF readerAt = "push" THEN 1 ELSE 0
      BY <2>0 DEF Init
    <3>2. assembled \in Seq(Frame)
      BY <2>0 DEF Init
    <3> QED
      BY <3>1, <3>2 DEF Init, ReaderTypeOK, SequenceNumber
  <2>4. ConsumerTypeOK
    <3>1. Len(popped) = IF consumerAt = "pop" THEN 0 ELSE 1
      BY <2>0 DEF Init
    <3>2. popped \in Seq(Frame)
      BY <2>0 DEF Init
    <3> QED
      BY <3>1, <3>2 DEF Init, ConsumerTypeOK, SequenceNumber
  <2>5. LinkTypeOK
    BY <2>1, <2>0 DEF Init, LinkTypeOK
  <2>6. SharedTypeOK
    BY <2>1 DEF Init, SharedTypeOK
  <2> QED
    BY <2>2, <2>3, <2>4, <2>5, <2>6 DEF TypeOK
<1>2. TypeOK /\ [Next]_vars => TypeOK'
  <2> SUFFICES ASSUME TypeOK, [Next]_vars PROVE TypeOK'
    OBVIOUS
  <2> USE ConstantsAssumption, TypeUnchanged DEF TypeOK
  <2>1. ASSUME ReadCommand PROVE TypeOK'
    BY <2>1 DEF ReadCommand, WorkerTypeOK, LinkTypeOK
  <2>2. ASSUME Encode PROVE TypeOK'
    <3>1. [seq |-> nextSequence, key |-> forceKeyframe] \in Frame
      BY DEF WorkerTypeOK, Frame
    <3>2. events' \in Queue(EventQueueSize)
      BY <2>2, <3>1, PushLatestType DEF Encode, LinkTypeOK
    <3>3. WorkerTypeOK'
      <4>1. nextSequence' = nextSequence + 1 /\ forceKeyframe' = FALSE
        BY <2>2 DEF Encode
      <4>2. nextSequence \in Nat
        BY DEF WorkerTypeOK
      <4>3. nextSequence' \in Nat
        BY <4>1, <4>2
      <4>4. forceKeyframe' \in BOOLEAN
        BY <4>1
      <4> QED
        BY <4>3, <4>4 DEF WorkerTypeOK
    <3>4. dropUnseen' \in BOOLEAN
      BY <2>2 DEF Encode
    <3>5. LinkTypeOK'
      BY <2>2, <3>2, <3>4 DEF Encode, LinkTypeOK
    <3> QED
      BY <2>2, <3>3, <3>5 DEF Encode
  <2>3. ASSUME Service PROVE TypeOK'
    <3>1. ASSUME TakeControl PROVE TypeOK'
      BY <3>1 DEF TakeControl, ServiceTypeOK, LinkTypeOK
    <3>2. ASSUME ObserveDropsAndRequest PROVE TypeOK'
      BY <3>2 DEF ObserveDropsAndRequest, ServiceTypeOK, LinkTypeOK
    <3>3. ASSUME HostRetryElapsed PROVE TypeOK'
      BY <3>3 DEF HostRetryElapsed, ServiceTypeOK
    <3>4. ASSUME SendDeadlineExpired PROVE TypeOK'
      BY <3>4 DEF SendDeadlineExpired, AbandonPending, ServiceTypeOK, SequenceNumber
    <3>5. ASSUME AcceptFrame PROVE TypeOK'
      <4>1. /\ Head(events) \in Frame
            /\ events' \in Queue(EventQueueSize)
        BY <3>5, HeadTailType DEF AcceptFrame, LinkTypeOK, Queue
      <4>2. net' \in Seq(Frame)
        BY <3>5, <4>1 DEF AcceptFrame, LinkTypeOK
      <4>3. ServiceTypeOK'
        BY <3>5, <4>1 DEF AcceptFrame, StillWaiting, ServiceTypeOK, SequenceNumber, Frame
      <4>4. LinkTypeOK'
        BY <3>5, <4>1, <4>2 DEF AcceptFrame, LinkTypeOK
      <4> QED
        BY <3>5, <4>3, <4>4 DEF AcceptFrame
    <3>6. ASSUME DiscardStaleCapture PROVE TypeOK'
      <4>1. events' \in Queue(EventQueueSize)
        BY <3>6, HeadTailType DEF DiscardStaleCapture, LinkTypeOK, Queue
      <4> QED
        BY <3>6, <4>1 DEF DiscardStaleCapture, ServiceTypeOK, LinkTypeOK
    <3>7. ASSUME SendChunks PROVE TypeOK'
      BY <3>7 DEF SendChunks, AbandonPending, ServiceTypeOK, SequenceNumber
    <3> QED
      BY <2>3, <3>1, <3>2, <3>3, <3>4, <3>5, <3>6, <3>7 DEF Service
  <2>4. ASSUME LoseFrame PROVE TypeOK'
    <3>1. net' \in Seq(Frame)
      BY <2>4 DEF LoseFrame, LinkTypeOK
    <3> QED
      BY <2>4, <3>1 DEF LoseFrame, LinkTypeOK
  <2>5. ASSUME Reader PROVE TypeOK'
    <3>1. ASSUME ReleaseFrame PROVE TypeOK'
      <4>1. Head(net) \in Frame /\ net' \in Seq(Frame)
        BY <3>1, HeadTailType DEF ReleaseFrame, LinkTypeOK
      <4>2. ReaderTypeOK' /\ SharedTypeOK'
        BY <3>1, <4>1 DEF ReleaseFrame, ReaderTypeOK, SharedTypeOK, Skipped,
                          SequenceNumber, Frame
      <4>3. LinkTypeOK'
        BY <3>1, <4>1 DEF ReleaseFrame, LinkTypeOK
      <4> QED
        BY <3>1, <4>2, <4>3 DEF ReleaseFrame
    <3>2. ASSUME ReportLoss PROVE TypeOK'
      BY <3>2 DEF ReportLoss, ReaderTypeOK, SharedTypeOK
    <3>3. ASSUME QueueFrame PROVE TypeOK'
      <4>1. assembled[1] \in Frame
        BY <3>3, ElementType DEF QueueFrame, ReaderTypeOK
      <4>2. mediaQueue' \in Queue(FrameQueueSize)
        BY <3>3, <4>1, PushLatestType DEF QueueFrame, SharedTypeOK
      <4> QED
        BY <3>3, <4>2 DEF QueueFrame, ReaderTypeOK, SharedTypeOK
    <3>4. ASSUME ReportQueueDrop PROVE TypeOK'
      BY <3>4 DEF ReportQueueDrop, ReaderTypeOK, SharedTypeOK
    <3>5. ASSUME TickRequest PROVE TypeOK'
      BY <3>5 DEF TickRequest, ReaderTypeOK, LinkTypeOK
    <3>6. ASSUME TickClear PROVE TypeOK'
      BY <3>6 DEF TickClear, ReaderTypeOK, SharedTypeOK
    <3>7. ASSUME PlayerRetryElapsed PROVE TypeOK'
      BY <3>7 DEF PlayerRetryElapsed, ReaderTypeOK
    <3> QED
      BY <2>5, <3>1, <3>2, <3>3, <3>4, <3>5, <3>6, <3>7 DEF Reader
  <2>6. ASSUME Consumer PROVE TypeOK'
    <3>1. ASSUME PopFrame PROVE TypeOK'
      <4>1. Head(mediaQueue) \in Frame /\ mediaQueue' \in Queue(FrameQueueSize)
        BY <3>1, HeadTailType DEF PopFrame, SharedTypeOK, Queue
      <4> QED
        BY <3>1, <4>1 DEF PopFrame, ConsumerTypeOK, SharedTypeOK
    <3>2. ASSUME SwapRecover PROVE TypeOK'
      BY <3>2 DEF SwapRecover, ConsumerTypeOK, SharedTypeOK
    <3>3. ASSUME ConsumeFrame PROVE TypeOK'
      <4>0. Len(popped) = 1 /\ popped \in Seq(Frame) /\ 1 \in 1..Len(popped)
        BY <3>3 DEF ConsumeFrame, ConsumerTypeOK
      <4>1. popped[1] \in Frame
        BY <4>0, ElementType
      <4>2. popped[1].seq \in SequenceNumber
        BY <4>1 DEF Frame, SequenceNumber
      <4>3. Decodable(popped[1]) \in BOOLEAN
        BY DEF Decodable
      <4>4. ConsumerTypeOK'
        <5>1. popped[1].key \in BOOLEAN
          BY <4>0, ElementType
        <5>2. /\ last' = popped[1].seq /\ ready' = Decodable(popped[1])
              /\ shown' = popped[1].seq \/ shown' = shown
              /\ shownKey' = popped[1].key \/ shownKey' = shownKey
              /\ popped' = <<>> /\ consumerAt' = "pop"
          BY <3>3 DEF ConsumeFrame
        <5> QED
          BY <4>2, <4>3, <5>1, <5>2 DEF ConsumerTypeOK
      <4>5. request' \in BOOLEAN
        BY <3>3, <4>1 DEF ConsumeFrame, SharedTypeOK
      <4>6. SharedTypeOK'
        BY <3>3, <4>5 DEF ConsumeFrame, SharedTypeOK
      <4> QED
        BY <3>3, <4>4, <4>6 DEF ConsumeFrame
    <3> QED
      BY <2>6, <3>1, <3>2, <3>3 DEF Consumer
  <2>7. ASSUME UNCHANGED vars PROVE TypeOK'
    BY <2>7 DEF vars
  <2> QED
    BY <2>1, <2>2, <2>3, <2>4, <2>5, <2>6, <2>7 DEF Next
<1> QED
  BY <1>1, <1>2, PTL DEF Spec
-----------------------------------------------------------------------------
(* Order along the path. *)

(* An empty queue is sorted between any bounds in order.                   *)
LEMMA SortedEmpty ==
  ASSUME NEW low \in Int, NEW high \in Int
  PROVE  Sorted(<<>>) /\ Within(low, <<>>, high)
BY DEF Sorted, Within

(* Removing the head of a sorted queue raises the lower bound to the head. *)
LEMMA SortedTail ==
  ASSUME NEW queue \in Seq(Frame), queue # <<>>, Sorted(queue),
         NEW low \in Int, NEW high \in Int, Within(low, queue, high)
  PROVE  /\ Head(queue).seq \in Nat
         /\ low < Head(queue).seq /\ Head(queue).seq <= high
         /\ Sorted(Tail(queue))
         /\ Within(Head(queue).seq, Tail(queue), high)
         /\ Within(low, Tail(queue), high)
<1>1. /\ Len(queue) \in Nat \ {0} /\ Head(queue) = queue[1]
      /\ Len(Tail(queue)) = Len(queue) - 1
      /\ \A i \in 1..Len(Tail(queue)) : Tail(queue)[i] = queue[i + 1]
  OBVIOUS
<1>2. \A i \in 1..Len(queue) : queue[i].seq \in Nat
  BY ElementType
<1>3. \A i \in 1..Len(Tail(queue)) : i + 1 \in 1..Len(queue) /\ 1 < i + 1
  BY <1>1
<1> QED
  BY <1>1, <1>2, <1>3 DEF Sorted, Within

(* A newer frame goes to the back of a sorted queue.                       *)
LEMMA SortedAppend ==
  ASSUME NEW queue \in Seq(Frame), Sorted(queue), NEW frame \in Frame,
         NEW low \in Int, NEW high \in Int, NEW newHigh \in Int,
         Within(low, queue, high), low < frame.seq, high < frame.seq,
         frame.seq <= newHigh
  PROVE  Sorted(Append(queue, frame)) /\ Within(low, Append(queue, frame), newHigh)
<1> DEFINE longer == Append(queue, frame)
<1>1. /\ Len(longer) = Len(queue) + 1 /\ Len(queue) \in Nat
      /\ longer[Len(queue) + 1] = frame
      /\ \A i \in 1..Len(queue) : longer[i] = queue[i]
  OBVIOUS
<1>2. frame.seq \in Nat /\ \A i \in 1..Len(queue) : queue[i].seq \in Nat
  BY ElementType DEF Frame
<1>3. \A i \in 1..Len(longer) : i = Len(queue) + 1 \/ i \in 1..Len(queue)
  BY <1>1
<1>4. Within(low, longer, newHigh)
  BY <1>1, <1>2, <1>3 DEF Within
<1>5. Sorted(longer)
  <2> SUFFICES ASSUME NEW i \in 1..Len(longer), NEW j \in 1..Len(longer), i < j
               PROVE  longer[i].seq < longer[j].seq
    BY DEF Sorted
  <2>1. i \in 1..Len(queue)
    BY <1>1
  <2>2. CASE j \in 1..Len(queue)
    BY <1>1, <2>1, <2>2 DEF Sorted
  <2>3. CASE j = Len(queue) + 1
    BY <1>1, <1>2, <2>1, <2>3 DEF Within
  <2> QED
    BY <1>3, <2>2, <2>3
<1> QED
  BY <1>4, <1>5

(* A push of a newer frame onto a sorted queue leaves it sorted.           *)
LEMMA SortedPush ==
  ASSUME NEW capacity \in Nat \ {0}, NEW queue \in Queue(capacity), Sorted(queue),
         NEW frame \in Frame,
         NEW low \in Int, NEW high \in Int, NEW newHigh \in Int,
         Within(low, queue, high), low < frame.seq, high < frame.seq,
         frame.seq <= newHigh
  PROVE  /\ Sorted(PushLatest(queue, frame, capacity))
         /\ Within(low, PushLatest(queue, frame, capacity), newHigh)
<1>1. CASE IsFull(queue, capacity)
  <2>1. queue \in Seq(Frame) /\ queue # <<>>
    BY <1>1 DEF IsFull, Queue
  <2>2. /\ Tail(queue) \in Seq(Frame) /\ Sorted(Tail(queue))
        /\ Within(low, Tail(queue), high)
    BY <2>1, SortedTail, HeadTailType
  <2> QED
    BY <1>1, <2>2, SortedAppend DEF PushLatest
<1>2. CASE ~IsFull(queue, capacity)
  BY <1>2, SortedAppend DEF PushLatest, Queue
<1> QED
  BY <1>1, <1>2

(* An element of a concatenation comes from one of its two parts.          *)
LEMMA ConcatElements ==
  ASSUME NEW left \in Seq(Frame), NEW right \in Seq(Frame)
  PROVE  /\ Len(left \o right) = Len(left) + Len(right)
         /\ \A i \in 1..Len(left \o right) :
              (left \o right)[i] = IF i <= Len(left) THEN left[i] ELSE right[i - Len(left)]
OBVIOUS

(* A lost frame leaves the others in order.                                *)
LEMMA SortedRemove ==
  ASSUME NEW queue \in Seq(Frame), Sorted(queue), NEW k \in 1..Len(queue),
         NEW low \in Int, NEW high \in Int, Within(low, queue, high)
  PROVE  LET shorter == SubSeq(queue, 1, k - 1) \o SubSeq(queue, k + 1, Len(queue))
         IN Sorted(shorter) /\ Within(low, shorter, high)
<1> DEFINE shorter == SubSeq(queue, 1, k - 1) \o SubSeq(queue, k + 1, Len(queue))
           Place(i) == IF i < k THEN i ELSE i + 1
<1> DEFINE left == SubSeq(queue, 1, k - 1)
           right == SubSeq(queue, k + 1, Len(queue))
<1>01. /\ left \in Seq(Frame) /\ Len(left) = k - 1
      /\ \A i \in 1..(k - 1) : left[i] = queue[i]
  OBVIOUS
<1>02. /\ right \in Seq(Frame) /\ Len(right) = Len(queue) - k
      /\ \A i \in 1..(Len(queue) - k) : right[i] = queue[k + i]
  OBVIOUS
<1>1. /\ Len(queue) \in Nat /\ Len(shorter) = Len(queue) - 1
      /\ \A i \in 1..Len(shorter) : shorter[i] = queue[Place(i)]
  <2> HIDE DEF left, right
  <2>1. /\ Len(left \o right) = Len(left) + Len(right)
        /\ \A i \in 1..Len(left \o right) :
             (left \o right)[i] = IF i <= Len(left) THEN left[i] ELSE right[i - Len(left)]
    BY <1>01, <1>02, ConcatElements
  <2>2. Len(queue) \in Nat /\ k \in Nat /\ k <= Len(queue)
    OBVIOUS
  <2>3. Len(left \o right) = Len(queue) - 1
    BY <1>01, <1>02, <2>1, <2>2
  <2>4. ASSUME NEW i \in 1..Len(left \o right)
        PROVE  (left \o right)[i] = queue[Place(i)]
    <3>1. CASE i < k
      BY <1>01, <2>1, <2>2, <2>3, <3>1
    <3>2. CASE ~(i < k)
      <4>1. i - (k - 1) \in 1..(Len(queue) - k) /\ k + (i - (k - 1)) = i + 1
        BY <2>2, <2>3, <3>2
      <4> QED
        BY <1>01, <1>02, <2>1, <2>2, <3>2, <4>1
    <3> QED
      BY <3>1, <3>2
  <2> QED
    BY <2>2, <2>3, <2>4 DEF left, right
<1>2. \A i \in 1..Len(shorter) : Place(i) \in 1..Len(queue)
  <2> HIDE DEF shorter
  <2> QED
    BY <1>1
<1>3. \A i, j \in 1..Len(shorter) : i < j => Place(i) < Place(j)
  BY <1>1
<1>4. Sorted(shorter)
  <2> HIDE DEF Place, shorter
  <2> QED
    BY <1>1, <1>2, <1>3 DEF Sorted
<1>5. Within(low, shorter, high)
  <2> HIDE DEF Place, shorter
  <2> QED
    BY <1>1, <1>2 DEF Within
<1> QED
  BY <1>4, <1>5
-----------------------------------------------------------------------------
(* PipelineOrdered, with the types, is inductive. *)

(* The order depends on the variables of the pipeline only.                *)
LEMMA OrderUnchanged ==
  /\ PlayerOrdered /\ UNCHANGED <<shown, last, released, mediaQueue, popped, assembled>>
       => PlayerOrdered'
  /\ NetOrdered /\ UNCHANGED <<released, lastSequence, net>> => NetOrdered'
  /\ HostOrdered /\ UNCHANGED <<lastSequence, nextSequence, events>> => HostOrdered'
BY DEF PlayerOrdered, NewestQueued, NetOrdered, HostOrdered, Sorted, Within

(* Every step keeps the frames of the path in order.                       *)
LEMMA OrderStep == TypeOK /\ TypeOK' /\ PipelineOrdered /\ [Next]_vars => PipelineOrdered'
<1> SUFFICES ASSUME TypeOK, TypeOK', PipelineOrdered, [Next]_vars PROVE PipelineOrdered'
  OBVIOUS
<1> USE OrderUnchanged DEF PipelineOrdered
<1>0. /\ SequenceNumber \subseteq Int /\ None = -1
      /\ shown \in Int /\ last \in Int /\ released \in Int /\ lastSequence \in Int
      /\ nextSequence \in Nat
      /\ mediaQueue \in Seq(Frame) /\ popped \in Seq(Frame) /\ assembled \in Seq(Frame)
      /\ net \in Seq(Frame) /\ events \in Seq(Frame)
  BY DEF TypeOK, WorkerTypeOK, ServiceTypeOK, ReaderTypeOK, ConsumerTypeOK, LinkTypeOK,
         SharedTypeOK, SequenceNumber, None, Queue
<1>1. ASSUME ReadCommand PROVE PipelineOrdered'
  BY <1>1 DEF ReadCommand, serviceVars, readerVars, consumerVars, sharedVars
<1>2. ASSUME Encode PROVE PipelineOrdered'
  <2> DEFINE frame == [seq |-> nextSequence, key |-> forceKeyframe]
  <2>1. frame \in Frame /\ frame.seq = nextSequence
    BY DEF TypeOK, WorkerTypeOK, Frame
  <2>2. Sorted(events') /\ Within(lastSequence, events', nextSequence)
    <3>1. events' = PushLatest(events, frame, EventQueueSize)
      BY <1>2 DEF Encode
    <3>2. events \in Queue(EventQueueSize) /\ EventQueueSize \in Nat \ {0}
      BY ConstantsAssumption DEF TypeOK, LinkTypeOK
    <3> HIDE DEF frame
    <3>3. /\ Sorted(events) /\ Within(lastSequence, events, nextSequence - 1)
          /\ lastSequence < frame.seq /\ nextSequence - 1 < frame.seq
          /\ frame.seq <= nextSequence /\ nextSequence - 1 \in Int
      BY <1>0, <2>1 DEF HostOrdered
    <3>4. nextSequence \in Int /\ lastSequence \in Int /\ frame \in Frame
      BY <1>0, <2>1
    <3>5. /\ Sorted(PushLatest(events, frame, EventQueueSize))
          /\ Within(lastSequence, PushLatest(events, frame, EventQueueSize), nextSequence)
      BY <3>2, <3>3, <3>4, SortedPush
    <3> QED
      BY <3>1, <3>5
  <2>3. HostOrdered'
    <3>1. nextSequence' = nextSequence + 1 /\ lastSequence' = lastSequence
      BY <1>2 DEF Encode, serviceVars
    <3>2. nextSequence' - 1 = nextSequence /\ lastSequence' < nextSequence'
      BY <1>0, <3>1 DEF HostOrdered
    <3> QED
      BY <2>2, <3>1, <3>2 DEF HostOrdered, Sorted, Within
  <2> QED
    BY <1>2, <2>3 DEF Encode, serviceVars, readerVars, consumerVars, sharedVars
<1>3. ASSUME Service PROVE PipelineOrdered'
  <2>1. ASSUME TakeControl PROVE PipelineOrdered'
    BY <2>1 DEF TakeControl, workerVars, readerVars, consumerVars, sharedVars
  <2>2. ASSUME ObserveDropsAndRequest PROVE PipelineOrdered'
    BY <2>2 DEF ObserveDropsAndRequest, workerVars, readerVars, consumerVars, sharedVars
  <2>3. ASSUME HostRetryElapsed PROVE PipelineOrdered'
    BY <2>3 DEF HostRetryElapsed, linkVars, workerVars, readerVars, consumerVars, sharedVars
  <2>4. ASSUME SendDeadlineExpired PROVE PipelineOrdered'
    BY <2>4 DEF SendDeadlineExpired, linkVars, workerVars, readerVars, consumerVars, sharedVars
  <2>5. ASSUME AcceptFrame PROVE PipelineOrdered'
    <3> DEFINE frame == Head(events)
    <3>1. /\ events # <<>> /\ events' = Tail(events) /\ lastSequence' = frame.seq
          /\ net' = net \/ net' = Append(net, frame)
          /\ nextSequence' = nextSequence /\ released' = released
          /\ UNCHANGED <<shown, last, mediaQueue, popped, assembled>>
      BY <2>5 DEF AcceptFrame, workerVars, readerVars, consumerVars, sharedVars
    <3>2. /\ frame \in Frame /\ frame.seq \in Nat
          /\ lastSequence < frame.seq /\ frame.seq <= nextSequence - 1
          /\ Sorted(events') /\ Within(frame.seq, events', nextSequence - 1)
      <4>1. /\ Sorted(events) /\ Within(lastSequence, events, nextSequence - 1)
            /\ nextSequence - 1 \in Int
        BY <1>0 DEF HostOrdered
      <4>2. frame \in Frame
        BY <1>0, <3>1, HeadTailType
      <4>3. /\ Head(events).seq \in Nat
            /\ lastSequence < Head(events).seq /\ Head(events).seq <= nextSequence - 1
            /\ Sorted(Tail(events)) /\ Within(Head(events).seq, Tail(events), nextSequence - 1)
        BY <1>0, <3>1, <4>1, SortedTail
      <4> QED
        BY <3>1, <4>2, <4>3
    <3>3. HostOrdered'
      BY <1>0, <3>1, <3>2 DEF HostOrdered, Sorted, Within
    <3> HIDE DEF frame
    <3>4. /\ released <= lastSequence /\ Sorted(net) /\ Within(released, net, lastSequence)
      BY DEF NetOrdered
    <3>5. released <= frame.seq /\ released < frame.seq
      BY <1>0, <3>2, <3>4
    <3>6. Sorted(net') /\ Within(released, net', frame.seq)
      <4>1. CASE net' = net
        BY <1>0, <3>2, <3>4, <4>1, ElementType DEF Sorted, Within
      <4>2. CASE net' = Append(net, frame)
        BY <1>0, <3>2, <3>4, <3>5, <4>2, SortedAppend
      <4> QED
        BY <3>1, <4>1, <4>2
    <3>7. NetOrdered'
      BY <3>1, <3>5, <3>6 DEF NetOrdered, Sorted, Within
    <3> QED
      BY <3>1, <3>3, <3>7
  <2>6. ASSUME DiscardStaleCapture PROVE PipelineOrdered'
    <3>1. /\ events # <<>> /\ events' = Tail(events)
          /\ UNCHANGED <<lastSequence, nextSequence, released, net>>
          /\ UNCHANGED <<shown, last, mediaQueue, popped, assembled>>
      BY <2>6 DEF DiscardStaleCapture, workerVars, readerVars, consumerVars, sharedVars
    <3>2. Sorted(events') /\ Within(lastSequence, events', nextSequence - 1)
      BY <1>0, <3>1, SortedTail DEF HostOrdered
    <3>3. HostOrdered'
      BY <1>0, <3>1, <3>2 DEF HostOrdered, Sorted, Within
    <3> QED
      BY <3>1, <3>3
  <2>7. ASSUME SendChunks PROVE PipelineOrdered'
    BY <2>7 DEF SendChunks, linkVars, workerVars, readerVars, consumerVars, sharedVars
  <2> QED
    BY <1>3, <2>1, <2>2, <2>3, <2>4, <2>5, <2>6, <2>7 DEF Service
<1>4. ASSUME LoseFrame PROVE PipelineOrdered'
  <2>1. Sorted(net') /\ Within(released, net', lastSequence)
    <3>1. PICK k \in 1..Len(net) :
            net' = SubSeq(net, 1, k - 1) \o SubSeq(net, k + 1, Len(net))
      BY <1>4 DEF LoseFrame
    <3> QED
      BY <1>0, <3>1, SortedRemove DEF NetOrdered
  <2>2. UNCHANGED <<lastSequence, nextSequence, events, released, shown, last, mediaQueue,
                    popped, assembled>>
    BY <1>4 DEF LoseFrame, workerVars, serviceVars, readerVars, consumerVars, sharedVars
  <2>3. NetOrdered'
    BY <2>1, <2>2 DEF NetOrdered, Sorted, Within
  <2> QED
    BY <2>2, <2>3
<1>5. ASSUME Reader PROVE PipelineOrdered'
  <2>1. ASSUME ReleaseFrame PROVE PipelineOrdered'
    <3> DEFINE frame == Head(net)
    <3>1. /\ net # <<>> /\ net' = Tail(net) /\ released' = frame.seq
          /\ readerAt = "select" /\ assembled' = <<frame>>
          /\ UNCHANGED <<shown, last, mediaQueue, popped, lastSequence, nextSequence, events>>
      BY <2>1 DEF ReleaseFrame, workerVars, serviceVars, consumerVars
    <3>2. /\ frame.seq \in Nat /\ released < frame.seq /\ frame.seq <= lastSequence
          /\ Sorted(net') /\ Within(frame.seq, net', lastSequence)
      BY <1>0, <3>1, SortedTail DEF NetOrdered
    <3>3. NetOrdered'
      BY <3>1, <3>2 DEF NetOrdered, Sorted, Within
    <3>4. assembled = <<>>
      BY <1>0, <3>1 DEF TypeOK, ReaderTypeOK
    <3>5. /\ Len(assembled') = 1 /\ assembled'[1] = frame /\ assembled' # <<>>
      BY <3>1
    <3> HIDE DEF frame
    <3>6. NewestQueued = released /\ NewestQueued' = frame.seq - 1
      BY <3>1, <3>4, <3>5 DEF NewestQueued
    <3>7. /\ shown' <= last' /\ last' <= NewestQueued' /\ Sorted(mediaQueue')
      BY <1>0, <3>1, <3>2, <3>6 DEF PlayerOrdered, Sorted
    <3>0. NewestQueued \in Int /\ NewestQueued' \in Int /\ NewestQueued <= NewestQueued'
      BY <1>0, <3>2, <3>6 DEF TypeOK, ReaderTypeOK
    <3>8. Within(last', popped', NewestQueued')
      <4>1. /\ Within(last, popped, NewestQueued)
            /\ \A i \in 1..Len(popped) : popped[i].seq \in Int
        BY <1>0, ElementType DEF PlayerOrdered
      <4> QED
        BY <3>0, <3>1, <4>1, WithinWider
    <3>9. Within(released' - 1, assembled', released')
      BY <3>1, <3>2, <3>5 DEF Within
    <3>10. Within(IF popped' = <<>> THEN last' ELSE popped'[1].seq, mediaQueue', NewestQueued')
      <4>1. /\ Within(IF popped = <<>> THEN last ELSE popped[1].seq, mediaQueue, NewestQueued)
            /\ \A i \in 1..Len(mediaQueue) : mediaQueue[i].seq \in Int
        BY <1>0, ElementType DEF PlayerOrdered
      <4> QED
        BY <3>0, <3>1, <4>1, WithinWider
    <3>11. PlayerOrdered'
      BY <3>7, <3>8, <3>9, <3>10 DEF PlayerOrdered, Sorted, Within
    <3> QED
      BY <3>1, <3>3, <3>11
  <2>2. ASSUME ReportLoss PROVE PipelineOrdered'
    BY <2>2 DEF ReportLoss, linkVars, workerVars, serviceVars, consumerVars
  <2>3. ASSUME QueueFrame PROVE PipelineOrdered'
    <3> DEFINE low == IF popped = <<>> THEN last ELSE popped[1].seq
    <3>1. /\ mediaQueue' = PushLatest(mediaQueue, assembled[1], FrameQueueSize)
          /\ assembled' = <<>> /\ readerAt = "push"
          /\ UNCHANGED <<shown, last, released, popped, lastSequence, nextSequence,
                         net, events>>
      BY <2>3 DEF QueueFrame, linkVars, workerVars, serviceVars, consumerVars
    <3>2. Len(assembled) = 1 /\ assembled[1] \in Frame
      <4>1. Len(assembled) = 1
        BY <3>1 DEF TypeOK, ReaderTypeOK
      <4>2. 1 \in 1..Len(assembled)
        BY <4>1
      <4> QED
        BY <1>0, <4>1, <4>2, ElementType
    <3>3. assembled # <<>> /\ assembled[1].seq \in Nat
      <4>1. assembled # <<>>
        <5>1. Len(<<>>) = 0
          OBVIOUS
        <5> QED
          BY <3>2, <5>1
      <4> QED
        BY <3>2, <4>1 DEF Frame
    <3>4. assembled[1].seq = released
      <4>1. released - 1 < assembled[1].seq /\ assembled[1].seq <= released
        BY <3>2 DEF PlayerOrdered, Within
      <4> QED
        BY <1>0, <3>3, <4>1
    <3>5. NewestQueued = released - 1 /\ NewestQueued' = released
      BY <3>1, <3>3 DEF NewestQueued
    <3>6. low \in Int /\ low <= released - 1
      <4>1. CASE popped = <<>>
        BY <1>0, <3>5, <4>1 DEF PlayerOrdered
      <4>2. CASE popped # <<>>
        <5>1. 1 \in 1..Len(popped)
          BY <1>0, <4>2
        <5> QED
          BY <1>0, <3>5, <4>2, <5>1, ElementType DEF PlayerOrdered, Within
      <4> QED
        BY <4>1, <4>2
    <3>7. Sorted(mediaQueue') /\ Within(low, mediaQueue', released)
      <4>1. /\ mediaQueue \in Queue(FrameQueueSize) /\ FrameQueueSize \in Nat \ {0}
            /\ Sorted(mediaQueue) /\ Within(low, mediaQueue, released - 1)
        BY <3>5, ConstantsAssumption DEF TypeOK, SharedTypeOK, PlayerOrdered
      <4>2. released - 1 \in Int /\ low < released /\ released - 1 < released
            /\ released <= released
        BY <1>0, <3>6
      <4> DEFINE frame == assembled[1]
      <4>3. frame \in Frame /\ low < frame.seq /\ released - 1 < frame.seq
            /\ frame.seq <= released
        BY <3>2, <3>4, <4>2
      <4>4. low \in Int /\ mediaQueue' = PushLatest(mediaQueue, frame, FrameQueueSize)
        BY <3>1, <3>6
      <4> HIDE DEF low, frame
      <4> QED
        BY <1>0, <4>1, <4>2, <4>3, <4>4, SortedPush
    <3>8. Within(last', popped', NewestQueued')
      BY <1>0, <3>1, <3>5, ElementType DEF PlayerOrdered, Within
    <3>9. Within(released' - 1, assembled', released')
      BY <1>0, <3>1, SortedEmpty
    <3>10. shown' <= last' /\ last' <= NewestQueued'
      BY <1>0, <3>1, <3>5 DEF PlayerOrdered
    <3>11. PlayerOrdered'
      BY <3>1, <3>5, <3>7, <3>8, <3>9, <3>10 DEF PlayerOrdered, Sorted, Within
    <3> QED
      BY <3>1, <3>11
  <2>4. ASSUME ReportQueueDrop PROVE PipelineOrdered'
    BY <2>4 DEF ReportQueueDrop, linkVars, workerVars, serviceVars, consumerVars
  <2>5. ASSUME TickRequest PROVE PipelineOrdered'
    BY <2>5 DEF TickRequest, workerVars, serviceVars, consumerVars, sharedVars
  <2>6. ASSUME TickClear PROVE PipelineOrdered'
    BY <2>6 DEF TickClear, linkVars, workerVars, serviceVars, consumerVars
  <2>7. ASSUME PlayerRetryElapsed PROVE PipelineOrdered'
    BY <2>7 DEF PlayerRetryElapsed, linkVars, workerVars, serviceVars, consumerVars, sharedVars
  <2> QED
    BY <1>5, <2>1, <2>2, <2>3, <2>4, <2>5, <2>6, <2>7 DEF Reader
<1>6. ASSUME Consumer PROVE PipelineOrdered'
  <2>1. ASSUME PopFrame PROVE PipelineOrdered'
    <3>1. /\ mediaQueue # <<>> /\ popped' = <<Head(mediaQueue)>> /\ mediaQueue' = Tail(mediaQueue)
          /\ consumerAt = "pop"
          /\ UNCHANGED <<shown, last, released, assembled, lastSequence, nextSequence,
                         net, events>>
      BY <2>1 DEF PopFrame, linkVars, workerVars, serviceVars, readerVars
    <3>2. popped = <<>>
      BY <1>0, <3>1 DEF TypeOK, ConsumerTypeOK
    <3>3. NewestQueued \in Int /\ NewestQueued' = NewestQueued
      BY <1>0, <3>1 DEF NewestQueued
    <3>4. /\ last < Head(mediaQueue).seq /\ Head(mediaQueue).seq <= NewestQueued
          /\ Sorted(mediaQueue') /\ Within(Head(mediaQueue).seq, mediaQueue', NewestQueued)
      <4>1. Sorted(mediaQueue) /\ Within(last, mediaQueue, NewestQueued)
        BY <3>2 DEF PlayerOrdered
      <4> QED
        BY <1>0, <3>1, <3>3, <4>1, SortedTail
    <3>5. popped' # <<>> /\ Len(popped') = 1 /\ popped'[1] = Head(mediaQueue)
      BY <3>1
    <3>6. Within(last', popped', NewestQueued')
      BY <3>1, <3>3, <3>4, <3>5 DEF Within
    <3>7. Within(IF popped' = <<>> THEN last' ELSE popped'[1].seq, mediaQueue', NewestQueued')
      BY <3>3, <3>4, <3>5
    <3>8. PlayerOrdered'
      BY <3>1, <3>3, <3>4, <3>6, <3>7 DEF PlayerOrdered, Sorted, Within
    <3> QED
      BY <3>1, <3>8
  <2>2. ASSUME SwapRecover PROVE PipelineOrdered'
    BY <2>2 DEF SwapRecover, linkVars, workerVars, serviceVars, readerVars
  <2>3. ASSUME ConsumeFrame PROVE PipelineOrdered'
    <3>1. /\ last' = popped[1].seq /\ (shown' = popped[1].seq \/ shown' = shown)
          /\ popped' = <<>> /\ consumerAt = "accept"
          /\ UNCHANGED <<mediaQueue, released, assembled, lastSequence, nextSequence,
                         net, events>>
      BY <2>3 DEF ConsumeFrame, linkVars, workerVars, serviceVars, readerVars
    <3>2. popped # <<>> /\ 1 \in 1..Len(popped) /\ popped[1].seq \in Nat
      <4>1. Len(popped) = 1 /\ popped \in Seq(Frame)
        BY <3>1 DEF TypeOK, ConsumerTypeOK
      <4>2. popped # <<>> /\ 1 \in 1..Len(popped)
        BY <4>1
      <4> QED
        BY <4>1, <4>2, ElementType
    <3>3. NewestQueued \in Int /\ NewestQueued' = NewestQueued
      BY <1>0, <3>1 DEF NewestQueued
    <3>4. last < popped[1].seq /\ popped[1].seq <= NewestQueued
      BY <3>2 DEF PlayerOrdered, Within
    <3>5. shown' <= last' /\ last' <= NewestQueued'
      BY <1>0, <3>1, <3>2, <3>3, <3>4 DEF PlayerOrdered
    <3>6. Within(last', popped', NewestQueued')
      BY <1>0, <3>1, <3>2, <3>3, SortedEmpty
    <3>7. Within(IF popped' = <<>> THEN last' ELSE popped'[1].seq, mediaQueue', NewestQueued')
      BY <3>1, <3>2, <3>3 DEF PlayerOrdered
    <3>8. PlayerOrdered'
      BY <3>1, <3>3, <3>5, <3>6, <3>7 DEF PlayerOrdered, Sorted, Within
    <3> QED
      BY <3>1, <3>8
  <2> QED
    BY <1>6, <2>1, <2>2, <2>3 DEF Consumer
<1>7. ASSUME UNCHANGED vars PROVE PipelineOrdered'
  BY <1>7 DEF vars, workerVars, serviceVars, readerVars, consumerVars, linkVars, sharedVars
<1> QED
  BY <1>1, <1>2, <1>3, <1>4, <1>5, <1>6, <1>7 DEF Next

(* Frames never overtake one another between the encoder and the decoder.  *)
THEOREM Ordered == Spec => []PipelineOrdered
<1>1. Init => PipelineOrdered
  <2> SUFFICES ASSUME Init PROVE PipelineOrdered
    OBVIOUS
  <2> USE DEF Init, None
  <2>1. PlayerOrdered
    BY SortedEmpty DEF PlayerOrdered, NewestQueued
  <2>2. NetOrdered /\ HostOrdered
    BY SortedEmpty DEF NetOrdered, HostOrdered
  <2> QED
    BY <2>1, <2>2 DEF PipelineOrdered
<1> QED
  BY <1>1, TypeCorrect, OrderStep, PTL DEF Spec
-----------------------------------------------------------------------------
(* The chains of references. *)

(* Unless it waits for a keyframe, the host has sent all of the newest     *)
(* frame it looked at, or is still sending it.                             *)
SentInv ==
  /\ pending # None => pending = lastSequence
  /\ ~waiting /\ pending = None => handed = lastSequence

(* Every step keeps SentInv and sends only frames that can be decoded.     *)
LEMMA SentStep ==
  TypeOK /\ SentInv /\ [Next]_vars
    => SentInv' /\ (pending = None /\ pending' # None =>
                      net'[Len(net')].key \/ handed = pending' - 1)
<1> SUFFICES ASSUME TypeOK, SentInv, [Next]_vars
             PROVE  SentInv' /\ (pending = None /\ pending' # None =>
                                   net'[Len(net')].key \/ handed = pending' - 1)
  OBVIOUS
<1>1. ASSUME UNCHANGED <<pending, handed, lastSequence, waiting>>
      PROVE  SentInv' /\ pending' = pending
  BY <1>1 DEF SentInv
<1>2. ASSUME AcceptFrame
      PROVE  SentInv' /\ (pending = None /\ pending' # None =>
                            net'[Len(net')].key \/ handed = pending' - 1)
  <2> DEFINE frame == Head(events)
  <2>1. frame \in Frame /\ frame.seq \in Nat /\ net \in Seq(Frame)
    BY <1>2, HeadTailType DEF AcceptFrame, TypeOK, LinkTypeOK, Queue, Frame
  <2>2. /\ pending = None /\ lastSequence' = frame.seq /\ handed' = handed
        /\ waiting' = StillWaiting(frame)
        /\ ~waiting' => pending' = frame.seq /\ net' = Append(net, frame)
        /\ waiting' => pending' = None
    BY <1>2 DEF AcceptFrame
  <2>3. lastSequence \in Int /\ frame.seq # None
    BY <2>1 DEF TypeOK, ServiceTypeOK, SequenceNumber, None
  <2> HIDE DEF frame
  <2>4. SentInv'
    BY <2>2, <2>3 DEF SentInv
  <2>5. ASSUME ~waiting', ~frame.key PROVE handed = frame.seq - 1
    <3>1. ~StillWaiting(frame)
      BY <2>2, <2>5
    <3>2. ~waiting /\ Follows(lastSequence, frame)
      BY <2>5, <3>1 DEF StillWaiting
    <3>3. handed = lastSequence
      BY <2>2, <3>2 DEF SentInv
    <3>4. handed + 1 = frame.seq
      BY <3>2, <3>3 DEF Follows
    <3> QED
      BY <2>1, <2>3, <3>3, <3>4
  <2>6. ASSUME ~waiting' PROVE net'[Len(net')] = frame
    BY <2>1, <2>2, <2>6
  <2> QED
    BY <2>2, <2>4, <2>5, <2>6
<1>3. ASSUME TakeControl \/ ObserveDropsAndRequest \/ SendDeadlineExpired
              \/ DiscardStaleCapture \/ SendChunks \/ HostRetryElapsed
      PROVE  SentInv' /\ (pending = None => pending' = None)
  BY <1>3 DEF TakeControl, ObserveDropsAndRequest, SendDeadlineExpired, AbandonPending,
              DiscardStaleCapture, SendChunks, HostRetryElapsed, SentInv
<1>4. ASSUME Service
      PROVE  SentInv' /\ (pending = None /\ pending' # None =>
                            net'[Len(net')].key \/ handed = pending' - 1)
  BY <1>2, <1>3, <1>4 DEF Service
<1>5. ASSUME ReadCommand \/ Encode \/ LoseFrame \/ Reader \/ Consumer \/ UNCHANGED vars
      PROVE  UNCHANGED <<pending, handed, lastSequence, waiting>>
  BY <1>5 DEF ReadCommand, Encode, LoseFrame, vars, serviceVars, Reader, ReleaseFrame,
              ReportLoss, QueueFrame, ReportQueueDrop, TickRequest, TickClear,
              PlayerRetryElapsed, Consumer, PopFrame, SwapRecover, ConsumeFrame
<1> QED
  BY <1>1, <1>4, <1>5 DEF Next

(* The host never starts to send a delta frame whose reference it skipped, *)
(* dropped or abandoned half-way.                                          *)
THEOREM HostSendsChains == Spec => SentChain
<1>1. Init => SentInv
  BY DEF Init, SentInv
<1>2. TypeOK /\ SentInv /\ [Next]_vars => SentInv'
  BY SentStep
<1>3. TypeOK /\ SentInv /\ [Next]_vars =>
        [pending = None /\ pending' # None =>
           net'[Len(net')].key \/ handed = pending' - 1]_vars
  BY SentStep
<1> QED
  BY <1>1, <1>2, <1>3, TypeCorrect, PTL DEF Spec, SentChain

(* A ready decoder was given the newest frame that reached it.             *)
ShownInv == ready => shown = last /\ last # None

(* Every step keeps ShownInv and shows only frames that can be decoded.    *)
LEMMA ShownStep ==
  TypeOK /\ PlayerOrdered /\ ShownInv /\ [Next]_vars
    => /\ ShownInv'
       /\ shown' # shown => shown' > shown /\ (popped[1].key \/ shown' = shown + 1)
       /\ [Stream!Next]_<<shown, shownKey, ready>>
<1> SUFFICES ASSUME TypeOK, PlayerOrdered, ShownInv, [Next]_vars
             PROVE  /\ ShownInv'
                    /\ shown' # shown =>
                         shown' > shown /\ (popped[1].key \/ shown' = shown + 1)
                    /\ [Stream!Next]_<<shown, shownKey, ready>>
  OBVIOUS
<1> DEFINE Goal == /\ ShownInv'
                   /\ shown' # shown =>
                        shown' > shown /\ (popped[1].key \/ shown' = shown + 1)
                   /\ [Stream!Next]_<<shown, shownKey, ready>>
<1>1. ASSUME UNCHANGED <<last, ready, shown, shownKey>> PROVE Goal
  BY <1>1 DEF ShownInv
<1>2. ASSUME ReadCommand \/ Encode \/ Service \/ LoseFrame \/ Reader \/ PopFrame
              \/ UNCHANGED vars
      PROVE  UNCHANGED <<last, ready, shown, shownKey>>
  BY <1>2 DEF ReadCommand, Encode, LoseFrame, vars, consumerVars, Reader, ReleaseFrame,
              ReportLoss, QueueFrame, ReportQueueDrop, TickRequest, TickClear,
              PlayerRetryElapsed, PopFrame, Service, TakeControl, ObserveDropsAndRequest,
              HostRetryElapsed, SendDeadlineExpired, AcceptFrame, DiscardStaleCapture,
              SendChunks
<1>3. ASSUME SwapRecover PROVE Goal
  <2>1. /\ ready' = (ready /\ ~recover) /\ UNCHANGED <<last, shown, shownKey>>
    BY <1>3 DEF SwapRecover
  <2>2. ready' = ready \/ ready' = FALSE
    BY <2>1 DEF TypeOK, ConsumerTypeOK
  <2> QED
    BY <2>1, <2>2 DEF ShownInv, Stream!Next, Stream!LoseReference
<1>4. ASSUME ConsumeFrame PROVE Goal
  <2> DEFINE frame == popped[1]
  <2>1. /\ last' = frame.seq /\ ready' = Decodable(frame)
        /\ shown' = IF Decodable(frame) THEN frame.seq ELSE shown
        /\ shownKey' = IF Decodable(frame) THEN frame.key ELSE shownKey
    BY <1>4 DEF ConsumeFrame
  <2>2. 1 \in 1..Len(popped) /\ popped \in Seq(Frame)
    BY <1>4 DEF ConsumeFrame, TypeOK, ConsumerTypeOK
  <2>3. frame.seq \in Nat /\ last < frame.seq
    BY <2>2, ElementType DEF PlayerOrdered, Within
  <2>4. shown \in Int /\ last \in Int /\ shown <= last
    BY DEF PlayerOrdered, TypeOK, ConsumerTypeOK, SequenceNumber, None
  <2>9. frame.key \in BOOLEAN
    BY <2>2, ElementType
  <2> HIDE DEF frame
  <2>5. shown < frame.seq /\ frame.seq # None
    BY <2>3, <2>4 DEF None
  <2>6. CASE ~Decodable(frame)
    BY <2>1, <2>6 DEF ShownInv, Stream!Next, Stream!LoseReference
  <2>7. CASE frame.key
    <3>1. Decodable(frame)
      BY <2>7 DEF Decodable
    <3> QED
      BY <2>1, <2>3, <2>5, <2>7, <2>9, <3>1 DEF ShownInv, Stream!Next, Stream!ShowKeyframe, frame
  <2>8. CASE Decodable(frame) /\ ~frame.key
    <3>1. ready /\ frame.seq = shown + 1
      BY <2>3, <2>4, <2>8 DEF Decodable, Follows, ShownInv
    <3>2. shown' = shown + 1 /\ ready' /\ shown' = last' /\ last' # None
      BY <2>1, <2>5, <2>8, <3>1
    <3>4. shownKey' = FALSE
      BY <2>1, <2>8, <2>9
    <3>3. ready' = ready
      BY <2>1, <2>8, <3>1 DEF TypeOK, ConsumerTypeOK, Decodable
    <3> QED
      BY <2>4, <3>1, <3>2, <3>3, <3>4 DEF ShownInv, Stream!Next, Stream!ShowNext
  <2> QED
    BY <2>6, <2>7, <2>8
<1> QED
  BY <1>1, <1>2, <1>3, <1>4 DEF Next, Consumer

(* The decoder is never given a delta frame unless the last frame it was   *)
(* given is the one this frame was encoded against.                        *)
THEOREM DecoderGetsChains == Spec => ShownChain
<1>1. Init => ShownInv
  BY DEF Init, ShownInv
<1>2. TypeOK /\ PipelineOrdered /\ ShownInv /\ [Next]_vars => ShownInv'
  BY ShownStep DEF PipelineOrdered
<1>3. TypeOK /\ PipelineOrdered /\ ShownInv /\ [Next]_vars =>
        [shown' # shown => shown' > shown /\ (popped[1].key \/ shown' = shown + 1)]_vars
  BY ShownStep DEF PipelineOrdered
<1> QED
  BY <1>1, <1>2, <1>3, TypeCorrect, Ordered, PTL DEF Spec, ShownChain

(* The whole path implements DecodableStream.                              *)
THEOREM Implements == Spec => ImplementsDecodableStream
<1>1. Init => ShownInv /\ Stream!Init
  BY DEF Init, ShownInv, Stream!Init, None, Stream!None
<1>2. TypeOK /\ PipelineOrdered /\ ShownInv /\ [Next]_vars
        => ShownInv' /\ [Stream!Next]_<<shown, shownKey, ready>>
  BY ShownStep DEF PipelineOrdered
<1> QED
  BY <1>1, <1>2, TypeCorrect, Ordered, PTL DEF Spec, ImplementsDecodableStream, Stream!Spec

-----------------------------------------------------------------------------
(* PlayerSession. *)

Kinds == {"authenticated", "negotiated", "release", "latency", "reconfigure", "failed", "stopped"}
Events == [sid : {1, 2}, kind : Kinds, depth : Nat]

(* What the proof must know of the loop and of the session thread.             *)
Loop(l) == {"retry", "sid"} \subseteq DOMAIN l /\ l.retry \in BOOLEAN /\ l.sid \in {1, 2}
Thread(t) == {"phase", "depth"} \subseteq DOMAIN t /\ t.depth \in Nat

(* A session starts when one was joined, or when a retry is due: while a retry *)
(* is awaited there must be no thread, in whatever else the loop is blocked.   *)
SessionInv ==
    /\ orphans = 0
    /\ Loop(loop) /\ Thread(thread)
    /\ sessionRx \in Seq(Events)
    /\ loop.retry => thread.phase = "gone"

SameSession(l, m) == Loop(m) /\ m.retry = l.retry /\ m.sid = l.sid

-------------------------------------------------------------------------------
(* Lemmas on the changes of the loop's variables between two sessions.         *)

LEMMA LoopSteps ==
    ASSUME SessionInv, SameSession(loop, loop'), UNCHANGED <<thread, orphans>>,
           sessionRx' \in Seq(Events)
    PROVE  SessionInv'
BY DEF SessionInv, SameSession

LEMMA LeaveSame ==
    ASSUME NEW l, Loop(l), NEW why, NEW todo
    PROVE  SameSession(l, Leave(l, why, todo))
BY DEF Loop, SameSession, Leave

LEMMA BreakSame ==
    ASSUME NEW l, Loop(l), NEW outcome
    PROVE  SameSession(l, Break(l, outcome))
<1> DEFINE m == Leave(l, "exit", "input")
<1>1. SameSession(l, m)
    BY LeaveSame
<1>2. Break(l, outcome) = [m EXCEPT !.result = outcome]
    BY DEF Break
<1> HIDE DEF m
<1> QED
    BY <1>1, <1>2 DEF Loop, SameSession

LEMMA HandledSame ==
    ASSUME NEW l, Loop(l), NEW kind \in Kinds, NEW depth
    PROVE  SameSession(l, Handled(l, kind, depth))
<1>1. CASE kind = "authenticated"
    BY <1>1 DEF Handled, OnAuthenticated, Loop, SameSession
<1>2. CASE kind = "negotiated"
    BY <1>2 DEF Handled, OnVideoNegotiated, Loop, SameSession
<1>3. CASE kind = "release"
    BY <1>3 DEF Handled, OnReleaseCapture, Loop, SameSession
<1>4. CASE kind = "latency"
    BY <1>4, BreakSame DEF Handled, OnBudgetExceeded
<1>5. CASE kind = "reconfigure"
    BY <1>5, LeaveSame DEF Handled, OnReconfigure
<1>6. CASE kind = "failed"
    <2>1. Handled(l, kind, depth) = OnEnded(l, TRUE)
        BY <1>6 DEF Handled
    <2> QED
        BY <2>1, LeaveSame, BreakSame DEF OnEnded
<1>7. CASE kind = "stopped"
    <2>1. Handled(l, kind, depth) = OnEnded(l, FALSE)
        BY <1>7 DEF Handled
    <2> QED
        BY <2>1, LeaveSame, BreakSame DEF OnEnded
<1> QED
    BY <1>1, <1>2, <1>3, <1>4, <1>5, <1>6, <1>7 DEF Kinds

LEMMA MeasuredSame ==
    ASSUME NEW l, Loop(l), NEW tracked
    PROVE  SameSession(l, Measured(l, tracked))
BY DEF Loop, SameSession, Measured

LEMMA ShownSame ==
    ASSUME NEW l, Loop(l), NEW tracked
    PROVE  SameSession(l, Shown(l, tracked))
<1> DEFINE m == Measured(l, tracked)
<1>1. SameSession(l, m)
    BY MeasuredSame
<1>2. Shown(l, tracked) = [m EXCEPT !.todo = "", !.started = TRUE, !.ever = TRUE,
                                    !.stable = m.stable \/ ~l.started]
    BY DEF Shown
<1> HIDE DEF m
<1> QED
    BY <1>1, <1>2 DEF Loop, SameSession

-------------------------------------------------------------------------------
(* The loop within a session.                                                  *)

LEMMA PollsKept ==
    ASSUME SessionInv, TakeCommand \/ TakeEvent \/ WindowInput \/ Quit \/ BecomesStable
    PROVE  SessionInv'
<1>0. Loop(loop) /\ sessionRx \in Seq(Events)
    BY DEF SessionInv
<1>1. CASE TakeCommand
    BY <1>0, <1>1, LoopSteps, BreakSame, LeaveSame DEF TakeCommand
<1>2. CASE TakeEvent
    <2>1. Head(sessionRx).kind \in Kinds /\ sessionRx' \in Seq(Events)
        <3>1. sessionRx # <<>> /\ sessionRx' = Tail(sessionRx)
            BY <1>2 DEF TakeEvent
        <3>2. Head(sessionRx) \in Events /\ Tail(sessionRx) \in Seq(Events)
            BY <1>0, <3>1
        <3> QED
            BY <3>1, <3>2 DEF Events
    <2>2. SameSession(loop, loop')
        BY <1>0, <1>2, <2>1, HandledSame DEF TakeEvent
    <2> QED
        BY <1>2, <2>1, <2>2, LoopSteps DEF TakeEvent
<1>3. CASE WindowInput
    <2>1. SameSession(loop, loop')
        BY <1>0, <1>3 DEF WindowInput, Loop, SameSession
    <2> QED
        BY <1>0, <1>3, <2>1, LoopSteps DEF WindowInput
<1>4. CASE Quit
    BY <1>0, <1>4, LoopSteps, BreakSame DEF Quit
<1>5. CASE BecomesStable
    <2>1. SameSession(loop, loop')
        BY <1>0, <1>5 DEF BecomesStable, Loop, SameSession
    <2> QED
        BY <1>0, <1>5, <2>1, LoopSteps DEF BecomesStable
<1> QED
    BY <1>1, <1>2, <1>3, <1>4, <1>5

LEMMA RenderingKept ==
    ASSUME SessionInv,
           \/ TakeFrame \/ ShowLoading \/ ShowFrame \/ WindowResized \/ NothingAcquired
           \/ (\E queued \in BOOLEAN : PresentedOutdated(queued))
           \/ RecreateSwapchain \/ TakeFeedback \/ DropRenderer \/ SendInput
    PROVE  SessionInv'
<1>0. Loop(loop) /\ sessionRx \in Seq(Events)
    BY DEF SessionInv
<1>1. UNCHANGED <<thread, orphans, sessionRx>>
    BY DEF TakeFrame, ShowLoading, ShowFrame, WindowResized, NothingAcquired,
           PresentedOutdated, RecreateSwapchain, TakeFeedback, DropRenderer, SendInput
<1>2. SameSession(loop, loop')
    <2>1. CASE TakeFrame
        BY <1>0, <2>1 DEF TakeFrame, Loop, SameSession
    <2>2. CASE ShowLoading
        BY <1>0, <2>2 DEF ShowLoading, Loop, SameSession
    <2>3. CASE ShowFrame
        BY <1>0, <2>3, ShownSame DEF ShowFrame
    <2>4. CASE WindowResized
        BY <1>0, <2>4 DEF WindowResized, Loop, SameSession
    <2>5. CASE NothingAcquired
        BY <1>0, <2>5 DEF NothingAcquired, Loop, SameSession
    <2>6. CASE \E queued \in BOOLEAN : PresentedOutdated(queued)
        BY <1>0, <2>6 DEF PresentedOutdated, Loop, SameSession
    <2>7. CASE RecreateSwapchain
        <3>1. CASE loop.todo = "resized"
            BY <1>0, <2>7, <3>1 DEF RecreateSwapchain, Loop, SameSession
        <3>2. CASE loop.todo # "resized"
            BY <1>0, <2>7, <3>2, ShownSame DEF RecreateSwapchain
        <3> QED
            BY <3>1, <3>2
    <2>8. CASE TakeFeedback \/ DropRenderer \/ SendInput
        BY <1>0, <2>8 DEF TakeFeedback, DropRenderer, SendInput, Loop, SameSession
    <2> QED
        BY <2>1, <2>2, <2>3, <2>4, <2>5, <2>6, <2>7, <2>8
<1> QED
    BY <1>0, <1>1, <1>2, LoopSteps

-------------------------------------------------------------------------------
(* The session thread.                                                         *)

LEMMA ThreadSteps ==
    ASSUME SessionInv, UNCHANGED <<loop, orphans>>, Thread(thread'),
           thread.phase = "gone" => thread'.phase = "gone", sessionRx' \in Seq(Events)
    PROVE  SessionInv'
BY DEF SessionInv

(* What the thread tells the loop is an event.                                 *)
LEMMA TellKept ==
    ASSUME SessionInv, Thread(thread'), NEW kind \in Kinds, Tell(kind)
    PROVE  sessionRx' \in Seq(Events)
<1> DEFINE event == [sid |-> loop.sid, kind |-> kind, depth |-> thread'.depth]
<1>1. event \in Events
    BY DEF SessionInv, Loop, Thread, Events
<1>2. sessionRx' = Append(sessionRx, event) /\ sessionRx \in Seq(Events)
    BY DEF Tell, SessionInv
<1> HIDE DEF event
<1> QED
    BY <1>1, <1>2

LEMMA StartUpKept ==
    ASSUME SessionInv,
           OpenDecoder \/ Authenticate \/ (\E depth \in Depths : Negotiate(depth))
    PROVE  SessionInv'
<1>0. Thread(thread) /\ sessionRx \in Seq(Events)
    BY DEF SessionInv
<1>1. CASE OpenDecoder
    <2>1. Thread(thread') /\ thread.phase # "gone"
        BY <1>0, <1>1 DEF OpenDecoder, Thread
    <2> QED
        BY <1>0, <1>1, <2>1, ThreadSteps DEF OpenDecoder
<1>2. CASE Authenticate
    <2>1. Thread(thread') /\ thread.phase # "gone"
        BY <1>0, <1>2 DEF Authenticate, Thread
    <2>2. sessionRx' \in Seq(Events)
        BY <1>2, <2>1, TellKept DEF Authenticate, Kinds
    <2> QED
        BY <1>2, <2>1, <2>2, ThreadSteps DEF Authenticate
<1>3. ASSUME NEW depth \in Depths, Negotiate(depth) PROVE SessionInv'
    <2>1. depth \in Nat
        BY PlayerAssumption
    <2>2. Thread(thread') /\ thread.phase # "gone"
        BY <1>0, <1>3, <2>1 DEF Negotiate, Thread
    <2>3. sessionRx' \in Seq(Events)
        BY <1>3, <2>2, TellKept DEF Negotiate, Kinds
    <2> QED
        BY <1>3, <2>2, <2>3, ThreadSteps DEF Negotiate
<1> QED
    BY <1>1, <1>2, <1>3

LEMMA StreamingKept ==
    ASSUME SessionInv, Deliver \/ HostReleases \/ ForwardInput
    PROVE  SessionInv'
<1>0. Thread(thread) /\ sessionRx \in Seq(Events)
    BY DEF SessionInv
<1>1. CASE Deliver
    <2>1. Thread(thread') /\ thread.phase # "gone"
        BY <1>0, <1>1 DEF Deliver, Thread
    <2> QED
        BY <1>0, <1>1, <2>1, ThreadSteps DEF Deliver
<1>2. CASE HostReleases
    <2>1. thread' = thread
        BY <1>2 DEF HostReleases
    <2>2. sessionRx' \in Seq(Events)
        BY <1>0, <1>2, <2>1, TellKept DEF HostReleases, Kinds
    <2> QED
        BY <1>0, <1>2, <2>1, <2>2, ThreadSteps DEF HostReleases
<1>3. CASE ForwardInput
    BY <1>0, <1>3, ThreadSteps DEF ForwardInput
<1> QED
    BY <1>1, <1>2, <1>3

LEMMA EndKept ==
    ASSUME SessionInv, NEW kind \in Kinds, EndWith(kind)
    PROVE  SessionInv'
<1>1. Thread(thread') /\ thread'.phase = "gone"
    BY DEF SessionInv, EndWith, Thread
<1>2. sessionRx' \in Seq(Events)
    BY <1>1, TellKept DEF EndWith
<1> QED
    BY <1>1, <1>2, ThreadSteps DEF EndWith

LEMMA ThreadKept ==
    ASSUME SessionInv, ThreadStep
    PROVE  SessionInv'
<1>1. CASE OpenDecoder \/ Authenticate \/ (\E depth \in Depths : Negotiate(depth))
    BY <1>1, StartUpKept
<1>2. CASE Deliver \/ HostReleases \/ ForwardInput
    BY <1>2, StreamingKept
<1>3. CASE Fail \/ DecodingFails
    BY <1>3, EndKept DEF Fail, DecodingFails, Kinds
<1>4. CASE HostReconfigures \/ BudgetExceeded \/ ObeyStop
    BY <1>4, EndKept DEF HostReconfigures, BudgetExceeded, ObeyStop, Kinds
<1> QED
    BY <1>1, <1>2, <1>3, <1>4 DEF ThreadStep

-------------------------------------------------------------------------------
(* Between two sessions.                                                       *)

LEMMA NoEvents == <<>> \in Seq(Events)
OBVIOUS

LEMMA ForgottenSame ==
    ASSUME NEW l, Loop(l)
    PROVE  SameSession(l, Forgotten(l))
BY DEF Loop, SameSession, Forgotten

(* A session is started where no thread runs, and no retry is awaited then.    *)
LEMMA StartKept ==
    ASSUME SessionInv, NEW l, Loop(l), ~l.retry, thread.phase = "gone", StartSession(l),
           sessionRx' \in Seq(Events)
    PROVE  SessionInv'
<1>1. Thread(thread')
    BY DEF StartSession, FreshThread, Thread
<1>2. orphans' = 0
    BY DEF StartSession, SessionInv, LeftRunning
<1>3. Loop(loop') /\ ~loop'.retry
    BY DEF StartSession, Loop
<1> QED
    BY <1>1, <1>2, <1>3 DEF SessionInv

LEMMA RestartKept ==
    ASSUME SessionInv, Restart
    PROVE  SessionInv'
<1>1. thread.phase = "gone" /\ sessionRx' = <<>> /\ StartSession(Restarted(loop))
    BY DEF Restart, Joined, Emptied
<1>2. SameSession(loop, Forgotten(loop))
    BY ForgottenSame DEF SessionInv
<1>3. Loop(Restarted(loop)) /\ ~Restarted(loop).retry
    BY <1>2 DEF Restarted, SameSession, Loop
<1> QED
    BY <1>1, <1>3, StartKept, NoEvents

LEMMA RetryKept ==
    ASSUME SessionInv, Retry
    PROVE  SessionInv'
<1> DEFINE l == [loop EXCEPT !.retry = FALSE]
<1>1. thread.phase = "gone" /\ StartSession(l) /\ sessionRx' \in Seq(Events)
    BY DEF Retry, SessionInv
<1>2. Loop(l) /\ ~l.retry
    BY DEF SessionInv, Loop
<1> HIDE DEF l
<1> QED
    BY <1>1, <1>2, StartKept

LEMMA AwaitRetryKept ==
    ASSUME SessionInv, AwaitRetry
    PROVE  SessionInv'
<1>1. thread.phase = "gone" /\ sessionRx' = <<>> /\ UNCHANGED <<thread, orphans>>
    BY DEF AwaitRetry, Joined, Emptied
<1>2. Loop(Forgotten(loop))
    BY ForgottenSame DEF SessionInv, SameSession
<1>3. Loop(loop')
    BY <1>2 DEF AwaitRetry, Loop
<1> QED
    BY <1>1, <1>3, NoEvents DEF SessionInv

LEMMA EndedKept ==
    ASSUME SessionInv, NEW outcome, Ended(outcome)
    PROVE  SessionInv'
<1>1. Loop(loop')
    BY DEF Ended, FreshLoop, Loop
<1>2. Thread(thread') /\ thread'.phase = "gone"
    BY DEF Ended, NoThread, Thread
<1>3. orphans' = 0 /\ sessionRx' = <<>>
    BY DEF Ended, SessionInv
<1> QED
    BY <1>1, <1>2, <1>3, NoEvents DEF SessionInv

LEMMA RaiseStopKept ==
    ASSUME SessionInv, RaiseStop
    PROVE  SessionInv'
<1>1. Thread(thread') /\ thread'.phase = thread.phase
    BY DEF RaiseStop, SessionInv, Thread
<1> QED
    BY <1>1, ThreadSteps DEF RaiseStop, SessionInv

LEMMA LoopKept ==
    ASSUME SessionInv, LoopStep
    PROVE  SessionInv'
<1>1. CASE TakeCommand \/ TakeEvent \/ WindowInput \/ Quit \/ BecomesStable
    BY <1>1, PollsKept
<1>2. CASE \/ TakeFrame \/ ShowLoading \/ ShowFrame \/ WindowResized \/ NothingAcquired
           \/ (\E queued \in BOOLEAN : PresentedOutdated(queued))
           \/ RecreateSwapchain \/ TakeFeedback \/ DropRenderer \/ SendInput
    BY <1>2, RenderingKept
<1>3. CASE RaiseStop
    BY <1>3, RaiseStopKept
<1>4. CASE Restart
    BY <1>4, RestartKept
<1>5. CASE AwaitRetry
    BY <1>5, AwaitRetryKept
<1>6. CASE Retry
    BY <1>6, RetryKept
<1>7. CASE Exit
    BY <1>7, EndedKept DEF Exit
<1> QED
    BY <1>1, <1>2, <1>3, <1>4, <1>5, <1>6, <1>7 DEF LoopStep

LEMMA SessionAtFirst == PlayerInit => SessionInv
<1> SUFFICES ASSUME PlayerInit PROVE SessionInv
    OBVIOUS
<1>1. Loop(loop) /\ ~loop.retry
    BY DEF PlayerInit, FreshLoop, Loop
<1>2. Thread(thread)
    BY DEF PlayerInit, FreshThread, Thread
<1> QED
    BY <1>1, <1>2, NoEvents DEF PlayerInit, SessionInv

LEMMA SessionInductive == SessionInv /\ [PlayerNext]_playerVars => SessionInv'
<1> SUFFICES ASSUME SessionInv, [PlayerNext]_playerVars PROVE SessionInv'
    OBVIOUS
<1>1. CASE LoopStep
    BY <1>1, LoopKept
<1>2. CASE ThreadStep
    BY <1>2, ThreadKept
<1>3. CASE Crash
    BY <1>3, EndedKept DEF Crash
<1>4. CASE UNCHANGED <<loop, thread, orphans, sessionRx>>
    BY <1>4 DEF SessionInv
<1> QED
    BY <1>1, <1>2, <1>3, <1>4
    DEF PlayerNext, PresenterStep, ClientSends, Exited, playerVars

(* There is never a second stream session beside the one the loop knows: a     *)
(* session starts only after the thread of the last one was joined             *)
(* (start_stream_session, ActiveStreamSession::stop), also if a command comes  *)
(* while a retry is due.                                                       *)
THEOREM OneSessionAlways == PlayerSpec => []OneSession
<1>1. SessionInv => OneSession
    BY DEF SessionInv, OneSession
<1> QED
    BY <1>1, SessionAtFirst, SessionInductive, PTL DEF PlayerSpec

-------------------------------------------------------------------------------
(* What belongs to a session: its events, its frames, and what is drawn of it. *)

Whole == {"retry", "sid", "last", "fresh", "pending"}

(* What the session sid may have left on the screen: commands that use the     *)
(* swapchain there is and read its frames, waits and feedback for them.        *)
Commands(n, sid) == [swapchain : {n}, reads : SUBSET [owner : {sid}, layer : {"Y", "UV"}]]
Waits(n, sid) == [swapchain : {n}, owner : {0, sid}]
ScreenOf(s, sid) ==
    /\ DOMAIN s = {"output", "tracked", "swapchain", "gpu", "waits", "feedback"}
    /\ s.gpu \in Seq(Commands(s.swapchain, sid))
    /\ s.waits \in Seq(Waits(s.swapchain, sid))
    /\ s.feedback \in Seq({0, sid})
    /\ ~Made(s) => Idle(s)

(* Nothing of any session: at most the loading picture is drawn.               *)
QuietScreen(s) ==
    /\ s.gpu \in Seq([swapchain : {s.swapchain}, reads : {{}}])
    /\ s.waits = <<>> /\ s.feedback = <<>>

LoopOf(l) ==
    /\ Whole \subseteq DOMAIN l
    /\ l.sid \in {1, 2} /\ l.retry \in BOOLEAN /\ l.fresh \in BOOLEAN
    /\ l.last \in {0, l.sid} /\ l.pending \subseteq {l.sid}
    /\ l.fresh => l.last = l.sid

EventsOf(sid) == [sid : {sid}, kind : Kinds, depth : Nat]

(* All there is comes from the session of the loop; while a retry is awaited   *)
(* nothing is left of any.                                                     *)
Nothing == /\ sessionRx = <<>> /\ frames = <<>> /\ loop.last = 0 /\ loop.pending = {}
           /\ thread.phase = "gone"
           /\ QuietScreen(screen)

CurrentInv ==
    /\ LoopOf(loop) /\ ScreenOf(screen, loop.sid) /\ Thread(thread)
    /\ sessionRx \in Seq(EventsOf(loop.sid))
    /\ frames \in Seq({loop.sid})
    /\ loop.retry => Nothing

(* The parts of the loop that do not change.                                   *)
SameFrames(l, m) ==
    /\ LoopOf(m)
    /\ m.sid = l.sid /\ m.retry = l.retry /\ m.last = l.last /\ m.fresh = l.fresh /\ m.pending = l.pending

-------------------------------------------------------------------------------
(* The screen.                                                                 *)

LEMMA NoScreen ==
    ASSUME NEW sid
    PROVE  ScreenOf(NoRenderer, sid) /\ QuietScreen(NoRenderer) /\ ~Made(NoRenderer) /\ Idle(NoRenderer)
BY DEF ScreenOf, QuietScreen, NoRenderer, Made, Idle

LEMMA NewScreen ==
    ASSUME NEW sid, NEW on, NEW depth
    PROVE  /\ ScreenOf(NewRenderer(on, depth), sid) /\ QuietScreen(NewRenderer(on, depth))
           /\ Made(NewRenderer(on, depth))
<1>1. Output(on, depth) # "none"
    BY DEF Output
<1> QED
    BY <1>1 DEF ScreenOf, QuietScreen, NewRenderer, NoRenderer, Made, Idle

LEMMA RenderingScreen ==
    ASSUME NEW sid, ScreenOf(screen, sid)
    PROVE  /\ ScreenOf(Rendering, sid) /\ Made(Rendering)
           /\ QuietScreen(screen) => QuietScreen(Rendering)
BY NewScreen DEF Rendering

LEMMA SubmittedScreen ==
    ASSUME NEW sid, NEW s, ScreenOf(s, sid), Made(s), NEW c \in Commands(s.swapchain, sid)
    PROVE  ScreenOf(Submitted(s, c), sid) /\ Made(Submitted(s, c)) /\ Submitted(s, c).swapchain = s.swapchain
<1>1. Append(s.gpu, c) \in Seq(Commands(s.swapchain, sid))
    BY DEF ScreenOf
<1> QED
    BY <1>1 DEF ScreenOf, Made, Submitted

LEMMA TrackedScreen ==
    ASSUME NEW sid, NEW s, ScreenOf(s, sid), Made(s), NEW owner \in {0, sid}
    PROVE  ScreenOf(Tracked(s, owner), sid)
<1> DEFINE wait == [swapchain |-> s.swapchain, owner |-> owner]
           u == [s EXCEPT !.waits = Append(s.waits, wait)]
<1>1. wait \in Waits(s.swapchain, sid)
    BY DEF Waits
<1>2. Append(s.waits, wait) \in Seq(Waits(s.swapchain, sid))
    BY <1>1 DEF ScreenOf
<1>3. Tracked(s, owner) = IF CanTrack(s) THEN u ELSE s
    BY DEF Tracked
<1>4. ScreenOf(u, sid)
    <2> HIDE DEF wait
    <2> QED
        BY <1>2 DEF ScreenOf, Made
<1> HIDE DEF u
<1> QED
    BY <1>3, <1>4

LEMMA RecreatedScreen ==
    ASSUME NEW sid, NEW s, ScreenOf(s, sid), Idle(s)
    PROVE  ScreenOf(Recreated(s), sid) /\ (QuietScreen(s) => QuietScreen(Recreated(s)))
<1>1. /\ Recreated(s).gpu = <<>> /\ Recreated(s).waits = <<>> /\ Recreated(s).feedback = s.feedback
      /\ DOMAIN Recreated(s) = DOMAIN s
    BY DEF ScreenOf, Recreated, Idle
<1> QED
    BY <1>1 DEF ScreenOf, QuietScreen, Idle

(* The GPU and the tracker go on with what they have.                          *)
LEMMA GpuScreen ==
    ASSUME NEW sid, ScreenOf(screen, sid), GpuFinishes
    PROVE  ScreenOf(screen', sid) /\ (QuietScreen(screen) => QuietScreen(screen'))
<1>1. screen.gpu # <<>> /\ screen' = [screen EXCEPT !.gpu = Tail(screen.gpu)] /\ Made(screen)
    BY DEF GpuFinishes, ScreenOf, Idle
<1>2. Tail(screen.gpu) \in Seq(Commands(screen.swapchain, sid))
    BY <1>1 DEF ScreenOf
<1>3. ScreenOf(screen', sid)
    BY <1>1, <1>2 DEF ScreenOf, Made
<1>4. ASSUME QuietScreen(screen) PROVE QuietScreen(screen')
    <2>1. Tail(screen.gpu) \in Seq([swapchain : {screen.swapchain}, reads : {{}}])
        BY <1>1, <1>4 DEF QuietScreen
    <2> QED
        BY <1>1, <1>4, <2>1 DEF QuietScreen, ScreenOf
<1> QED
    BY <1>3, <1>4

LEMMA TrackerScreen ==
    ASSUME NEW sid, ScreenOf(screen, sid), NEW frame, TrackerAnswers(frame)
    PROVE  ScreenOf(screen', sid) /\ ~QuietScreen(screen)
<1> DEFINE more == Append(screen.feedback, Head(screen.waits).owner)
<1>1. screen.waits # <<>> /\ Made(screen)
    BY DEF TrackerAnswers, ScreenOf, Idle
<1>2. Tail(screen.waits) \in Seq(Waits(screen.swapchain, sid)) /\ Head(screen.waits) \in Waits(screen.swapchain, sid)
    BY <1>1 DEF ScreenOf
<1>3. Head(screen.waits).owner \in {0, sid}
    BY <1>2 DEF Waits
<1>4. more \in Seq({0, sid})
    BY <1>3 DEF ScreenOf
<1> HIDE DEF more
<1>5. \E feedback \in {more, screen.feedback} :
        screen' = [screen EXCEPT !.waits = Tail(screen.waits), !.feedback = feedback]
    BY DEF TrackerAnswers, more
<1>6. PICK feedback \in Seq({0, sid}) :
        screen' = [screen EXCEPT !.waits = Tail(screen.waits), !.feedback = feedback]
    BY <1>4, <1>5 DEF ScreenOf
<1>7. ScreenOf(screen', sid)
    BY <1>1, <1>2, <1>6 DEF ScreenOf, Made
<1> QED
    BY <1>1, <1>7 DEF QuietScreen

LEMMA FeedbackScreen ==
    ASSUME NEW sid, ScreenOf(screen, sid), screen.feedback # <<>>,
           screen' = [screen EXCEPT !.feedback = Tail(@)]
    PROVE  ScreenOf(screen', sid)
<1>1. Tail(screen.feedback) \in Seq({0, sid})
    BY DEF ScreenOf
<1> QED
    BY <1>1 DEF ScreenOf, Made, Idle

-------------------------------------------------------------------------------
(* The loop's polls.                                                           *)

LEMMA LeaveFrames ==
    ASSUME NEW l, LoopOf(l), NEW why, NEW todo
    PROVE  SameFrames(l, Leave(l, why, todo))
BY DEF LoopOf, Whole, SameFrames, Leave

LEMMA BreakFrames ==
    ASSUME NEW l, LoopOf(l), NEW outcome
    PROVE  SameFrames(l, Break(l, outcome))
<1> DEFINE m == Leave(l, "exit", "input")
<1>1. SameFrames(l, m)
    BY LeaveFrames
<1>2. Break(l, outcome) = [m EXCEPT !.result = outcome]
    BY DEF Break
<1> HIDE DEF m
<1> QED
    BY <1>1, <1>2 DEF LoopOf, Whole, SameFrames

LEMMA HandledFrames ==
    ASSUME NEW l, LoopOf(l), NEW kind \in Kinds, NEW depth
    PROVE  SameFrames(l, Handled(l, kind, depth))
<1>1. CASE kind = "authenticated"
    BY <1>1 DEF Handled, OnAuthenticated, LoopOf, Whole, SameFrames
<1>2. CASE kind = "negotiated"
    BY <1>2 DEF Handled, OnVideoNegotiated, LoopOf, Whole, SameFrames
<1>3. CASE kind = "release"
    BY <1>3 DEF Handled, OnReleaseCapture, LoopOf, Whole, SameFrames
<1>4. CASE kind = "latency"
    BY <1>4, BreakFrames DEF Handled, OnBudgetExceeded
<1>5. CASE kind = "reconfigure"
    BY <1>5, LeaveFrames DEF Handled, OnReconfigure
<1>6. CASE kind = "failed"
    <2>1. Handled(l, kind, depth) = OnEnded(l, TRUE)
        BY <1>6 DEF Handled
    <2> QED
        BY <2>1, LeaveFrames, BreakFrames DEF OnEnded
<1>7. CASE kind = "stopped"
    <2>1. Handled(l, kind, depth) = OnEnded(l, FALSE)
        BY <1>7 DEF Handled
    <2> QED
        BY <2>1, LeaveFrames, BreakFrames DEF OnEnded
<1> QED
    BY <1>1, <1>2, <1>3, <1>4, <1>5, <1>6, <1>7 DEF Kinds

(* A step that changes nothing of a session, but for what it makes of the      *)
(* screen and of the events.                                                   *)
LEMMA SameSteps ==
    ASSUME CurrentInv, SameFrames(loop, loop'), UNCHANGED frames,
           Thread(thread'), thread.phase = "gone" => thread'.phase = "gone",
           ScreenOf(screen', loop.sid), QuietScreen(screen) => QuietScreen(screen'),
           sessionRx' \in Seq(EventsOf(loop.sid)), sessionRx = <<>> => sessionRx' = <<>> \/ ~loop.retry
    PROVE  CurrentInv'
BY DEF CurrentInv, SameFrames, Nothing

LEMMA PollsCurrent ==
    ASSUME CurrentInv, \/ TakeCommand \/ TakeEvent \/ WindowInput \/ Quit \/ BecomesStable
                       \/ WindowResized \/ SendInput
    PROVE  CurrentInv'
<1>0. LoopOf(loop) /\ sessionRx \in Seq(EventsOf(loop.sid)) /\ Thread(thread) /\ ScreenOf(screen, loop.sid)
    BY DEF CurrentInv
<1>1. UNCHANGED <<thread, frames, screen>>
    BY DEF TakeCommand, TakeEvent, WindowInput, Quit, BecomesStable, WindowResized, SendInput
<1>2. CASE TakeEvent
    <2>1. sessionRx # <<>> /\ sessionRx' = Tail(sessionRx)
        BY <1>2 DEF TakeEvent
    <2>2. Head(sessionRx) \in EventsOf(loop.sid) /\ Tail(sessionRx) \in Seq(EventsOf(loop.sid))
        BY <1>0, <2>1
    <2>3. Head(sessionRx).kind \in Kinds
        BY <2>2 DEF EventsOf
    <2>4. SameFrames(loop, loop')
        BY <1>0, <1>2, <2>3, HandledFrames DEF TakeEvent
    <2> QED
        BY <1>0, <1>1, <2>1, <2>2, <2>4, SameSteps
<1>3. CASE ~TakeEvent
    <2>1. sessionRx' = sessionRx
        BY <1>3 DEF TakeCommand, WindowInput, Quit, BecomesStable, WindowResized, SendInput
    <2>2. CASE TakeCommand \/ Quit
        BY <1>0, <1>1, <2>1, <2>2, SameSteps, BreakFrames, LeaveFrames DEF TakeCommand, Quit
    <2>3. CASE WindowInput \/ BecomesStable \/ WindowResized \/ SendInput
        <3>1. SameFrames(loop, loop')
            BY <1>0, <2>3 DEF WindowInput, BecomesStable, WindowResized, SendInput, LoopOf, Whole, SameFrames
        <3> QED
            BY <1>0, <1>1, <2>1, <3>1, SameSteps
    <2> QED
        BY <1>3, <2>2, <2>3
<1> QED
    BY <1>2, <1>3

LEMMA TakeFrameCurrent ==
    ASSUME CurrentInv, TakeFrame
    PROVE  CurrentInv'
<1>1. /\ frames # <<>> /\ frames \in Seq({loop.sid}) /\ frames' = <<>>
      /\ loop' = [loop EXCEPT !.last = frames[Len(frames)], !.fresh = TRUE]
      /\ UNCHANGED <<thread, sessionRx, screen>> /\ LoopOf(loop) /\ ~loop.retry
    BY DEF CurrentInv, TakeFrame, Last, LoopOf, Nothing
<1>2. frames[Len(frames)] = loop.sid
    BY <1>1
<1>3. LoopOf(loop') /\ loop'.sid = loop.sid /\ ~loop'.retry
    BY <1>1, <1>2 DEF LoopOf, Whole
<1>4. frames' \in Seq({loop.sid})
    BY <1>1
<1> QED
    BY <1>1, <1>3, <1>4 DEF CurrentInv

(* A frame that is shown is measured, or will be, for its session.             *)
LEMMA ShownLoop ==
    ASSUME NEW l, LoopOf(l), NEW tracked
    PROVE  LoopOf(Shown(l, tracked)) /\ Shown(l, tracked).sid = l.sid /\ Shown(l, tracked).retry = l.retry
<1> DEFINE m == Measured(l, tracked)
<1>1. LoopOf(m) /\ m.sid = l.sid /\ m.retry = l.retry
    <2>1. \E left \in {l.pending, l.pending \union {l.last}} :
            /\ (left # l.pending => l.fresh)
            /\ m = [l EXCEPT !.fresh = FALSE, !.pending = left]
        BY DEF Measured
    <2>2. PICK left \in SUBSET {l.sid} : m = [l EXCEPT !.fresh = FALSE, !.pending = left]
        BY <2>1 DEF LoopOf
    <2> HIDE DEF m
    <2> QED
        BY <2>2 DEF LoopOf, Whole
<1>2. Shown(l, tracked) = [m EXCEPT !.todo = "", !.started = TRUE, !.ever = TRUE,
                                    !.stable = m.stable \/ ~l.started]
    BY DEF Shown
<1> HIDE DEF m
<1> QED
    BY <1>1, <1>2 DEF LoopOf, Whole

(* While the next session is awaited only the loading picture is drawn.        *)
LEMMA LoadingCurrent ==
    ASSUME CurrentInv, ShowLoading
    PROVE  CurrentInv'
<1>1. LoopOf(loop) /\ ScreenOf(screen, loop.sid) /\ screen' = Submitted(Rendering, LoadingCommands(Rendering))
    BY DEF CurrentInv, ShowLoading, LoadingDrawn
<1>2. /\ ScreenOf(Rendering, loop.sid) /\ Made(Rendering)
      /\ QuietScreen(screen) => QuietScreen(Rendering)
    BY <1>1, RenderingScreen
<1> DEFINE s == Rendering
           c == LoadingCommands(s)
<1>3. c \in Commands(s.swapchain, loop.sid) /\ c \in [swapchain : {s.swapchain}, reads : {{}}]
    BY DEF Commands, LoadingCommands
<1> HIDE DEF s, c
<1>4. ScreenOf(Submitted(s, c), loop.sid)
    BY <1>2, <1>3, SubmittedScreen DEF s
<1>5. ASSUME QuietScreen(s) PROVE QuietScreen(Submitted(s, c))
    <2>1. Append(s.gpu, c) \in Seq([swapchain : {s.swapchain}, reads : {{}}])
        BY <1>3, <1>5 DEF QuietScreen
    <2> QED
        BY <1>2, <1>5, <2>1 DEF QuietScreen, Submitted, ScreenOf, s
<1>6. SameFrames(loop, loop') /\ UNCHANGED <<frames, thread, sessionRx>>
    BY <1>1 DEF ShowLoading, SameFrames
<1>7. ScreenOf(screen', loop.sid) /\ (QuietScreen(screen) => QuietScreen(screen'))
    BY <1>1, <1>2, <1>4, <1>5 DEF s, c
<1> QED
    BY <1>6, <1>7, SameSteps DEF CurrentInv

(* The frame shown is the session's, and what is drawn with it reads no other. *)
LEMMA DrawnScreen ==
    ASSUME CurrentInv, loop.last # 0
    PROVE  /\ ScreenOf(Drawn, loop.sid) /\ ScreenOf(Tracked(Drawn, Owner), loop.sid) /\ ~loop.retry
<1>1. LoopOf(loop) /\ ScreenOf(screen, loop.sid) /\ loop.last = loop.sid /\ ~loop.retry
    BY DEF CurrentInv, LoopOf, Nothing
<1>2. ScreenOf(Rendering, loop.sid) /\ Made(Rendering)
    BY <1>1, RenderingScreen
<1> DEFINE s == Rendering
           c == FrameCommands(s, loop.last)
<1>3. c \in Commands(s.swapchain, loop.sid)
    BY <1>1 DEF Commands, FrameCommands, Import, ImportedPlane
<1>4. Owner \in {0, loop.sid}
    BY <1>1 DEF Owner
<1>5. Drawn = Submitted(s, c)
    BY DEF Drawn
<1> HIDE DEF s, c
<1>6. ScreenOf(Drawn, loop.sid) /\ Made(Drawn)
    BY <1>2, <1>3, <1>5, SubmittedScreen DEF s
<1>7. ScreenOf(Tracked(Drawn, Owner), loop.sid)
    BY <1>4, <1>6, TrackedScreen
<1> QED
    BY <1>1, <1>6, <1>7

(* A step of the loop while no retry is awaited.                               *)
LEMMA ScreenSteps ==
    ASSUME CurrentInv, UNCHANGED <<thread, sessionRx, frames>>, ScreenOf(screen', loop.sid),
           LoopOf(loop'), loop'.sid = loop.sid, ~loop'.retry
    PROVE  CurrentInv'
BY DEF CurrentInv

LEMMA PresentCurrent ==
    ASSUME CurrentInv, ShowFrame \/ \E queued \in BOOLEAN : PresentedOutdated(queued)
    PROVE  CurrentInv'
<1>1. loop.last # 0 /\ UNCHANGED <<thread, sessionRx, frames>> /\ LoopOf(loop)
    BY DEF CurrentInv, ShowFrame, PresentedOutdated
<1>2. ScreenOf(Drawn, loop.sid) /\ ScreenOf(Tracked(Drawn, Owner), loop.sid) /\ ~loop.retry
    BY <1>1, DrawnScreen
<1>3. CASE ShowFrame
    BY <1>1, <1>2, <1>3, ShownLoop, ScreenSteps DEF ShowFrame
<1>4. ASSUME NEW queued \in BOOLEAN, PresentedOutdated(queued) PROVE CurrentInv'
    <2>1. ScreenOf(screen', loop.sid)
        BY <1>2, <1>4 DEF PresentedOutdated
    <2>2. \E todo : loop' = [loop EXCEPT !.todo = todo]
        BY <1>4 DEF PresentedOutdated
    <2>3. LoopOf(loop') /\ loop'.sid = loop.sid /\ ~loop'.retry
        BY <1>1, <1>2, <2>2 DEF LoopOf, Whole
    <2> QED
        BY <1>1, <2>1, <2>3, ScreenSteps
<1> QED
    BY <1>3, <1>4

LEMMA NothingAcquiredCurrent ==
    ASSUME CurrentInv, NothingAcquired
    PROVE  CurrentInv'
<1>1. LoopOf(loop) /\ ScreenOf(screen, loop.sid) /\ screen' = Rendering /\ UNCHANGED <<thread, sessionRx, frames>>
    BY DEF CurrentInv, NothingAcquired
<1>2. \E todo : loop' = [loop EXCEPT !.todo = todo]
    BY DEF NothingAcquired
<1>3. SameFrames(loop, loop')
    BY <1>1, <1>2 DEF LoopOf, Whole, SameFrames
<1> QED
    BY <1>1, <1>3, RenderingScreen, SameSteps DEF CurrentInv

LEMMA RecreateCurrent ==
    ASSUME CurrentInv, RecreateSwapchain
    PROVE  CurrentInv'
<1>1. /\ LoopOf(loop) /\ ScreenOf(screen, loop.sid) /\ Idle(screen) /\ screen' = Recreated(screen)
      /\ UNCHANGED <<thread, sessionRx, frames>>
    BY DEF CurrentInv, RecreateSwapchain
<1>2. ScreenOf(screen', loop.sid) /\ (QuietScreen(screen) => QuietScreen(screen'))
    BY <1>1, RecreatedScreen
<1>3. CASE loop.todo = "resized"
    <2>1. SameFrames(loop, loop')
        BY <1>1, <1>3 DEF RecreateSwapchain, LoopOf, Whole, SameFrames
    <2> QED
        BY <1>1, <1>2, <2>1, SameSteps DEF CurrentInv
<1>4. CASE loop.todo # "resized"
    <2>1. loop' = Shown(loop, loop.todo = "tracked")
        BY <1>4 DEF RecreateSwapchain
    <2>2. LoopOf(loop') /\ loop'.sid = loop.sid /\ loop'.retry = loop.retry
        BY <1>1, <2>1, ShownLoop
    <2>3. CASE ~loop.retry
        BY <1>1, <1>2, <2>2, <2>3, ScreenSteps
    <2>4. CASE loop.retry
        <3>1. loop.last = 0 /\ loop.pending = {} /\ ~loop.fresh
            BY <1>1, <2>4 DEF CurrentInv, Nothing, LoopOf
        <3>2. Measured(loop, loop.todo = "tracked") = [loop EXCEPT !.fresh = FALSE, !.pending = {}]
            BY <3>1 DEF Measured
        <3>3. loop'.last = 0 /\ loop'.pending = {}
            BY <1>1, <2>1, <3>1, <3>2 DEF Shown, LoopOf, Whole
        <3> QED
            BY <1>1, <1>2, <2>2, <2>4, <3>3 DEF CurrentInv, Nothing
    <2> QED
        BY <1>1, <2>3, <2>4
<1> QED
    BY <1>3, <1>4

LEMMA FeedbackCurrent ==
    ASSUME CurrentInv, TakeFeedback
    PROVE  CurrentInv'
<1>1. /\ LoopOf(loop) /\ ScreenOf(screen, loop.sid) /\ screen.feedback # <<>> /\ ~loop.retry
      /\ screen' = [screen EXCEPT !.feedback = Tail(@)] /\ UNCHANGED <<thread, sessionRx, frames>>
    BY DEF CurrentInv, TakeFeedback, Nothing, QuietScreen, LoopOf
<1>2. LoopOf(loop') /\ loop'.sid = loop.sid /\ ~loop'.retry
    BY <1>1 DEF TakeFeedback, LoopOf, Whole
<1> QED
    BY <1>1, <1>2, FeedbackScreen, ScreenSteps

LEMMA DropCurrent ==
    ASSUME CurrentInv, DropRenderer
    PROVE  CurrentInv'
<1>1. LoopOf(loop) /\ screen' = NoRenderer /\ UNCHANGED <<thread, sessionRx, frames>>
    BY DEF CurrentInv, DropRenderer, RendererDropped
<1>2. SameFrames(loop, loop')
    BY <1>1 DEF DropRenderer, LoopOf, Whole, SameFrames
<1> QED
    BY <1>1, <1>2, NoScreen, SameSteps DEF CurrentInv

LEMMA PresenterCurrent ==
    ASSUME CurrentInv, PresenterStep
    PROVE  CurrentInv'
<1>1. LoopOf(loop) /\ ScreenOf(screen, loop.sid) /\ UNCHANGED <<loop, thread, sessionRx, frames>>
    BY DEF CurrentInv, PresenterStep
<1>2. SameFrames(loop, loop')
    BY <1>1 DEF SameFrames
<1>3. CASE GpuFinishes
    BY <1>1, <1>2, <1>3, GpuScreen, SameSteps DEF CurrentInv
<1>4. ASSUME NEW frame, TrackerAnswers(frame) PROVE CurrentInv'
    <2>1. ScreenOf(screen', loop.sid) /\ ~QuietScreen(screen)
        BY <1>1, <1>4, TrackerScreen
    <2> QED
        BY <1>1, <1>2, <2>1, SameSteps DEF CurrentInv
<1> QED
    BY <1>3, <1>4 DEF PresenterStep

-------------------------------------------------------------------------------
(* The session thread, which is the loop's own.                                *)

LEMMA TellCurrent ==
    ASSUME CurrentInv, Thread(thread'), NEW kind \in Kinds, Tell(kind)
    PROVE  sessionRx' \in Seq(EventsOf(loop.sid))
<1> DEFINE event == [sid |-> loop.sid, kind |-> kind, depth |-> thread'.depth]
<1>1. event \in EventsOf(loop.sid)
    BY DEF Thread, EventsOf
<1>2. sessionRx' = Append(sessionRx, event) /\ sessionRx \in Seq(EventsOf(loop.sid))
    BY DEF Tell, CurrentInv
<1> HIDE DEF event
<1> QED
    BY <1>1, <1>2

(* A step of a thread: none runs while a retry is awaited.                     *)
LEMMA ThreadOnly ==
    ASSUME CurrentInv, UNCHANGED <<loop, screen>>, Thread(thread'), thread.phase # "gone",
           sessionRx' \in Seq(EventsOf(loop.sid)), frames' \in Seq({loop.sid})
    PROVE  CurrentInv'
BY DEF CurrentInv, Nothing

LEMMA ThreadCurrent ==
    ASSUME CurrentInv, ThreadStep
    PROVE  CurrentInv'
<1>0. /\ Thread(thread) /\ sessionRx \in Seq(EventsOf(loop.sid)) /\ frames \in Seq({loop.sid})
      /\ UNCHANGED <<loop, screen>>
    BY DEF CurrentInv, ThreadStep, OpenDecoder, Authenticate, Negotiate, Deliver, DecodingFails, HostReleases,
           ForwardInput, Fail, HostReconfigures, BudgetExceeded, ObeyStop, EndWith
<1>1. CASE OpenDecoder
    <2>1. Thread(thread') /\ thread.phase # "gone" /\ UNCHANGED <<sessionRx, frames>>
        BY <1>0, <1>1 DEF OpenDecoder, Thread
    <2> QED
        BY <1>0, <2>1, ThreadOnly
<1>2. CASE Authenticate
    <2>1. Thread(thread') /\ thread.phase # "gone" /\ UNCHANGED frames
        BY <1>0, <1>2 DEF Authenticate, Thread
    <2>2. sessionRx' \in Seq(EventsOf(loop.sid))
        BY <1>2, <2>1, TellCurrent DEF Authenticate, Kinds
    <2> QED
        BY <1>0, <2>1, <2>2, ThreadOnly
<1>3. ASSUME NEW depth \in Depths, Negotiate(depth) PROVE CurrentInv'
    <2>1. depth \in Nat
        BY PlayerAssumption
    <2>2. Thread(thread') /\ thread.phase # "gone" /\ UNCHANGED frames
        BY <1>0, <1>3, <2>1 DEF Negotiate, Thread
    <2>3. sessionRx' \in Seq(EventsOf(loop.sid))
        BY <1>3, <2>2, TellCurrent DEF Negotiate, Kinds
    <2> QED
        BY <1>0, <2>2, <2>3, ThreadOnly
<1>4. CASE Deliver
    <2>1. Thread(thread') /\ thread.phase # "gone" /\ UNCHANGED sessionRx
        BY <1>0, <1>4 DEF Deliver, Thread
    <2>2. frames' \in Seq({loop.sid})
        <3>1. CASE Len(frames) < VideoQueueCapacity
            BY <1>0, <1>4, <3>1 DEF Deliver, Pushed
        <3>2. CASE ~(Len(frames) < VideoQueueCapacity)
            <4>1. frames # <<>>
                BY <1>0, <3>2 DEF VideoQueueCapacity
            <4>2. Tail(frames) \in Seq({loop.sid})
                BY <1>0, <4>1
            <4> QED
                BY <1>4, <3>2, <4>2 DEF Deliver, Pushed
        <3> QED
            BY <3>1, <3>2
    <2> QED
        BY <1>0, <2>1, <2>2, ThreadOnly
<1>5. CASE HostReleases
    <2>1. thread' = thread /\ thread.phase # "gone" /\ UNCHANGED frames
        BY <1>5 DEF HostReleases
    <2>2. sessionRx' \in Seq(EventsOf(loop.sid))
        BY <1>0, <1>5, <2>1, TellCurrent DEF HostReleases, Kinds
    <2> QED
        BY <1>0, <2>1, <2>2, ThreadOnly
<1>6. CASE ForwardInput
    BY <1>0, <1>6, ThreadOnly DEF ForwardInput
<1>7. ASSUME NEW kind \in Kinds, EndWith(kind), thread.phase # "gone" PROVE CurrentInv'
    <2>1. Thread(thread') /\ UNCHANGED frames
        BY <1>0, <1>7 DEF EndWith, Thread
    <2>2. sessionRx' \in Seq(EventsOf(loop.sid))
        BY <1>7, <2>1, TellCurrent DEF EndWith
    <2> QED
        BY <1>0, <1>7, <2>1, <2>2, ThreadOnly
<1>8. CASE Fail \/ DecodingFails \/ HostReconfigures \/ BudgetExceeded \/ ObeyStop
    BY <1>7, <1>8 DEF Fail, DecodingFails, HostReconfigures, BudgetExceeded, ObeyStop, Kinds
<1> QED
    BY <1>1, <1>2, <1>3, <1>4, <1>5, <1>6, <1>8 DEF ThreadStep

-------------------------------------------------------------------------------
(* Between two sessions: the one that is joined leaves nothing.                *)

LEMMA SeqOfMore ==
    ASSUME NEW S, NEW T, S \subseteq T, NEW s \in Seq(S)
    PROVE  s \in Seq(T)
<1>1. Len(s) \in Nat /\ s \in [1 .. Len(s) -> T]
    OBVIOUS
<1> QED
    BY <1>1

(* A session is started when nothing is left of another.                       *)
LEMMA StartCurrent ==
    ASSUME NEW l, Whole \subseteq DOMAIN l, l.sid \in {1, 2}, ~l.retry, l.retry \in BOOLEAN,
           l.last = 0, l.pending = {}, l.fresh = FALSE, StartSession(l),
           sessionRx' = <<>>, frames' = <<>>, DOMAIN screen' = {"output", "tracked", "swapchain", "gpu", "waits", "feedback"},
           QuietScreen(screen'), ~Made(screen') => Idle(screen')
    PROVE  CurrentInv'
<1>1. Thread(thread')
    BY DEF StartSession, FreshThread, Thread
<1>2. LoopOf(loop') /\ ~loop'.retry
    <2>1. loop' = [l EXCEPT !.sid = 3 - l.sid] /\ 3 - l.sid \in {1, 2}
        BY DEF StartSession
    <2>2. /\ Whole \subseteq DOMAIN loop' /\ loop'.sid \in {1, 2} /\ loop'.retry = FALSE
          /\ loop'.last = 0 /\ loop'.pending = {} /\ loop'.fresh = FALSE
        BY <2>1 DEF Whole
    <2> QED
        BY <2>2 DEF LoopOf
<1>3. ScreenOf(screen', loop'.sid)
    <2> DEFINE S == [swapchain : {screen'.swapchain}, reads : {{}}]
               T == Commands(screen'.swapchain, loop'.sid)
    <2>1. S \subseteq T /\ screen'.gpu \in Seq(S)
        BY DEF QuietScreen, Commands
    <2> HIDE DEF S, T
    <2>2. screen'.gpu \in Seq(T)
        BY <2>1, SeqOfMore
    <2> USE DEF T
    <2> QED
        BY <2>2 DEF QuietScreen, ScreenOf
<1>4. sessionRx' \in Seq(EventsOf(loop'.sid)) /\ frames' \in Seq({loop'.sid})
    OBVIOUS
<1> QED
    BY <1>1, <1>2, <1>3, <1>4 DEF CurrentInv

LEMMA RestartCurrent ==
    ASSUME CurrentInv, Restart
    PROVE  CurrentInv'
<1>1. /\ LoopOf(loop) /\ sessionRx' = <<>> /\ frames' = <<>> /\ screen' = NoRenderer
      /\ StartSession(Restarted(loop))
    BY DEF CurrentInv, Restart, Emptied, RendererDropped
<1> DEFINE m == Forgotten(loop)
           l == Restarted(loop)
<1>2. /\ Whole \subseteq DOMAIN m /\ m.sid = loop.sid
      /\ m.last = 0 /\ m.pending = {} /\ ~m.fresh /\ m.fresh \in BOOLEAN
    BY <1>1 DEF LoopOf, Whole, Forgotten
<1>3. l = [m EXCEPT !.retry = FALSE]
    BY DEF Restarted
<1> HIDE DEF m
<1>4. /\ Whole \subseteq DOMAIN l /\ l.sid \in {1, 2} /\ l.retry = FALSE
      /\ l.last = 0 /\ l.pending = {} /\ l.fresh = FALSE
    BY <1>1, <1>2, <1>3 DEF LoopOf, Whole
<1> HIDE DEF l
<1>5. QuietScreen(NoRenderer) /\ Idle(NoRenderer) /\ DOMAIN NoRenderer = {"output", "tracked", "swapchain", "gpu", "waits", "feedback"}
    BY NoScreen DEF ScreenOf
<1> QED
    BY <1>1, <1>4, <1>5, StartCurrent DEF l

LEMMA RetryCurrent ==
    ASSUME CurrentInv, Retry
    PROVE  CurrentInv'
<1>1. /\ LoopOf(loop) /\ Nothing /\ ScreenOf(screen, loop.sid) /\ UNCHANGED <<sessionRx, frames, screen>>
      /\ StartSession([loop EXCEPT !.retry = FALSE])
    BY DEF CurrentInv, Retry
<1> DEFINE l == [loop EXCEPT !.retry = FALSE]
<1>2. /\ Whole \subseteq DOMAIN l /\ l.sid \in {1, 2} /\ l.retry = FALSE
      /\ l.last = 0 /\ l.pending = {} /\ l.fresh = FALSE
    BY <1>1 DEF LoopOf, Whole, Nothing
<1> HIDE DEF l
<1> QED
    BY <1>1, <1>2, StartCurrent DEF l, Nothing, ScreenOf

LEMMA AwaitCurrent ==
    ASSUME CurrentInv, AwaitRetry
    PROVE  CurrentInv'
<1>1. /\ LoopOf(loop) /\ Thread(thread) /\ sessionRx' = <<>> /\ frames' = <<>> /\ screen' = NoRenderer
      /\ thread.phase = "gone" /\ thread' = thread /\ loop' = [Forgotten(loop) EXCEPT !.retry = TRUE]
    BY DEF CurrentInv, AwaitRetry, Emptied, RendererDropped, Joined
<1> DEFINE m == Forgotten(loop)
<1>2. /\ Whole \subseteq DOMAIN m /\ m.sid = loop.sid
      /\ m.last = 0 /\ m.pending = {} /\ ~m.fresh /\ m.fresh \in BOOLEAN
    BY <1>1 DEF LoopOf, Whole, Forgotten
<1> HIDE DEF m
<1>3. LoopOf(loop') /\ loop'.last = 0 /\ loop'.pending = {}
    BY <1>1, <1>2 DEF LoopOf, Whole, m
<1>4. sessionRx' \in Seq(EventsOf(loop'.sid)) /\ frames' \in Seq({loop'.sid})
    BY <1>1
<1> QED
    BY <1>1, <1>3, <1>4, NoScreen DEF CurrentInv, Nothing

LEMMA EndedCurrent ==
    ASSUME NEW outcome, Ended(outcome)
    PROVE  CurrentInv'
<1>1. /\ Thread(thread') /\ LoopOf(loop') /\ ~loop'.retry
    BY DEF Ended, NoThread, Thread, FreshLoop, LoopOf, Whole
<1>2. sessionRx' \in Seq(EventsOf(loop'.sid)) /\ frames' \in Seq({loop'.sid}) /\ screen' = NoRenderer
    BY DEF Ended
<1> QED
    BY <1>1, <1>2, NoScreen DEF CurrentInv

LEMMA LoopCurrent ==
    ASSUME CurrentInv, LoopStep
    PROVE  CurrentInv'
<1>1. CASE \/ TakeCommand \/ TakeEvent \/ WindowInput \/ Quit \/ BecomesStable \/ WindowResized \/ SendInput
    BY <1>1, PollsCurrent
<1>2. CASE TakeFrame \/ ShowLoading \/ ShowFrame \/ \E queued \in BOOLEAN : PresentedOutdated(queued)
    BY <1>2, TakeFrameCurrent, LoadingCurrent, PresentCurrent
<1>3. CASE NothingAcquired \/ RecreateSwapchain \/ TakeFeedback \/ DropRenderer
    BY <1>3, NothingAcquiredCurrent, RecreateCurrent, FeedbackCurrent, DropCurrent
<1>4. CASE RaiseStop
    <2>1. /\ Thread(thread') /\ thread'.phase = thread.phase /\ LoopOf(loop) /\ ScreenOf(screen, loop.sid)
          /\ UNCHANGED <<loop, sessionRx, frames, screen>>
        BY <1>4 DEF RaiseStop, CurrentInv, Thread
    <2> QED
        BY <2>1, SameSteps DEF CurrentInv, SameFrames
<1>5. CASE Restart \/ AwaitRetry \/ Retry
    BY <1>5, RestartCurrent, AwaitCurrent, RetryCurrent
<1>6. CASE Exit
    BY <1>6, EndedCurrent DEF Exit
<1> QED
    BY <1>1, <1>2, <1>3, <1>4, <1>5, <1>6 DEF LoopStep

LEMMA CurrentAtFirst == PlayerInit => CurrentInv
<1> SUFFICES ASSUME PlayerInit PROVE CurrentInv
    OBVIOUS
<1>1. LoopOf(loop) /\ ~loop.retry /\ Thread(thread)
    BY DEF PlayerInit, FreshLoop, FreshThread, LoopOf, Whole, Thread
<1>2. sessionRx \in Seq(EventsOf(loop.sid)) /\ frames \in Seq({loop.sid}) /\ screen = NoRenderer
    BY DEF PlayerInit
<1> QED
    BY <1>1, <1>2, NoScreen DEF CurrentInv

LEMMA CurrentInductive == CurrentInv /\ [PlayerNext]_playerVars => CurrentInv'
<1> SUFFICES ASSUME CurrentInv, [PlayerNext]_playerVars PROVE CurrentInv'
    OBVIOUS
<1>1. CASE LoopStep
    BY <1>1, LoopCurrent
<1>2. CASE ThreadStep
    BY <1>2, ThreadCurrent
<1>3. CASE PresenterStep
    BY <1>3, PresenterCurrent
<1>4. CASE Crash
    BY <1>4, EndedCurrent DEF Crash
<1>5. CASE UNCHANGED <<loop, thread, sessionRx, frames, screen>>
    BY <1>5 DEF CurrentInv, Nothing
<1> QED
    BY <1>1, <1>2, <1>3, <1>4, <1>5 DEF PlayerNext, ClientSends, Exited, playerVars

LEMMA CurrentAlways == PlayerSpec => []CurrentInv
BY CurrentAtFirst, CurrentInductive, PTL DEF PlayerSpec

(* What the loop has taken or may still take is of the session it runs, also   *)
(* while it is between two sessions.                                           *)
THEOREM OnlyCurrentAlways == PlayerSpec => []OnlyCurrent
<1>1. CurrentInv => OnlyCurrent
    <2> SUFFICES ASSUME CurrentInv PROVE OnlyCurrent
        OBVIOUS
    <2>1. \A i \in DOMAIN sessionRx : sessionRx[i].sid = loop.sid
        <3>1. \A i \in DOMAIN sessionRx : sessionRx[i] \in EventsOf(loop.sid)
            BY DEF CurrentInv
        <3> QED
            BY <3>1 DEF EventsOf
    <2>2. \A i \in DOMAIN frames : frames[i] = loop.sid
        BY DEF CurrentInv
    <2>3. \A i \in DOMAIN screen.gpu : \A plane \in screen.gpu[i].reads : plane.owner = loop.sid
        <3>1. \A i \in DOMAIN screen.gpu : screen.gpu[i] \in Commands(screen.swapchain, loop.sid)
            BY DEF CurrentInv, ScreenOf
        <3> QED
            BY <3>1 DEF Commands
    <2>4. \A i \in DOMAIN screen.feedback : screen.feedback[i] \in {0, loop.sid}
        BY DEF CurrentInv, ScreenOf
    <2> QED
        BY <2>1, <2>2, <2>3, <2>4 DEF OnlyCurrent, CurrentInv, LoopOf
<1> QED
    BY <1>1, CurrentAlways, PTL

(* Neither the GPU nor the tracker uses a swapchain that is gone.              *)
THEOREM NothingInUseAlways == PlayerSpec => []NothingInUse
<1>1. CurrentInv => NothingInUse
    <2> SUFFICES ASSUME CurrentInv PROVE NothingInUse
        OBVIOUS
    <2>1. \A i \in DOMAIN screen.gpu : screen.gpu[i] \in Commands(screen.swapchain, loop.sid)
        BY DEF CurrentInv, ScreenOf
    <2>2. \A i \in DOMAIN screen.waits : screen.waits[i] \in Waits(screen.swapchain, loop.sid)
        BY DEF CurrentInv, ScreenOf
    <2> QED
        BY <2>1, <2>2 DEF NothingInUse, Commands, Waits, CurrentInv, ScreenOf
<1> QED
    BY <1>1, CurrentAlways, PTL
=============================================================================
