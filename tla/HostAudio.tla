------------------------------- MODULE HostAudio -------------------------------
(***************************************************************************)
(* The host's audio: the capture thread of the media worker (CableCapture, *)
(* OpusEncoder), the thread that writes its packets and states to a pipe,  *)
(* the queue behind the pipe, and the service, which also undoes the route *)
(* of a worker that did not.  Time and samples are counted in units of     *)
(* half a packet; one unit is the delay of the encoder.                    *)
(***************************************************************************)
EXTENDS AudioRoute, SequencesExt

CONSTANTS
  Queue,    \* AUDIO_QUEUE_PACKETS
  Budgets   \* what a behaviour may contain: buffers, streams, faults

ASSUME AudioAssumption == Queue \in Nat \ {0}

VARIABLES
  service,   \* where run_service is
  thread,    \* the capture thread: where it is, and what comes after a route
  capture,   \* CableCapture and the stream behind it
  flow,      \* the loop's variables
  encoder,   \* OpusEncoder
  sound,     \* history: time and epoch of the next sample of the engine
  queue,     \* from the capture thread to the writer
  closed,    \* whether that queue is
  writer,    \* whether the writer runs
  pipe,      \* from the writer to the service
  told       \* audio_state of the service

captureVars == <<capture, flow, encoder, sound>>
outVars == <<queue, closed, writer, pipe, told>>
vars == <<routeVars, budget, service, thread, captureVars, outVars>>

None == -1
Frame == 2   \* frame_samples
Delay == 1   \* delay_samples

Packet(gen, seq, at, samples) == [is |-> "packet", gen |-> gen, seq |-> seq, at |-> at, samples |-> samples]
State(gen, status) == [is |-> "state", gen |-> gen, status |-> status]
Newest(events) ==
  IF Len(events) > Queue THEN SubSeq(events, Len(events) - Queue + 1, Len(events)) ELSE events
(* A queue that is closed takes nothing.                                   *)
Pushed(events) == IF closed THEN queue ELSE Newest(queue \o events)

NewCapture == [opened |-> 0, stream |-> FALSE, route |-> FALSE, broken |-> TRUE, last |-> None]
NewFlow == [input |-> FALSE, reset |-> FALSE, gen |-> 1, seq |-> 0, status |-> "waiting"]
NewEncoder == [pending |-> 0, submitted |-> 0, timeline |-> <<>>, last |-> None, said |-> <<>>]
Over(at) == [at |-> at, then |-> "", stop |-> FALSE, over |-> FALSE, why |-> ""]

Init ==
  /\ RouteInit /\ budget \in Budgets
  /\ service = "down" /\ thread = Over("gone")
  /\ capture = NewCapture /\ flow = NewFlow /\ encoder = NewEncoder
  /\ sound = [time |-> 1, epoch |-> 1]
  /\ queue = <<>> /\ closed = FALSE /\ writer = FALSE /\ pipe = <<>>
  /\ told = State(1, "waiting")

-----------------------------------------------------------------------------
(* The service.                                                            *)

ServiceStarts ==
  /\ service = "down" /\ thread.at = "gone" /\ Spend("starts")
  /\ service' = "starting" /\ Does(Recovery)
  /\ UNCHANGED <<defaults, cable, record, away, wish, leftover, thread, captureVars, outVars>>

(* A service that cannot recover does not start; after a stream it goes on.*)
ServiceReady ==
  /\ service \in {"starting", "cleaning", "ending"} /\ job.at = "done"
  /\ service' = IF service = "cleaning" \/ (service = "starting" /\ job.ok) THEN "running" ELSE "down"
  /\ Does(Idle)
  /\ UNCHANGED <<budget, defaults, cable, record, away, wish, leftover, thread, captureVars, outVars>>

ServiceStops ==
  /\ service = "running" /\ thread.at = "gone"
  /\ service' = "ending" /\ Does(Recovery)
  /\ UNCHANGED <<budget, defaults, cable, record, away, wish, leftover, thread, captureVars, outVars>>

(* AudioRecoveryGuard: the route of a worker that is gone is undone before *)
(* the next stream.                                                        *)
Cleans ==
  IF service = "running" THEN service' = "cleaning" /\ Does(Recovery) ELSE UNCHANGED service /\ Does(Idle)
Gone == thread' = Over("gone") /\ writer' = FALSE /\ queue' = <<>> /\ pipe' = <<>>

(* The worker crashes, or does not stop within five seconds.               *)
WorkerDies ==
  /\ thread.at # "gone" /\ Spend("kill") /\ Gone /\ Cleans
  /\ UNCHANGED <<defaults, cable, record, away, wish, leftover, captureVars, closed, told>>

(* A worker in a job object dies with the service, one of the user finds   *)
(* its pipes broken.                                                       *)
ServiceDies ==
  /\ service # "down" /\ Spend("kill")
  /\ service' = "down"
  /\ \/ Gone /\ Does(Idle)
     \/ /\ thread.at # "gone" /\ thread' = [thread EXCEPT !.stop = TRUE, !.over = TRUE]
        /\ UNCHANGED <<job, writer, queue, pipe>>
  /\ UNCHANGED <<defaults, cable, record, away, wish, leftover, captureVars, closed, told>>

SwitchUser ==
  /\ thread.at = "gone" /\ Spend("switch") /\ away' = ~away
  /\ UNCHANGED <<defaults, cable, record, job, wish, leftover, service, thread, captureVars, outVars>>

(* The states of the worker, and the generation of its packets, become the *)
(* audio state that the player is told; an older generation is ignored.    *)
NewerOnly(event) == event.gen > told.gen                             \* mutant
Counts(event) == event.gen >= told.gen
(* What the service reads next from the pipe, whole.                       *)
Heard == Head(pipe)
ServiceTakes ==
  /\ service = "running" /\ pipe # <<>>
  /\ pipe' = Tail(pipe)
  /\ LET event == Heard
     IN  told' = IF event.is = "packet"
                 THEN IF event.gen > told.gen THEN State(event.gen, "active") ELSE told
                 ELSE IF Counts(event) THEN event ELSE told
  /\ UNCHANGED <<routeVars, budget, service, thread, captureVars, queue, closed, writer>>

-----------------------------------------------------------------------------
(* The capture thread.  Its route is in "job" as long as "capture" says so.*)

WorkerStarts ==
  /\ service = "running" /\ thread.at = "gone" /\ ~away /\ Spend("streams")
  /\ thread' = Over("poll")
  /\ capture' = NewCapture /\ flow' = NewFlow /\ encoder' = NewEncoder
  /\ queue' = <<>> /\ closed' = FALSE /\ writer' = TRUE /\ pipe' = <<>>
  /\ told' = State(1, "waiting")
  /\ UNCHANGED <<routeVars, service, sound>>

(* The stream ends: WorkerAudio is dropped.                                *)
StreamStops ==
  /\ thread.at # "gone" /\ ~thread.over
  /\ thread' = [thread EXCEPT !.stop = TRUE, !.over = TRUE]
  /\ UNCHANGED <<routeVars, budget, service, captureVars, outVars>>

Goes(at) == thread' = [thread EXCEPT !.at = at]
Routes(next, then) ==
  Does(next) /\ thread' = [thread EXCEPT !.at = "routing", !.then = then]
DropRoute(tries, then) ==
  IF capture.route THEN Routes(Undo(job.old, tries, TRUE), then)
  ELSE Goes(then) /\ UNCHANGED job

(* poll, when the check of the devices is due: another cable than the one  *)
(* that is open, or none.                                                  *)
FindsCable ==
  /\ thread.at = "poll" /\ ~thread.stop
  /\ capture.opened # cable
  /\ capture' = [capture EXCEPT !.stream = FALSE, !.route = FALSE, !.opened = 0, !.broken = TRUE]
  /\ DropRoute(1, IF cable # 0 THEN "activate" ELSE "unavailable")
  /\ UNCHANGED <<defaults, cable, record, away, wish, leftover, budget, service, flow, encoder, sound, outVars>>

(* A failure of the device ends the stream, not the thread; the route is   *)
(* kept until the next check.                                              *)
Lost(c) == [c EXCEPT !.stream = FALSE, !.opened = 0, !.broken = TRUE]

Activates ==
  /\ thread.at = "activate"
  /\ IF cable # 0
     THEN Routes(Activation, "open") /\ UNCHANGED capture
     ELSE Goes("unavailable") /\ capture' = Lost(capture) /\ UNCHANGED job
  /\ UNCHANGED <<defaults, cable, record, away, wish, leftover, budget, service, flow, encoder, sound, outVars>>

(* What a route was for is done; the stream is opened behind a new one.    *)
Opens ==
  /\ thread.at = "routing" /\ thread.then = "open" /\ job.at = "done"
  /\ \/ /\ job.ok /\ cable # 0
        /\ capture' = [capture EXCEPT !.stream = TRUE, !.route = TRUE, !.opened = cable, !.last = None]
        /\ Goes("read") /\ UNCHANGED <<job, budget, sound>>
     \/ /\ job.ok /\ capture' = Lost(capture)
        /\ \/ cable = 0 /\ UNCHANGED budget
           \/ cable # 0 /\ Spend("plug")
        /\ Routes(Undo(job.old, 1, TRUE), "unavailable") /\ UNCHANGED sound
     \/ /\ ~job.ok /\ thread' = [thread EXCEPT !.at = "final", !.why = "failed"]
        /\ Does(Idle) /\ UNCHANGED <<capture, budget, sound>>
     \/ /\ ~job.ok /\ cable = 0 /\ capture' = Lost(capture)
        /\ Goes("unavailable") /\ Does(Idle) /\ UNCHANGED <<budget, sound>>
  /\ UNCHANGED <<defaults, cable, record, away, wish, leftover, service, flow, encoder, outVars>>

RouteDropped ==
  /\ thread.at = "routing" /\ thread.then # "open" /\ job.at = "done"
  /\ thread' = [thread EXCEPT !.at = thread.then,
                              !.why = IF thread.then = "final" /\ ~job.ok THEN "failed" ELSE @]
  /\ Does(Idle)
  /\ UNCHANGED <<defaults, cable, record, away, wish, leftover, budget, service, captureVars, outVars>>

(* The event Unavailable, when there is no stream.                         *)
Unavailable ==
  /\ thread.at = "unavailable" \/ (thread.at = "poll" /\ ~thread.stop /\ ~capture.stream)
  /\ flow' = [flow EXCEPT !.reset = TRUE, !.status = "unavailable"]
  /\ queue' = IF flow.status # "unavailable" THEN Pushed(<<State(flow.gen, "unavailable")>>) ELSE queue
  /\ Goes("poll")
  /\ UNCHANGED <<routeVars, budget, service, capture, encoder, sound, closed, writer, pipe, told>>

Looks ==
  /\ thread.at = "poll" /\ ~thread.stop /\ capture.stream
  /\ Goes("read")
  /\ UNCHANGED <<routeVars, budget, service, captureVars, outVars>>

Idles ==
  /\ thread.at = "read" /\ Goes("poll")
  /\ UNCHANGED <<routeVars, budget, service, captureVars, outVars>>

(* read fails: a device that is gone, or any other error.                  *)
ReadFails ==
  /\ thread.at = "read"
  /\ \/ /\ \/ capture.opened # cable /\ UNCHANGED budget
           \/ capture.opened = cable /\ Spend("plug")
        /\ capture' = Lost(capture) /\ Goes("unavailable") /\ UNCHANGED job
     \/ /\ Spend("call") /\ capture' = [Lost(capture) EXCEPT !.route = FALSE]
        /\ Does(Undo(job.old, 1, TRUE))
        /\ thread' = [thread EXCEPT !.at = "routing", !.then = "final", !.why = "failed"]
  /\ UNCHANGED <<defaults, cable, record, away, wish, leftover, service, flow, encoder, sound, outVars>>

-----------------------------------------------------------------------------
(* The encoder: positions count from the last reset.  "timeline" has the   *)
(* position and the time of every buffer that is still needed, "said" (a   *)
(* history) what the samples of the positions really were.                 *)

Received(e) == Len(e.said)
Refuses(e, time) == e.last # None /\ time <= e.last
StillNeeded(timeline, position) ==
  IF Len(timeline) > 1 /\ timeline[2][1] <= position THEN Tail(timeline) ELSE timeline

(* receive: a packet is Delay behind the samples that were submitted; what *)
(* lies before the first sample is skipped.                                *)
SamplesAt(e, pts) == SubSeq(e.said, 1 + (IF pts < 0 THEN 0 ELSE pts), pts + Frame)
PacketAt(e, pts, gen, seq) ==
  LET position == IF pts < 0 THEN 0 ELSE pts
      timeline == StillNeeded(StillNeeded(e.timeline, position), position)
  IN  Packet(gen, seq, timeline[1][2] + position - timeline[1][1], SamplesAt(e, pts))
Emitted(e) == [e EXCEPT !.timeline = StillNeeded(StillNeeded(@, e.submitted - Delay), e.submitted - Delay)]

(* encode, encode_batch, submit: a buffer of at most a frame.              *)
TakenIn(e, time, buffer) ==
  [e EXCEPT !.timeline = Append(@, <<Received(e), time>>), !.last = time, !.said = @ \o buffer,
            !.pending = @ + Len(buffer)]
Full(e) == e.pending >= Frame
Submitted(e) == [e EXCEPT !.pending = @ - Frame, !.submitted = @ + Frame]

-----------------------------------------------------------------------------
(* One event of the capture.                                               *)

Invalid ==
  /\ capture' = [capture EXCEPT !.broken = TRUE]
  /\ flow' = [flow EXCEPT !.reset = TRUE]
  /\ Goes("poll")
  /\ UNCHANGED <<encoder, queue, job>>

FlagIgnored(flag) == flow.reset /\ flow.input                        \* mutant
Resets(flag) == (flag \/ flow.reset) /\ flow.input

Encodes(time, buffer, flag) ==
  LET e == IF Resets(flag) THEN NewEncoder ELSE encoder
      gen == IF Resets(flag) THEN flow.gen + 1 ELSE flow.gen
      seq == IF Resets(flag) THEN 0 ELSE flow.seq
      taken == TakenIn(e, time, buffer)
      sent == Submitted(taken)
      packets == IF Full(taken) THEN <<PacketAt(sent, e.submitted - Delay, gen, seq)>> ELSE <<>>
      states == IF flow.status # "active" THEN <<State(gen, "active")>> ELSE <<>>
  IN IF Refuses(e, time)
     THEN /\ thread' = [thread EXCEPT !.at = "routing", !.then = "final", !.why = "encoder"]
          /\ Does(Undo(job.old, 1, TRUE))
          /\ capture' = [capture EXCEPT !.route = FALSE]
          /\ UNCHANGED <<flow, encoder, queue>>
     ELSE /\ encoder' = IF Full(taken) THEN Emitted(sent) ELSE taken
          /\ flow' = [input |-> TRUE, reset |-> FALSE, gen |-> gen, seq |-> seq + Len(packets), status |-> "active"]
          /\ capture' = [capture EXCEPT !.broken = FALSE, !.last = time]
          /\ queue' = Pushed(packets \o states)
          /\ Goes("poll") /\ UNCHANGED job

(* The engine hands out a buffer of n units.  A glitch is flagged as a     *)
(* discontinuity, or as a timestamp that is wrong, or it is neither and    *)
(* the clock drifts back by a unit.                                        *)
Buffer(n, time, epoch) == [i \in 1..n |-> [at |-> time + i - 1, epoch |-> epoch]]
ReadsBuffer ==
  /\ thread.at = "read" /\ Spend("buffers")
  /\ \E n \in 1..Frame, drift \in {-1, 0}, glitch \in {"none", "flag", "error"} :
       LET time == sound.time + drift
           epoch == IF glitch = "none" /\ ~capture.broken THEN sound.epoch ELSE sound.epoch + 1
           bad == glitch = "error" \/ (capture.last # None /\ time <= capture.last)
       IN  /\ glitch # "none" => drift = 0
           /\ sound' = [time |-> time + n, epoch |-> IF bad THEN sound.epoch + 1 ELSE epoch]
           /\ IF bad THEN Invalid
              ELSE Encodes(time, Buffer(n, time, epoch), glitch = "flag" \/ capture.broken)
  /\ UNCHANGED <<defaults, cable, record, away, wish, leftover, service, closed, writer, pipe, told>>

-----------------------------------------------------------------------------
(* The end of the thread, and the writer.                                  *)

(* reset: the route is undone before the last state is sent.               *)
Stops ==
  /\ thread.at = "poll" /\ thread.stop
  /\ capture' = [Lost(capture) EXCEPT !.route = FALSE]
  /\ DropRoute(2, "final")
  /\ UNCHANGED <<defaults, cable, record, away, wish, leftover, budget, service, flow, encoder, sound, outVars>>

Finishes ==
  /\ thread.at = "final"
  /\ queue' = Pushed(<<State(flow.gen, IF thread.why = "" THEN "stopped" ELSE "failed")>>)
  /\ closed' = TRUE
  /\ Goes("ended")
  /\ UNCHANGED <<routeVars, budget, service, captureVars, writer, pipe, told>>

(* Packets that have waited too long are dropped.  A pipe that is broken   *)
(* ends the capture thread, too.                                           *)
Writes ==
  /\ writer /\ queue # <<>>
  /\ IF service = "running"
     THEN /\ queue' = Tail(queue)
          /\ \/ Head(queue).is = "packet" /\ UNCHANGED pipe
             \/ pipe' = Newest(Append(pipe, Head(queue)))
          /\ UNCHANGED <<writer, closed, thread>>
     ELSE /\ writer' = FALSE /\ closed' = TRUE /\ thread' = [thread EXCEPT !.stop = TRUE]
          /\ UNCHANGED <<pipe, queue>>
  /\ UNCHANGED <<routeVars, budget, service, captureVars, told>>

(* A writer that is asked to stop does not wait for the last state.        *)
WriterEnds ==
  /\ writer /\ queue = <<>> /\ (closed \/ thread.stop)
  /\ writer' = FALSE /\ closed' = TRUE /\ thread' = [thread EXCEPT !.stop = TRUE]
  /\ UNCHANGED <<routeVars, budget, service, captureVars, queue, pipe, told>>

WorkerGone ==
  /\ thread.at = "ended" /\ thread.over /\ ~writer
  /\ Gone /\ Cleans
  /\ UNCHANGED <<defaults, cable, record, away, wish, leftover, budget, captureVars, closed, told>>

Environment ==
  /\ \/ UserChooses \/ Unplugged \/ Plugged(capture.opened + 1) \/ RouteStep
  /\ UNCHANGED <<service, thread, captureVars, outVars>>

Next ==
  \/ Environment \/ ServiceStarts \/ ServiceReady \/ ServiceStops \/ WorkerDies
  \/ ServiceDies \/ SwitchUser \/ ServiceTakes \/ WorkerStarts \/ StreamStops
  \/ FindsCable \/ Activates \/ Opens \/ RouteDropped \/ Unavailable \/ Looks \/ Idles
  \/ ReadFails \/ ReadsBuffer \/ Stops \/ Finishes \/ Writes \/ WriterEnds \/ WorkerGone

Fairness ==
  /\ WF_vars(Writes)
  /\ WF_vars(ServiceTakes)

Spec == Init /\ [][Next]_vars /\ Fairness

-----------------------------------------------------------------------------
(* What a packet says about itself is true.  Its samples are of one unin-  *)
(* terrupted stretch of sound, although the encoder is behind and keeps    *)
(* samples of the buffers before, and its time is the one at which the     *)
(* first of them was captured, across glitches, wrong timestamps and       *)
(* devices that are opened again.  The encoder never refuses a time.       *)
True(packet) ==
  /\ packet.at = Head(packet.samples).at
  /\ \A i \in DOMAIN packet.samples : packet.samples[i].epoch = Head(packet.samples).epoch
PacketsTrue ==
  /\ thread.why # "encoder"
  /\ \A i \in DOMAIN queue : queue[i].is = "packet" => True(queue[i])

(* A capture that has failed is told to the player, unless the stream ends *)
(* or the service goes down first.                                         *)
FailureTold ==
  (thread.at = "ended" /\ thread.why # "")
    ~> (told.status = "failed" \/ thread.over \/ thread.at = "gone" \/ service # "running")
=============================================================================
