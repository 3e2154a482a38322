--------------------------- MODULE BitrateControl ---------------------------
(***************************************************************************)
(* The bitrate decisions of HostVideoStreamPolicy (video_stream.rs) as the *)
(* media thread of service.rs takes them: the delivery controller and the  *)
(* latency policy answer the same reports and share one target.            *)
(*                                                                         *)
(* The link is the environment.  It stays as it is until it changes; a      *)
(* report says what the player saw in one unit of time, a late one arrives *)
(* together with the next, a dropped one leaves a gap.  Delays are what is *)
(* left after the host's own excess has been taken off (SourceDelay).      *)
(* MaxTroubles bounds the changes and irregularities of a behaviour, never *)
(* the number of reports.                                                  *)
(***************************************************************************)
EXTENDS AdaptiveBitrate

CONSTANTS
    Channels, Absolute, Variation, BaselineSamples, Settle, FailureTime, ProbeTime,
    IncidentTime, CutSpacing, ReportGap, Retry, MaxRetry,
    Measured,           \* the capacities the startup probe may have measured
    Links,              \* the conditions of the link
    Good,               \* the one without any trouble
    PathCapacities,     \* congestion window over the lowest round-trip time
    MaxTroubles

LP == INSTANCE LatencyPolicy WITH LatencyHold <- ProvenHold, LowestBitrate <- Bootstrap

ASSUME LatencyAssumption ==
    /\ Absolute \in Nat \ {0} /\ Variation \in Nat \ {0}
    /\ BaselineSamples \in Nat \ {0, 1}
    /\ {Settle, FailureTime, ProbeTime, CutSpacing, ReportGap, Retry} \subseteq Nat \ {0}
    /\ {IncidentTime, MaxRetry} \subseteq Nat
    /\ Settle <= ProvenHold /\ ProbeTime <= ProvenHold
    /\ CutSpacing <= IncidentTime /\ Retry <= MaxRetry
    /\ Cooldown <= Retry

ASSUME LinkAssumption ==
    /\ Good \in Links
    /\ \A link \in Links :
        /\ link.loss \in Losses
        /\ link.delay \in [Channels -> Nat]
        /\ "video" \in link.active /\ link.active \subseteq Channels
        /\ link.presented \in BOOLEAN
    /\ Measured \subseteq Nat /\ PathCapacities \subseteq Nat /\ MaxTroubles \in Nat

VARIABLES
    controller,     \* AdaptiveBitrateController
    policy,         \* LatencyPolicy
    cause,          \* bitrate_change_cause
    ended,          \* observe_receiver_with_latency returned the budget failure
    link,           \* what a report of the player says now
    path,           \* the capacity of the path, which a lower round-trip time raises
    troubles,       \* irregularities so far
    calm,           \* healthy reports since the last cut, up to Cooldown
    overLimit       \* how long reports of a channel have been above the limit

vars == <<controller, policy, cause, ended, link, path, troubles, calm, overLimit>>

Init ==
    /\ \E measured \in Measured : controller = FromStartupProbe(measured)
    /\ policy = LP!NewPolicy
    /\ cause = "startup"
    /\ ended = FALSE
    /\ link = Good
    /\ path \in PathCapacities
    /\ troubles = 0
    /\ calm = Cooldown
    /\ overLimit = [ch \in Channels |-> LP!NotOver]

-----------------------------------------------------------------------------
(* observe_receiver_with_latency.                                          *)

(* The latency limit counts only while no collapse is being undone.        *)
KnownCeiling(p) == IF controller.returning # None THEN LP!ForgetCeiling(p) ELSE p

Informed(p) == [controller EXCEPT !.latencyCeiling = p.ceiling]

(* Mutant of AnswerDelay: the cut starts from the target already lowered.  *)
AnswerDelayAgain(c, evaluation, p) ==
    IF evaluation.reduceTo = 0 THEN c
    ELSE SetLatencyTarget(c, (c.target * 3) \div 4, p.retry)

(* The answer to delay starts from the target the report was about and     *)
(* never raises the one the answer to loss has already lowered.            *)
AnswerDelay(c, evaluation, p) ==
    IF evaluation.reduceTo = 0 THEN c
    ELSE SetLatencyTarget(c, Least(evaluation.reduceTo, c.target), p.retry)

CauseOf(delivered, answered) ==
    IF answered.target # delivered.target THEN "latency pressure"
    ELSE IF delivered.target # controller.target
         THEN DeliveryCause(controller, link.loss, path)
         ELSE cause

(* The two counters of the properties.                                     *)
Healthy(evaluation) ==
    /\ ~Severe(controller, link.loss, path) /\ ~Degraded(controller, link.loss, path)
    /\ controller.events = 0
    /\ evaluation.allowIncrease

Calm(healthy, target) ==
    IF target < controller.target THEN 0
    ELSE IF healthy THEN Least(calm + 1, Cooldown) ELSE calm

OverLimit(elapsed) ==
    [ch \in Channels |->
        IF ~(ch \in link.active /\ link.delay[ch] > Absolute /\ controller.target = Bootstrap)
        THEN LP!NotOver
        ELSE IF overLimit[ch] = LP!NotOver \/ elapsed > ReportGap THEN 0
        ELSE Least(overLimit[ch] + elapsed, FailureTime)]

Decided == [controller |-> controller, policy |-> policy, cause |-> cause,
            ended |-> ended, calm |-> calm, overLimit |-> overLimit]

(* The policy when it has measured a report that comes elapsed after the   *)
(* last one, and what the report leads to.                                 *)
Measurement(elapsed) == LP!Measure(policy, link, controller.target, elapsed)
Outcome(measured, elapsed) ==
    LET evaluation == LP!ObserveDelay(measured, link, controller.target)
        known == KnownCeiling(evaluation.policy)
        delivered == ObserveDelivery(Informed(known), link.loss, path, evaluation.allowIncrease)
        answered == AnswerDelay(delivered, evaluation, known)
        changed == answered.target # controller.target
    IN  IF LP!Failed(evaluation.policy)
        THEN [Decided EXCEPT !.policy = evaluation.policy, !.ended = TRUE,
                             !.overLimit = OverLimit(elapsed)]
        ELSE [Decided EXCEPT !.controller = answered,
                             !.policy = IF changed THEN LP!BitrateChanged(known) ELSE known,
                             !.cause = CauseOf(delivered, answered),
                             !.calm = Calm(Healthy(evaluation), answered.target),
                             !.overLimit = OverLimit(elapsed)]

ObserveReceiver(elapsed) ==
    /\ ~ended
    /\ \E measured \in {Measurement(elapsed)} :
       \E outcome \in {Outcome(measured, elapsed)} :
        /\ controller' = outcome.controller
        /\ policy' = outcome.policy
        /\ cause' = outcome.cause
        /\ ended' = outcome.ended
        /\ calm' = outcome.calm
        /\ overLimit' = outcome.overLimit
    /\ UNCHANGED <<link, path>>

Report == ObserveReceiver(1) /\ UNCHANGED troubles

(* A report that waited for the one before it, or follows dropped ones.    *)
IrregularReport ==
    /\ troubles < MaxTroubles
    /\ \E elapsed \in {0, ReportGap + 1} : ObserveReceiver(elapsed)
    /\ troubles' = troubles + 1

-----------------------------------------------------------------------------
(* The sender between two reports.                                         *)

(* The session's queue has dropped a frame (observe_worker_queue_drop).    *)
QueueDrop ==
    /\ ~ended /\ troubles < MaxTroubles
    /\ controller' = ObserveSenderPressure(controller)
    /\ troubles' = troubles + 1
    /\ UNCHANGED <<policy, cause, ended, link, path, calm, overLimit>>

(* A frame could not be sent in time (observe_send_deadline_expired).      *)
DeadlineExpired ==
    /\ ~ended /\ troubles < MaxTroubles
    /\ controller' = ObserveSenderCongestion(controller)
    /\ IF controller'.target # controller.target
       THEN /\ policy' = LP!BitrateChanged(policy)
            /\ cause' = "sender congestion"
            /\ overLimit' = [ch \in Channels |-> LP!NotOver]
       ELSE UNCHANGED <<policy, cause, overLimit>>
    /\ calm' = Calm(FALSE, controller'.target)
    /\ troubles' = troubles + 1
    /\ UNCHANGED <<ended, link, path>>

GetWorse ==
    /\ ~ended /\ troubles < MaxTroubles
    /\ link' \in Links \ {Good, link}
    /\ troubles' = troubles + 1
    /\ UNCHANGED <<controller, policy, cause, ended, path, calm, overLimit>>

GetBetter ==
    /\ ~ended /\ link # Good
    /\ link' = Good
    /\ UNCHANGED <<controller, policy, cause, ended, path, troubles, calm, overLimit>>

(* The lowest round-trip time falls; the congestion window is fixed.       *)
PathGrows ==
    /\ ~ended /\ troubles < MaxTroubles
    /\ path' \in {p \in PathCapacities : p > path}
    /\ troubles' = troubles + 1
    /\ UNCHANGED <<controller, policy, cause, ended, link, calm, overLimit>>

Next == Report \/ IrregularReport \/ QueueDrop \/ DeadlineExpired \/ GetWorse \/ GetBetter
        \/ PathGrows

(* Reports come as long as the session lasts.                              *)
Spec == Init /\ [][Next]_vars /\ WF_vars(Report)

-----------------------------------------------------------------------------
(* All bitrates stay between the lowest and the selected one, and no       *)
(* counter leaves its range.                                               *)
TypeOK ==
    /\ controller \in ControllerType
    /\ policy \in LP!PolicyType
    /\ ended \in BOOLEAN /\ link \in Links /\ path \in PathCapacities
    /\ troubles \in 0..MaxTroubles /\ calm \in 0..Cooldown
    /\ overLimit \in [Channels -> LP!NotOver..FailureTime]

(* However many signs of trouble a report carries, loss and delay at once, *)
(* a failed probe or a failed climb: it costs at most a quarter of the     *)
(* bitrate.  The latency policy judges the target that the controller may  *)
(* already have lowered (video_stream.rs:163).                             *)
OneCutPerReport ==
    [][controller'.target >= Percentage(controller.target, 75)]_vars

(* The bitrate rises in a report without loss only, and when the healthy   *)
(* reports since the last cut fill the cooldown, whichever of the many     *)
(* cuts it was and whatever has overwritten the cooldown since.            *)
RiseEarned ==
    [][controller'.target > controller.target =>
        link.loss = "none" /\ calm' = Cooldown]_vars

(* The session is ended for its delay only when the reports of one channel *)
(* have been above the client's limit for the whole failure time, at the   *)
(* lowest bitrate and without a gap, a healthy report or a change between. *)
FailureJustified ==
    ended => \E ch \in Channels : overLimit[ch] = FailureTime

(* Once the link stays good the bitrate comes back to the highest that the *)
(* selection and the path allow, and stays there: no limit, backoff or     *)
(* memory of a bad time holds it down for good.                            *)
Recovers ==
    <>[](link = Good) =>
        <>[](ended \/ controller.target = Allowed(Least(Maximum, path)))
=============================================================================
