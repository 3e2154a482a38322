--------------------------- MODULE AdaptiveBitrate ---------------------------
(***************************************************************************)
(* The AdaptiveBitrateController of host-core/src/lib.rs: the state is one *)
(* record, each method an operator from the record to its successor.       *)
(*                                                                         *)
(* A bitrate is a natural number, 0 stands for None.  A report covers one  *)
(* unit of time; percentages are those of the code.  Left out: the         *)
(* capacity estimate, which is only displayed, and the branch for rising   *)
(* round-trip times, which the service turns off (use_measured_media_delay *)
(* is called by enable_latency_control before the first report).           *)
(***************************************************************************)
EXTENDS Integers, Sequences

CONSTANTS
    Bootstrap,          \* VIDEO_BITRATE_BOOTSTRAP, the lowest target
    Maximum,            \* maximum_bits_per_second
    Samples,            \* FAILED_PROBE_AVERAGE_SAMPLES, 5
    HealthyReports,     \* HEALTHY_REPORTS_BEFORE_RECOVERY
    SevereEvents,       \* SEVERE_SENDER_PRESSURE_EVENTS
    Cooldown,           \* RECOVERY_COOLDOWN_MICROS
    Attribution,        \* FAILED_PROBE_ATTRIBUTION_MICROS
    FastAttribution,    \* FAST_PROBE_ATTRIBUTION_MICROS
    ProbeInterval,      \* SOFT_CEILING_PROBE_INTERVAL_MICROS
    MaxProbeInterval,   \* MAXIMUM_PROBE_BACKOFF_MICROS
    BestHold,           \* HEALTHY_BEST_HOLD_MICROS
    ProvenHold,         \* PROVEN_HOLD
    ReturnRetry,        \* RETURN_RETRY_MICROS
    MaxReturnRetry      \* MAXIMUM_RETURN_RETRY_MICROS

ASSUME BitrateAssumption ==
    /\ Bootstrap \in Nat \ {0} /\ Maximum \in Nat /\ Bootstrap <= Maximum
    /\ Samples \in 1..5 /\ HealthyReports \in Nat \ {0} /\ SevereEvents \in Nat \ {0}
    /\ FastAttribution \in Nat \ {0} /\ Attribution \in Nat /\ FastAttribution <= Attribution
    /\ Cooldown \in Nat \ {0}
    /\ ProbeInterval \in Nat \ {0} /\ MaxProbeInterval \in Nat /\ ProbeInterval <= MaxProbeInterval
    /\ Cooldown <= ProbeInterval
    /\ BestHold \in Nat \ {0} /\ ProvenHold \in Nat /\ BestHold <= ProvenHold
    /\ ReturnRetry \in Nat \ {0} /\ MaxReturnRetry \in Nat /\ ReturnRetry <= MaxReturnRetry

None == 0
Least(a, b) == IF a <= b THEN a ELSE b
Most(a, b) == IF a >= b THEN a ELSE b
Percentage(value, percent) == (value * percent) \div 100

DegradedReports == 2
SenderReports == 2

NoProbe == [previous |-> None, target |-> None, elapsed |-> 0]
Probing(c) == c.probe # NoProbe

-----------------------------------------------------------------------------
(* A session starts at 70 % of what its startup probe measured, and that   *)
(* start is itself a probe; without a measurement it starts at the lowest. *)

StartTarget(measured) ==
    Most(Percentage(Least(measured, Maximum), 70), Bootstrap)

FromStartupProbe(measured) ==
    [ target |-> IF measured = 0 THEN Bootstrap ELSE StartTarget(measured),
      degraded |-> 0, healthy |-> 0, ceilingHealthy |-> 0, held |-> 0,
      best |-> None, returning |-> None, returnRetry |-> ReturnRetry, returnWait |-> 0,
      cooldown |-> 0, provisional |-> Least(measured, Maximum), latencyCeiling |-> None,
      failed |-> << >>,
      probe |-> IF measured = 0 THEN NoProbe
                ELSE [previous |-> None, target |-> StartTarget(measured), elapsed |-> 0],
      interval |-> ProbeInterval, step |-> 2,
      events |-> 0, severeCut |-> FALSE, senderStreak |-> 0, lossBefore |-> FALSE ]

-----------------------------------------------------------------------------
(* What is known of the link.                                              *)

(* The mean of the last failed probes, of which there are five at most.    *)
Sample(failed, i) == IF i <= Len(failed) THEN failed[i] ELSE 0
Total(failed) ==
    Sample(failed, 1) + Sample(failed, 2) + Sample(failed, 3) + Sample(failed, 4) + Sample(failed, 5)

SoftCeiling(c) ==
    IF Len(c.failed) < Samples THEN None ELSE Total(c.failed) \div Samples

DeliveryCeiling(c) ==
    IF SoftCeiling(c) # None THEN SoftCeiling(c) ELSE c.provisional

LowestKnown(a, b) == IF a = None THEN b ELSE IF b = None THEN a ELSE Least(a, b)

RecoveryCeiling(c) ==
    IF c.returning # None THEN c.returning
    ELSE LowestKnown(DeliveryCeiling(c), c.latencyCeiling)

NearCeiling(c) ==
    RecoveryCeiling(c) # None /\ c.target >= Percentage(RecoveryCeiling(c), 96)

HoldIsProven(c) == c.held >= ProvenHold

-----------------------------------------------------------------------------
(* Small state changes.                                                    *)

ResetWait(c) == [c EXCEPT !.healthy = 0, !.ceilingHealthy = 0]

LoseMomentum(c) == [c EXCEPT !.step = 2, !.interval = Least(2 * @, MaxProbeInterval)]

GainMomentum(c) ==
    [c EXCEPT !.step = Least(2 * @, 16), !.interval = Most(@ \div 2, ProbeInterval)]

(* A cut while the bitrate climbs back after a collapse ends the climb:    *)
(* the remembered bitrate shrinks and the next climb waits.                *)
EndReturn(c) ==
    IF c.returning = None THEN c
    ELSE [c EXCEPT !.returning = None,
                   !.best = Most(Percentage(c.returning, 75), c.target),
                   !.returnWait = c.returnRetry,
                   !.returnRetry = Least(2 * @, MaxReturnRetry)]

Allowed(target) == Least(Most(target, Bootstrap), Maximum)

Moved(c, target) == [c EXCEPT !.target = Allowed(target), !.held = 0]

(* Mutant of Cut: no cooldown is started.                                  *)
CutWithoutCooldown(c, target) ==
    IF Allowed(target) = c.target THEN c ELSE Moved(EndReturn(c), target)

(* set_target, for congestion.                                             *)
Cut(c, target) ==
    IF Allowed(target) = c.target THEN c
    ELSE Moved(EndReturn([c EXCEPT !.cooldown = Cooldown]), target)

(* set_recovery_target: a rise is a probe of the new target.               *)
Raise(c, target) ==
    IF Allowed(target) = c.target THEN c
    ELSE [Moved(c, target) EXCEPT
            !.probe = [previous |-> c.target, target |-> Allowed(target), elapsed |-> 0]]

-----------------------------------------------------------------------------
(* A failure while a probe runs is the probe's: its target becomes the     *)
(* limit.  At the edge of a known limit a failure without a probe counts   *)
(* as one.  A target that has proved itself is not blamed.                 *)

BlamedProbe(c) ==
    IF Probing(c) THEN c.probe
    ELSE IF c.cooldown = 0 /\ NearCeiling(c) /\ ~HoldIsProven(c)
         THEN [previous |-> c.target, target |-> c.target, elapsed |-> 0]
         ELSE NoProbe

Latest(failed, target) ==
    IF Len(failed) = Samples THEN Append(Tail(failed), target) ELSE Append(failed, target)

RecordProbeFailure(c) ==
    LET probe == BlamedProbe(c)
    IN  IF probe = NoProbe THEN c
        ELSE LoseMomentum([c EXCEPT !.probe = NoProbe,
                                    !.provisional = probe.target,
                                    !.failed = Latest(@, probe.target)])

(* Where a failed probe goes back to; None if there is nothing to go back  *)
(* to and the cut is an ordinary one.                                      *)
RollbackTarget(c) ==
    LET probe == BlamedProbe(c)
    IN  IF probe.previous # None THEN Least(probe.previous, Percentage(probe.target, 96))
        ELSE IF ~Probing(c) /\ c.cooldown = 0 /\ HoldIsProven(c) /\ NearCeiling(c)
             THEN Percentage(c.target, 96)
             ELSE None

(* rollback_failed_probe: the hold is judged before the target moves.      *)
Rollback(c, target) ==
    LET cut == Cut(c, target)
    IN  IF HoldIsProven(c) THEN cut ELSE [cut EXCEPT !.cooldown = cut.interval]

-----------------------------------------------------------------------------
(* Recovery.                                                               *)

(* Half of the way to 96 % of the limit, by steps of 3 to 25 %; by 10 %    *)
(* when no limit is known.                                                 *)
OrdinaryTarget(c) ==
    LET safe == Percentage(RecoveryCeiling(c), 96)
        half == (safe - c.target + 1) \div 2
        stride == Least(Most(half, Percentage(c.target, 3)), Percentage(c.target, 25))
    IN  IF RecoveryCeiling(c) = None THEN Percentage(c.target, 110)
        ELSE IF c.target >= safe THEN c.target
        ELSE Least(c.target + stride, safe)

ProbeTarget(c) == Percentage(c.target, 100 + c.step)

(* update_return_after_collapse.                                           *)
UpdateReturn(c) ==
    LET waited == [c EXCEPT !.returnWait = Most(@ - 1, 0)]
    IN  IF c.returning # None
        THEN IF c.target >= Percentage(c.returning, 96)
             THEN [c EXCEPT !.returning = None, !.provisional = c.returning,
                            !.returnRetry = ReturnRetry]
             ELSE c
        ELSE IF waited.returnWait = 0 /\ c.target < Percentage(c.best, 50)
        THEN [waited EXCEPT !.returning = c.best, !.failed = << >>,
                            !.provisional = None, !.latencyCeiling = None,
                            !.step = 2, !.interval = ProbeInterval]
        ELSE waited

AttributionTime(c) ==
    IF RecoveryCeiling(c) # None /\ c.probe.target < Percentage(RecoveryCeiling(c), 90)
    THEN FastAttribution ELSE Attribution

ProbeValidated(c) == Probing(c) /\ c.probe.elapsed + 1 >= AttributionTime(c)

(* Mutant of AdvanceProbe: a probe that has held stays active.             *)
KeepProbe(c) ==
    IF ~Probing(c) \/ ProbeValidated(c) THEN c
    ELSE [c EXCEPT !.probe.elapsed = @ + 1]

AdvanceProbe(c) ==
    IF ~Probing(c) THEN c
    ELSE IF ProbeValidated(c) THEN [c EXCEPT !.probe = NoProbe]
    ELSE [c EXCEPT !.probe.elapsed = @ + 1]

(* A validated target clearly above the delivery limit disproves it.       *)
ForgetPassedCeiling(c) ==
    IF DeliveryCeiling(c) # None /\ c.target > Percentage(DeliveryCeiling(c), 105)
    THEN [c EXCEPT !.failed = << >>, !.provisional = None, !.interval = ProbeInterval]
    ELSE c

AfterValidProbe(c) ==
    LET forgot == ForgetPassedCeiling(c)
        passed == \/ RecoveryCeiling(forgot) = None
                  \/ forgot.target >= RecoveryCeiling(forgot)
    IN  ResetWait(IF passed THEN GainMomentum(forgot) ELSE forgot)

(* A healthy report after the cooldown: wait, then rise, the wait and the  *)
(* step depending on how near the limit is.                                *)
Recover(c, path, cooled) ==
    LET up(d, target) == Raise(d, Least(target, path))
        returned == UpdateReturn(c)
        advanced == AdvanceProbe(returned)
        valid == AfterValidProbe(advanced)
        waitNear == [advanced EXCEPT !.healthy = 0, !.ceilingHealthy = @ + 1]
        waitFar == [advanced EXCEPT !.ceilingHealthy = 0, !.healthy = @ + 1]
    IN  CASE advanced.target = Maximum -> advanced
          [] advanced.target # Maximum /\ Probing(advanced) -> ResetWait(advanced)
          [] advanced.target # Maximum /\ ProbeValidated(returned) ->
                IF NearCeiling(valid) THEN valid ELSE up(valid, OrdinaryTarget(valid))
          [] OTHER ->
                IF cooled
                THEN up(ResetWait(advanced),
                        IF NearCeiling(advanced) THEN ProbeTarget(advanced)
                        ELSE OrdinaryTarget(advanced))
                ELSE IF NearCeiling(advanced)
                THEN IF waitNear.ceilingHealthy < advanced.interval THEN waitNear
                     ELSE up(ResetWait(advanced), ProbeTarget(advanced))
                ELSE IF waitFar.healthy < HealthyReports THEN waitFar
                     ELSE up(ResetWait(advanced), OrdinaryTarget(advanced))

(* The cooldown runs in healthy reports only.                              *)
Cool(c, path) ==
    LET cooled == [c EXCEPT !.cooldown = Most(@ - 1, 0)]
    IN  IF cooled.cooldown # 0 THEN ResetWait(cooled)
        ELSE Recover(cooled, path, c.cooldown # 0)

-----------------------------------------------------------------------------
(* A receiver report.  loss is what became of the chunks: "none", "some",  *)
(* "heavy" (2 % of them, two frames, or an overflow) or "sudden" (10 %).   *)

Losses == {"none", "some", "heavy", "sudden"}

(* What every report does to the counters.                                 *)
Count(c, loss) ==
    LET held == Least(c.held + 1, ProvenHold)
    IN  [c EXCEPT !.held = held,
                  !.best = IF held >= BestHold THEN Most(@, c.target) ELSE @,
                  !.events = 0, !.severeCut = FALSE,
                  !.senderStreak = IF c.events # 0 THEN Least(@ + 1, SenderReports) ELSE 0,
                  !.lossBefore = loss # "none"]

SevereLoss(c, loss) == loss = "sudden" \/ (loss = "heavy" /\ c.lossBefore)
SeverePath(c, path) == path < Percentage(c.target, 75)
Severe(c, loss, path) == SevereLoss(c, loss) \/ SeverePath(c, path)
Degraded(c, loss, path) == loss # "none" \/ path < c.target

(* Back to where the failed probe came from, or down by the given share.   *)
Fallback(c, percent) ==
    LET failed == RecordProbeFailure(c)
    IN  IF RollbackTarget(c) # None THEN Rollback(failed, RollbackTarget(c))
        ELSE Cut(failed, Percentage(c.target, percent))

AnswerSevere(c, severeLoss) ==
    LET reset == ResetWait([c EXCEPT !.degraded = 0])
    IN  IF severeLoss THEN Fallback(reset, 75)
        ELSE Cut(RecordProbeFailure(reset), Percentage(c.target, 75))

AnswerDegraded(c) ==
    LET reset == ResetWait(c)
    IN  IF c.degraded + 1 < DegradedReports THEN [reset EXCEPT !.degraded = @ + 1]
        ELSE Fallback([reset EXCEPT !.degraded = 0], 90)

AnswerSender(c, alreadyCut) ==
    LET reset == ResetWait(c)
    IN  IF alreadyCut \/ c.senderStreak < SenderReports THEN reset
        ELSE Cut(RecordProbeFailure(reset), Percentage(c.target, 90))

(* observe_with_recovery.                                                  *)
ObserveDelivery(c, loss, path, allowIncrease) ==
    LET counted == Count(c, loss)
        calm == [counted EXCEPT !.degraded = 0]
    IN  IF Severe(c, loss, path) THEN AnswerSevere(counted, SevereLoss(c, loss))
        ELSE IF Degraded(c, loss, path) THEN AnswerDegraded(counted)
        ELSE IF c.events # 0 THEN AnswerSender(calm, c.severeCut)
        ELSE IF ~allowIncrease THEN [calm EXCEPT !.healthy = 0]
        ELSE Cool(calm, path)

DeliveryCause(c, loss, path) ==
    IF SevereLoss(c, loss) THEN "severe receiver loss"
    ELSE IF SeverePath(c, path) THEN "severe path pressure"
    ELSE IF Degraded(c, loss, path) THEN "mild degradation"
    ELSE IF c.events # 0 THEN "sender congestion"
    ELSE "healthy delivery"

-----------------------------------------------------------------------------
(* Events of the sender between two reports.                               *)

ObserveSenderPressure(c) ==
    [ResetWait(c) EXCEPT !.degraded = 0, !.events = Least(@ + 1, SevereEvents)]

ObserveSenderCongestion(c) ==
    LET pressed == ObserveSenderPressure(c)
    IN  IF pressed.events < SevereEvents \/ c.severeCut THEN pressed
        ELSE Cut(RecordProbeFailure([pressed EXCEPT !.severeCut = TRUE]),
                 Percentage(c.target, 75))

(* The answer to delay that the latency policy asks for.  The cooldown is  *)
(* set even when the target is already there.                              *)
SetLatencyTarget(c, target, cooldown) ==
    LET reset == ResetWait([c EXCEPT !.probe = NoProbe])
        slowed == IF HoldIsProven(c) THEN reset ELSE LoseMomentum(reset)
    IN  [Cut(slowed, target) EXCEPT !.cooldown = cooldown]

ControllerType ==
    [ target : Bootstrap..Maximum, degraded : 0..DegradedReports - 1,
      healthy : 0..HealthyReports, ceilingHealthy : 0..MaxProbeInterval, held : 0..ProvenHold,
      best : 0..Maximum, returning : 0..Maximum,
      returnRetry : ReturnRetry..MaxReturnRetry, returnWait : 0..MaxReturnRetry,
      cooldown : Nat, provisional : 0..Maximum, latencyCeiling : 0..Maximum,
      failed : Seq(Bootstrap..Maximum),
      probe : [previous : 0..Maximum, target : 0..Maximum, elapsed : 0..Attribution],
      interval : ProbeInterval..MaxProbeInterval, step : {2, 4, 8, 16},
      events : 0..SevereEvents, severeCut : BOOLEAN, senderStreak : 0..SenderReports,
      lossBefore : BOOLEAN ]
=============================================================================
