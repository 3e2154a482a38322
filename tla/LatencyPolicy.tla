---------------------------- MODULE LatencyPolicy ----------------------------
(***************************************************************************)
(* The LatencyPolicy of host-core/src/latency.rs: baselines, budgets, the  *)
(* latency limit, and the failure at the minimum bitrate.  The state is a  *)
(* record; points in time are kept as ages, capped where they no longer    *)
(* matter.                                                                 *)
(*                                                                         *)
(* A delay is a natural number, 0 a missing measurement; bitrates are as   *)
(* in AdaptiveBitrate.  Left out: the status and score, which are only     *)
(* displayed.  The code reads bitrate / 100 * n where this module takes    *)
(* the percentage, a difference of less than 100 bit/s.                    *)
(***************************************************************************)
EXTENDS Integers, Sequences, SequencesExt

CONSTANTS
    Channels,           \* video, audio, input
    Absolute,           \* the client's maximum delay
    Variation,          \* 20 ms, the least allowance above a baseline
    BaselineSamples,    \* BASELINE_SAMPLES
    Settle,             \* SETTLE
    FailureTime,        \* FAILURE_TIME
    ProbeTime,          \* PROBE_TIME
    IncidentTime,       \* INCIDENT_TIME
    CutSpacing,         \* CUT_SPACING
    LatencyHold,        \* PROVEN_HOLD
    ReportGap,          \* the two seconds after which an observation starts anew
    Retry,              \* retry_seconds of a new policy
    MaxRetry,           \* its limit
    LowestBitrate       \* VIDEO_BITRATE_BOOTSTRAP

NotOver == -1
Unlimited == 0
Capped(time, limit) == IF time <= limit THEN time ELSE limit
Higher(a, b) == IF a >= b THEN a ELSE b
Percent(value, percent) == (value * percent) \div 100

NewPolicy ==
    [ channels |-> [ch \in Channels |-> [calibration |-> << >>, baseline |-> 0, over |-> NotOver]],
      changed |-> 0, streak |-> 0, ceiling |-> Unlimited, retry |-> Retry,
      sinceCut |-> IncidentTime, cutPressure |-> 0 ]

(* delay_budget.                                                           *)
Budget(baseline) == Capped(baseline + Higher(baseline, Variation), Absolute)

(* The pressure in thousandths.                                            *)
PressureOf(delay, baseline) ==
    IF Budget(baseline) > baseline
    THEN (Higher(delay - baseline, 0) * 1000) \div (Budget(baseline) - baseline)
    ELSE (delay * 1000) \div Budget(baseline)

-----------------------------------------------------------------------------
Aged(channel, elapsed) ==
    [channel EXCEPT !.over = IF @ = NotOver THEN NotOver ELSE Capped(@ + elapsed, FailureTime)]

Elapse(p, elapsed) ==
    [p EXCEPT !.changed = Capped(@ + elapsed, LatencyHold),
              !.sinceCut = Capped(@ + elapsed, IncidentTime),
              !.channels = [ch \in Channels |-> Aged(@[ch], elapsed)]]

StopClocks(p) ==
    [p EXCEPT !.channels = [ch \in Channels |-> [@[ch] EXCEPT !.over = NotOver]]]

(* Mutant of ResetObservation: the failure clocks go on over a gap.        *)
ResetStreak(p) == [p EXCEPT !.streak = 0]

ResetObservation(p) == StopClocks([p EXCEPT !.streak = 0])

BitrateChanged(p) == StopClocks([p EXCEPT !.changed = 0])

ForgetCeiling(p) == [p EXCEPT !.ceiling = Unlimited]

(* samples[1] of a sorted window: the lowest that two samples reach.       *)
SecondLowest(window) ==
    Min({window[i] : i \in {j \in DOMAIN window :
                              \E k \in DOMAIN window \ {j} : window[k] <= window[j]}})

(* It is the baseline, if it is lower than what is known.                  *)
Calibrated(channel, delay) ==
    LET window == IF Len(channel.calibration) = BaselineSamples
                  THEN Append(Tail(channel.calibration), delay)
                  ELSE Append(channel.calibration, delay)
        second == SecondLowest(window)
        known == channel.baseline
    IN  [channel EXCEPT !.calibration = window,
                        !.baseline = IF Len(window) < BaselineSamples THEN known
                                     ELSE IF known = 0 THEN second
                                     ELSE Capped(second, known)]

(* One channel in one report: at the minimum bitrate the time above the    *)
(* client's limit is counted without interruption.                         *)
Observed(channel, delay, active, settled, bitrate) ==
    LET c == IF settled THEN Calibrated(channel, delay) ELSE channel
        fatal == /\ settled /\ bitrate = LowestBitrate
                 /\ delay > Budget(c.baseline) /\ delay > Absolute
    IN  IF ~active \/ delay = 0 THEN [channel EXCEPT !.over = NotOver]
        ELSE IF c.baseline = 0 THEN c
        ELSE [c EXCEPT !.over = IF fatal THEN Higher(@, 0) ELSE NotOver]

-----------------------------------------------------------------------------
(* report.delay, report.active and report.presented, which says that the   *)
(* player has presented the current bitrate.                               *)

Settled(p, report) == p.changed >= Settle /\ report.presented

(* The clocks and channels after a report that comes elapsed after the     *)
(* last one.                                                               *)
Measure(p, report, bitrate, elapsed) ==
    LET aged == Elapse(p, elapsed)
        fresh == IF elapsed > ReportGap THEN ResetObservation(aged) ELSE aged
    IN  [fresh EXCEPT !.channels = [ch \in Channels |->
            Observed(@[ch], report.delay[ch], ch \in report.active,
                     Settled(aged, report), bitrate)]]

(* The channels whose delay can be compared with a baseline.               *)
Comparable(m, report) ==
    {ch \in report.active : report.delay[ch] # 0 /\ m.channels[ch].baseline # 0}

Pressures(m, report) ==
    {PressureOf(report.delay[ch], m.channels[ch].baseline) : ch \in Comparable(m, report)}

Pressure(m, report) == FoldSet(Higher, 0, Pressures(m, report))

Excessive(m, report) ==
    \E ch \in Comparable(m, report) : report.delay[ch] > Budget(m.channels[ch].baseline)

Ready(m, report) == Settled(m, report) /\ Comparable(m, report) = report.active

Failed(m) == \E ch \in Channels : m.channels[ch].over >= FailureTime

(* A cut that did not lower the delay is not repeated at once, unless the  *)
(* delay clearly worsens.                                                  *)
Repeated(m, pressure) == m.sinceCut < CutSpacing /\ 4 * pressure < 5 * m.cutPressure

NewIncident(m) == m.sinceCut >= IncidentTime

LearnCeiling(p, bitrate) ==
    [p EXCEPT !.ceiling = bitrate, !.retry = Capped(2 * @, MaxRetry)]

NearLimit(m, bitrate) == m.ceiling # Unlimited /\ bitrate >= Percent(m.ceiling, 90)

ReduceTo(m, bitrate) ==
    IF NewIncident(m) /\ NearLimit(m, bitrate) THEN Percent(bitrate, 96)
    ELSE (bitrate * 3) \div 4

CutFor(m, pressure, bitrate) ==
    LET cut == [m EXCEPT !.sinceCut = 0, !.cutPressure = pressure]
    IN  IF NewIncident(m) /\ m.changed < LatencyHold THEN LearnCeiling(cut, bitrate) ELSE cut

Evaluation(p, allow, reduce) == [policy |-> p, allowIncrease |-> allow, reduceTo |-> reduce]

(* The second excessive report in a row is answered, above the minimum.    *)
AnswerExcess(m, pressure, bitrate) ==
    LET answered == [m EXCEPT !.streak = 0]
    IN  IF m.streak + 1 < 2 \/ bitrate <= LowestBitrate
        THEN Evaluation([m EXCEPT !.streak = Capped(@ + 1, 2)], FALSE, 0)
        ELSE IF Repeated(m, pressure) THEN Evaluation(answered, FALSE, 0)
        ELSE Evaluation(CutFor(answered, pressure, bitrate), FALSE, ReduceTo(m, bitrate))

(* A bitrate above the limit that has held raises the limit.               *)
RaiseCeiling(p, bitrate) ==
    IF p.ceiling # Unlimited /\ bitrate > p.ceiling /\ p.changed >= ProbeTime
    THEN [p EXCEPT !.ceiling = bitrate, !.retry = Retry] ELSE p

(* What the policy says of a report that it has measured.                  *)
ObserveDelay(m, report, bitrate) ==
    LET pressure == Pressure(m, report)
        calm == [m EXCEPT !.streak = 0]
    IN  IF ~Settled(m, report) THEN Evaluation(calm, FALSE, 0)
        ELSE IF Excessive(m, report) THEN AnswerExcess(m, pressure, bitrate)
        ELSE IF ~Ready(m, report) THEN Evaluation(calm, FALSE, 0)
        ELSE Evaluation(RaiseCeiling(calm, bitrate), pressure < 500, 0)

PolicyType ==
    [ channels : [Channels -> [calibration : Seq(Nat), baseline : Nat,
                               over : NotOver..FailureTime]],
      changed : 0..LatencyHold, streak : 0..2, ceiling : Nat, retry : Retry..MaxRetry,
      sinceCut : 0..IncidentTime, cutPressure : Nat ]
=============================================================================
