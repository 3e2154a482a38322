------------------------ MODULE BitrateControlProofs ------------------------
(***************************************************************************)
(* Proofs about BitrateControl, for every value of its constants.          *)
(***************************************************************************)
EXTENDS BitrateControl, SequenceTheorems, WellFoundedInduction, TLAPS

-----------------------------------------------------------------------------
(* Arithmetic.                                                             *)

LEMMA Bounds ==
    /\ Bootstrap \in Nat /\ Bootstrap > 0 /\ Maximum \in Nat /\ Bootstrap <= Maximum
    /\ Cooldown \in Nat /\ Cooldown > 0
    /\ ProbeInterval \in Nat /\ MaxProbeInterval \in Nat /\ ProbeInterval > 0
    /\ Cooldown <= ProbeInterval /\ ProbeInterval <= MaxProbeInterval
    /\ Attribution \in Nat /\ FastAttribution \in Nat
    /\ FastAttribution > 0 /\ FastAttribution <= Attribution
    /\ ReturnRetry \in Nat /\ MaxReturnRetry \in Nat
    /\ ReturnRetry > 0 /\ ReturnRetry <= MaxReturnRetry
    /\ BestHold \in Nat /\ ProvenHold \in Nat /\ HealthyReports \in Nat /\ HealthyReports > 0
    /\ SevereEvents \in Nat /\ SevereEvents > 0
    /\ Samples \in 1..5
  BY BitrateAssumption

LEMMA AllowedRange ==
    ASSUME NEW t \in Int
    PROVE  /\ Allowed(t) \in Bootstrap..Maximum
           /\ t <= Maximum => Allowed(t) >= t
           /\ t >= Bootstrap => Allowed(t) <= t
  BY Bounds DEF Allowed, Least, Most

LEMMA Shares ==
    ASSUME NEW t \in Nat
    PROVE  /\ Percentage(t, 75) \in Nat /\ Percentage(t, 90) \in Nat /\ Percentage(t, 96) \in Nat
           /\ Percentage(t, 75) <= t /\ Percentage(t, 90) <= t /\ Percentage(t, 96) <= t
           /\ Percentage(t, 75) <= Percentage(t, 90)
           /\ Percentage(t, 75) <= Percentage(t, 96)
           /\ (t * 3) \div 4 = Percentage(t, 75)
  BY DEF Percentage

-----------------------------------------------------------------------------
(* The controller alone.  ProbeKept: the active probe is one of the        *)
(* current target, and where it came from is not far below.                *)

ProbeKept(c) ==
    Probing(c) =>
        /\ c.probe.target = c.target
        /\ c.probe.previous # None => c.probe.previous >= Percentage(c.target, 75)

Sound(c) == c \in ControllerType /\ ProbeKept(c)

LEMMA StartSound ==
    ASSUME NEW measured \in Nat
    PROVE  Sound(FromStartupProbe(measured)) 
  BY Bounds, AllowedRange DEF FromStartupProbe, StartTarget, Sound, ProbeKept, Probing, NoProbe,
     ControllerType, None, Least, Most, Percentage, DegradedReports, SenderReports
(* d is c but for counters.                                                *)
Same(c, d) == Sound(d) /\ d.target = c.target /\ d.cooldown = c.cooldown

(* d is what an answer to trouble makes of c.                              *)
Lowered(c, d) ==
    /\ Sound(d)
    /\ d.target >= Percentage(c.target, 75) /\ d.target <= c.target
    /\ d.cooldown >= Cooldown \/ (d.cooldown = c.cooldown /\ d.target = c.target)

(* What the provers need of the record to see a change of other fields.    *)
LEMMA Fields ==
    ASSUME NEW c \in ControllerType
    PROVE  /\ c.target \in Bootstrap..Maximum /\ c.cooldown \in Nat /\ c.degraded \in {0, 1}
           /\ c.healthy \in 0..HealthyReports /\ c.ceilingHealthy \in 0..MaxProbeInterval
           /\ c.held \in 0..ProvenHold /\ c.best \in 0..Maximum /\ c.returning \in 0..Maximum
           /\ c.returnRetry \in ReturnRetry..MaxReturnRetry /\ c.returnWait \in 0..MaxReturnRetry
           /\ c.provisional \in 0..Maximum /\ c.latencyCeiling \in 0..Maximum
           /\ c.failed \in Seq(Bootstrap..Maximum)
           /\ c.probe.previous \in 0..Maximum /\ c.probe.target \in 0..Maximum
           /\ c.probe.elapsed \in 0..Attribution
           /\ c.probe = [previous |-> c.probe.previous, target |-> c.probe.target,
                         elapsed |-> c.probe.elapsed]
           /\ c.interval \in ProbeInterval..MaxProbeInterval /\ c.step \in {2, 4, 8, 16}
           /\ c.events \in 0..SevereEvents /\ c.senderStreak \in 0..SenderReports
<1>1. /\ c.target \in Bootstrap..Maximum /\ c.cooldown \in Nat
      /\ c.degraded \in 0..DegradedReports - 1
      /\ c.healthy \in 0..HealthyReports /\ c.ceilingHealthy \in 0..MaxProbeInterval
      /\ c.held \in 0..ProvenHold /\ c.best \in 0..Maximum /\ c.returning \in 0..Maximum
  BY Zenon DEF ControllerType
<1>2. /\ c.returnRetry \in ReturnRetry..MaxReturnRetry /\ c.returnWait \in 0..MaxReturnRetry
      /\ c.provisional \in 0..Maximum /\ c.latencyCeiling \in 0..Maximum
      /\ c.failed \in Seq(Bootstrap..Maximum)
      /\ c.interval \in ProbeInterval..MaxProbeInterval /\ c.step \in {2, 4, 8, 16}
      /\ c.events \in 0..SevereEvents /\ c.senderStreak \in 0..SenderReports
  BY Zenon DEF ControllerType
<1>3. c.probe \in [previous : 0..Maximum, target : 0..Maximum, elapsed : 0..Attribution]
  BY Zenon DEF ControllerType
<1>4. c.degraded \in {0, 1}
  BY <1>1 DEF DegradedReports
<1>5. /\ c.probe.previous \in 0..Maximum /\ c.probe.target \in 0..Maximum
      /\ c.probe.elapsed \in 0..Attribution
      /\ c.probe = [previous |-> c.probe.previous, target |-> c.probe.target,
                    elapsed |-> c.probe.elapsed]
  BY <1>3
<1> QED
  BY <1>1, <1>2, <1>4, <1>5

LEMMA Numbers ==
    ASSUME NEW c, Sound(c)
    PROVE  c.target \in Nat /\ c.target > 0 /\ c.target <= Maximum /\ c.target >= Bootstrap
           /\ c.cooldown \in Nat
<1>1. c.target \in Bootstrap..Maximum /\ c.cooldown \in Nat
  BY Fields DEF Sound
<1> QED
  BY <1>1, Bounds

LEMMA Zeros ==
    /\ 0 \in 0..HealthyReports /\ 0 \in 0..MaxProbeInterval /\ 0 \in 0..ProvenHold
    /\ 0 \in 0..SevereEvents /\ 0 \in 0..DegradedReports - 1 /\ 0 \in 0..SenderReports
    /\ 0 \in 0..MaxReturnRetry /\ None \in 0..Maximum /\ ProbeInterval \in ProbeInterval..MaxProbeInterval
    /\ ReturnRetry \in ReturnRetry..MaxReturnRetry /\ 2 \in {2, 4, 8, 16}
    /\ << >> \in Seq(Bootstrap..Maximum)
    /\ NoProbe \in [previous : 0..Maximum, target : 0..Maximum, elapsed : 0..Attribution]
    /\ TRUE \in BOOLEAN /\ FALSE \in BOOLEAN /\ Cooldown \in Nat
  BY Bounds DEF DegradedReports, SenderReports, None, NoProbe

LEMMA ResetWaitSame ==
    ASSUME NEW c, Sound(c)
    PROVE  Same(c, ResetWait(c)) /\ ResetWait(c).probe = c.probe
<1>1. ResetWait(c) \in ControllerType
  BY Zeros, Zenon DEF ResetWait, Sound, ControllerType
<1>2. /\ ResetWait(c).target = c.target /\ ResetWait(c).cooldown = c.cooldown
      /\ ResetWait(c).probe = c.probe
  BY DEF ResetWait, Sound, ControllerType
<1> QED
  BY <1>1, <1>2 DEF Same, Sound, ProbeKept, Probing

LEMMA MomentumSame ==
    ASSUME NEW c, Sound(c)
    PROVE  /\ Same(c, LoseMomentum(c)) /\ LoseMomentum(c).probe = c.probe
           /\ Same(c, GainMomentum(c)) /\ GainMomentum(c).probe = c.probe
<1>1. c.interval \in ProbeInterval..MaxProbeInterval /\ c.step \in {2, 4, 8, 16}
  BY Fields DEF Sound
<1>2. /\ Least(2 * c.interval, MaxProbeInterval) \in ProbeInterval..MaxProbeInterval
      /\ Most(c.interval \div 2, ProbeInterval) \in ProbeInterval..MaxProbeInterval
      /\ Least(2 * c.step, 16) \in {2, 4, 8, 16}
  BY <1>1, Bounds DEF Least, Most
<1>3. LoseMomentum(c) \in ControllerType /\ GainMomentum(c) \in ControllerType
  BY <1>2, Zeros, Zenon DEF LoseMomentum, GainMomentum, Sound, ControllerType
<1>4. /\ LoseMomentum(c).target = c.target /\ LoseMomentum(c).cooldown = c.cooldown
      /\ LoseMomentum(c).probe = c.probe
      /\ GainMomentum(c).target = c.target /\ GainMomentum(c).cooldown = c.cooldown
      /\ GainMomentum(c).probe = c.probe
  BY DEF LoseMomentum, GainMomentum, Sound, ControllerType
<1> QED
  BY <1>3, <1>4 DEF Same, Sound, ProbeKept, Probing

LEMMA CountSame ==
    ASSUME NEW c, Sound(c), NEW loss
    PROVE  Same(c, Count(c, loss)) /\ Count(c, loss).probe = c.probe
<1>1. /\ Least(c.held + 1, ProvenHold) \in 0..ProvenHold
      /\ Most(c.best, c.target) \in 0..Maximum /\ c.best \in 0..Maximum
      /\ Least(c.senderStreak + 1, SenderReports) \in 0..SenderReports
  <2>1. /\ c.held \in 0..ProvenHold /\ c.best \in 0..Maximum /\ c.target \in Bootstrap..Maximum
        /\ c.senderStreak \in 0..SenderReports
    BY Fields DEF Sound
  <2> QED
    BY <2>1, Bounds DEF Least, Most, SenderReports
<1>2. (loss # "none") \in BOOLEAN
  OBVIOUS
<1>3. Count(c, loss) \in ControllerType
  BY <1>1, <1>2, Zeros, Zenon DEF Count, Sound, ControllerType
<1>4. /\ Count(c, loss).target = c.target /\ Count(c, loss).cooldown = c.cooldown
      /\ Count(c, loss).probe = c.probe
  BY DEF Count, Sound, ControllerType
<1> QED
  BY <1>3, <1>4 DEF Same, Sound, ProbeKept, Probing

LEMMA LatestIn ==
    ASSUME NEW S, NEW failed \in Seq(S), NEW target \in S
    PROVE  Latest(failed, target) \in Seq(S)
<1>1. CASE Len(failed) = Samples
  <2>1. failed # << >>
    BY <1>1, Bounds
  <2>2. Tail(failed) \in Seq(S)
    BY <2>1, HeadTailProperties
  <2> QED
    BY <1>1, <2>2, AppendProperties DEF Latest
<1>2. CASE Len(failed) # Samples
  BY <1>2, AppendProperties DEF Latest
<1> QED
  BY <1>1, <1>2

(* A failure takes the probe it is charged to away.                        *)
LEMMA FailureSame ==
    ASSUME NEW c, Sound(c)
    PROVE  Same(c, RecordProbeFailure(c)) /\ ~Probing(RecordProbeFailure(c))
<1> DEFINE probe == BlamedProbe(c)
           d == [c EXCEPT !.probe = NoProbe, !.provisional = probe.target,
                          !.failed = Latest(@, probe.target)]
<1>1. CASE probe = NoProbe
  <2>1. RecordProbeFailure(c) = c /\ ~Probing(c)
    BY <1>1, Fields, Bounds DEF RecordProbeFailure, BlamedProbe, Probing, NoProbe, None, Sound
  <2> QED
    BY <2>1 DEF Same
<1>2. CASE probe # NoProbe
  <2>1. probe.target = c.target
    BY <1>2 DEF BlamedProbe, Sound, ProbeKept
  <2>2. /\ c.target \in Bootstrap..Maximum /\ c.target \in 0..Maximum
        /\ c.failed \in Seq(Bootstrap..Maximum)
    <3>1. c.target \in Bootstrap..Maximum /\ c.failed \in Seq(Bootstrap..Maximum)
      BY Fields DEF Sound
    <3> QED
      BY <3>1, Bounds
  <2>3. Latest(c.failed, c.target) \in Seq(Bootstrap..Maximum)
    BY <2>2, LatestIn
  <2>4a. d \in ControllerType
    BY <2>1, <2>2, <2>3, Zeros, Zenon DEF Sound, ControllerType
  <2>4b. d.target = c.target /\ d.cooldown = c.cooldown /\ d.probe = NoProbe
    BY DEF Sound, ControllerType
  <2>4. Same(c, d) /\ d.probe = NoProbe
    BY <2>4a, <2>4b DEF Same, Sound, ProbeKept, Probing
  <2>5. Sound(d)
    BY <2>4 DEF Same
  <2>6. RecordProbeFailure(c) = LoseMomentum(d)
    BY <1>2 DEF RecordProbeFailure
  <2> HIDE DEF d
  <2> QED
    BY <2>4, <2>5, <2>6, MomentumSame DEF Same, Probing
<1> QED
  BY <1>1, <1>2

LEMMA EndReturnSame ==
    ASSUME NEW c, Sound(c)
    PROVE  Same(c, EndReturn(c)) /\ EndReturn(c).probe = c.probe
<1>1. CASE c.returning = None
  BY <1>1 DEF EndReturn, Same
<1>2. CASE c.returning # None
  <2>1. /\ c.returning \in 0..Maximum /\ c.target \in Bootstrap..Maximum
        /\ c.returnRetry \in ReturnRetry..MaxReturnRetry
    BY Fields DEF Sound
  <2>2. /\ Most(Percentage(c.returning, 75), c.target) \in 0..Maximum
        /\ Least(2 * c.returnRetry, MaxReturnRetry) \in ReturnRetry..MaxReturnRetry
        /\ c.returnRetry \in 0..MaxReturnRetry
    BY <2>1, Bounds DEF Most, Least, Percentage
  <2>3. EndReturn(c) \in ControllerType
    BY <1>2, <2>2, Zeros, Zenon DEF EndReturn, Sound, ControllerType
  <2>4. /\ EndReturn(c).target = c.target /\ EndReturn(c).cooldown = c.cooldown
        /\ EndReturn(c).probe = c.probe
    BY <1>2 DEF EndReturn, Sound, ControllerType
  <2> QED
    BY <2>3, <2>4 DEF Same, Sound, ProbeKept, Probing
<1> QED
  BY <1>1, <1>2

(* A cut, with no probe active.                                            *)
LEMMA CutLowers ==
    ASSUME NEW c, Sound(c), ~Probing(c), NEW target \in Nat, target <= c.target
    PROVE  /\ Sound(Cut(c, target))
           /\ Cut(c, target).target >= target /\ Cut(c, target).target <= c.target
           /\ \/ Cut(c, target).cooldown = Cooldown
              \/ Cut(c, target).cooldown = c.cooldown /\ Cut(c, target).target = c.target
<1>0. c.target \in Nat /\ c.target <= Maximum /\ c.target >= Bootstrap
  BY Numbers
<1>1. CASE Allowed(target) = c.target
  BY <1>0, <1>1 DEF Cut
<1>2. CASE Allowed(target) # c.target
  <2> DEFINE cooled == [c EXCEPT !.cooldown = Cooldown]
             e == EndReturn(cooled)
  <2>1. Sound(cooled) /\ cooled.target = c.target /\ cooled.cooldown = Cooldown /\ cooled.probe = c.probe
    <3>1. cooled \in ControllerType
      BY Zeros, Zenon DEF Sound, ControllerType
    <3>2. cooled.target = c.target /\ cooled.cooldown = Cooldown /\ cooled.probe = c.probe
      BY DEF Sound, ControllerType
    <3> QED
      BY <3>1, <3>2 DEF Sound, ProbeKept, Probing
  <2> HIDE DEF cooled
  <2>2. Sound(e) /\ e.target = c.target /\ e.cooldown = Cooldown /\ e.probe = c.probe
    BY <2>1, EndReturnSame DEF Same
  <2>3. Cut(c, target) = Moved(e, target)
    BY <1>2 DEF Cut, cooled
  <2> HIDE DEF e
  <2>4. /\ Allowed(target) \in Bootstrap..Maximum
        /\ Allowed(target) >= target /\ Allowed(target) <= c.target
    BY <1>0, Bounds DEF Allowed, Least, Most
  <2>5. /\ Moved(e, target) \in ControllerType /\ Moved(e, target).target = Allowed(target)
        /\ Moved(e, target).cooldown = Cooldown /\ Moved(e, target).probe = c.probe
    <3>1. Moved(e, target) \in ControllerType
      BY <2>2, <2>4, Zeros, Zenon DEF Moved, Sound, ControllerType
    <3>2. /\ Moved(e, target).target = Allowed(target)
          /\ Moved(e, target).cooldown = e.cooldown /\ Moved(e, target).probe = e.probe
      BY <2>2 DEF Moved, Sound, ControllerType
    <3> QED
      BY <2>2, <3>1, <3>2
  <2>6. Sound(Cut(c, target))
    BY <2>3, <2>5 DEF Sound, ProbeKept, Probing
  <2> QED
    BY <2>3, <2>4, <2>5, <2>6
<1> QED
  BY <1>1, <1>2

-----------------------------------------------------------------------------
(* Recovery: no step of it lowers the target, and a rise is small enough   *)
(* to be undone as a cut.                                                  *)

Raised(c, d) == Sound(d) /\ d.target >= c.target /\ d.cooldown = c.cooldown

LEMMA UpdateReturnSame ==
    ASSUME NEW c, Sound(c)
    PROVE  Same(c, UpdateReturn(c)) /\ UpdateReturn(c).probe = c.probe
<1>1. /\ c.returnWait \in 0..MaxReturnRetry /\ c.returning \in 0..Maximum /\ c.best \in 0..Maximum
  BY Fields DEF Sound
<1>2. Most(c.returnWait - 1, 0) \in 0..MaxReturnRetry
  BY <1>1, Bounds DEF Most
<1> DEFINE waited == [c EXCEPT !.returnWait = Most(@ - 1, 0)]
           reached == [c EXCEPT !.returning = None, !.provisional = c.returning,
                                !.returnRetry = ReturnRetry]
           started == [waited EXCEPT !.returning = c.best, !.failed = << >>,
                                     !.provisional = None, !.latencyCeiling = None,
                                     !.step = 2, !.interval = ProbeInterval]
<1>3. waited \in ControllerType /\ reached \in ControllerType
  BY <1>1, <1>2, Zeros, Zenon DEF Sound, ControllerType
<1>4. /\ waited.target = c.target /\ waited.cooldown = c.cooldown /\ waited.probe = c.probe
      /\ reached.target = c.target /\ reached.cooldown = c.cooldown /\ reached.probe = c.probe
  BY DEF Sound, ControllerType
<1>5. started \in ControllerType
  <2> HIDE DEF waited
  <2> QED
    BY <1>1, <1>3, Zeros, Zenon DEF ControllerType
<1>6. started.target = c.target /\ started.cooldown = c.cooldown /\ started.probe = c.probe
  <2> HIDE DEF waited
  <2> QED
    BY <1>3, <1>4 DEF ControllerType
<1>7. UpdateReturn(c) \in {c, waited, reached, started}
  BY DEF UpdateReturn
<1> HIDE DEF waited, reached, started
<1> QED
  BY <1>3, <1>4, <1>5, <1>6, <1>7 DEF Same, Sound, ProbeKept, Probing

LEMMA AttributionBound ==
    ASSUME NEW c
    PROVE  AttributionTime(c) \in 0..Attribution
  BY Bounds DEF AttributionTime

LEMMA AdvanceProbeSame ==
    ASSUME NEW c, Sound(c)
    PROVE  Same(c, AdvanceProbe(c)) 
<1> DEFINE gone == [c EXCEPT !.probe = NoProbe]
           older == [c EXCEPT !.probe.elapsed = @ + 1]
<1>1. CASE ~Probing(c)
  BY <1>1 DEF AdvanceProbe, Same
<1>2. CASE ProbeValidated(c)
  <2>1. gone \in ControllerType
    BY Zeros, Zenon DEF Sound, ControllerType
  <2>2. gone.target = c.target /\ gone.cooldown = c.cooldown /\ gone.probe = NoProbe
    BY DEF Sound, ControllerType
  <2>3. AdvanceProbe(c) = gone
    BY <1>2 DEF AdvanceProbe, ProbeValidated
  <2> HIDE DEF gone
  <2> QED
    BY <2>1, <2>2, <2>3 DEF Same, Sound, ProbeKept, Probing
<1>3. CASE Probing(c) /\ ~ProbeValidated(c)
  <2>1. c.probe.elapsed + 1 \in 0..Attribution
    <3>1. c.probe.elapsed \in 0..Attribution
      BY Fields DEF Sound
    <3>2. ~(c.probe.elapsed + 1 >= AttributionTime(c))
      BY <1>3 DEF ProbeValidated
    <3> QED
      BY <3>1, <3>2, AttributionBound, Bounds
  <2>2. older \in ControllerType
    BY <2>1, Zenon DEF Sound, ControllerType
  <2>3. /\ older.target = c.target /\ older.cooldown = c.cooldown
        /\ older.probe.target = c.probe.target /\ older.probe.previous = c.probe.previous
    BY DEF Sound, ControllerType
  <2>4. AdvanceProbe(c) = older
    BY <1>3 DEF AdvanceProbe
  <2> HIDE DEF older
  <2> QED
    BY <1>3, <2>2, <2>3, <2>4 DEF Same, Sound, ProbeKept
<1> QED
  BY <1>1, <1>2, <1>3

LEMMA AfterValidProbeSame ==
    ASSUME NEW c, Sound(c)
    PROVE  Same(c, AfterValidProbe(c))
<1> DEFINE forgot == ForgetPassedCeiling(c)
           fresh == [c EXCEPT !.failed = << >>, !.provisional = None, !.interval = ProbeInterval]
<1>1. fresh \in ControllerType
  BY Zeros, Zenon DEF Sound, ControllerType
<1>2. fresh.target = c.target /\ fresh.cooldown = c.cooldown /\ fresh.probe = c.probe
  BY DEF Sound, ControllerType
<1>3. forgot \in {c, fresh}
  BY DEF ForgetPassedCeiling
<1>4. Same(c, forgot)
  <2> HIDE DEF fresh
  <2> QED
    BY <1>1, <1>2, <1>3 DEF Same, Sound, ProbeKept, Probing
<1>5. AfterValidProbe(c) \in {ResetWait(forgot), ResetWait(GainMomentum(forgot))}
  BY DEF AfterValidProbe
<1> HIDE DEF forgot
<1>6. Sound(forgot) /\ Same(forgot, GainMomentum(forgot))
  BY <1>4, MomentumSame DEF Same
<1>7. Same(forgot, ResetWait(forgot)) /\ Same(forgot, ResetWait(GainMomentum(forgot)))
  BY <1>6, ResetWaitSame DEF Same
<1> QED
  BY <1>4, <1>5, <1>7 DEF Same

(* A target to rise to: not below the current one, which is at least three *)
(* quarters of it.                                                         *)
Within(c, target) ==
    target \in Nat /\ target >= c.target /\ Percentage(target, 75) <= c.target

LEMMA RaiseRaises ==
    ASSUME NEW c, Sound(c), NEW target, Within(c, target)
    PROVE  Raised(c, Raise(c, target))
<1>0. c.target \in Bootstrap..Maximum
  BY Fields DEF Sound
<1>1. CASE Allowed(target) = c.target
  BY <1>0, <1>1, Bounds DEF Raise, Raised
<1>2. CASE Allowed(target) # c.target
  <2> DEFINE probe == [previous |-> c.target, target |-> Allowed(target), elapsed |-> 0]
             moved == Moved(c, target)
             d == [moved EXCEPT !.probe = probe]
  <2>1. /\ Allowed(target) \in Bootstrap..Maximum /\ Allowed(target) >= c.target
        /\ Percentage(Allowed(target), 75) <= c.target
    BY <1>0, Bounds DEF Allowed, Least, Most, Within, Percentage
  <2>2. moved \in ControllerType
    BY <2>1, Zeros, Zenon DEF Moved, Sound, ControllerType
  <2>3. moved.target = Allowed(target) /\ moved.cooldown = c.cooldown
    BY DEF Moved, Sound, ControllerType
  <2>4. probe \in [previous : 0..Maximum, target : 0..Maximum, elapsed : 0..Attribution]
    BY <1>0, <2>1, Bounds
  <2>5. Raise(c, target) = d
    BY <1>2 DEF Raise
  <2> HIDE DEF moved
  <2>6. d \in ControllerType
    <3> HIDE DEF probe
    <3> QED
      BY <2>2, <2>4, Zenon DEF ControllerType
  <2>7. d.target = Allowed(target) /\ d.cooldown = c.cooldown /\ d.probe = probe
    BY <2>2, <2>3 DEF ControllerType
  <2> HIDE DEF d
  <2> QED
    BY <2>1, <2>5, <2>6, <2>7 DEF Raised, Sound, ProbeKept
<1> QED
  BY <1>1, <1>2

LEMMA CeilingNat ==
    ASSUME NEW c \in ControllerType
    PROVE  RecoveryCeiling(c) \in Nat
<1>1. /\ c.failed \in Seq(Bootstrap..Maximum) /\ c.provisional \in Nat /\ c.returning \in Nat
      /\ c.latencyCeiling \in Nat
  BY DEF ControllerType
<1>2. \A i \in 1..5 : Sample(c.failed, i) \in Nat
  <2>1. \A i \in 1..Len(c.failed) : c.failed[i] \in Nat
    BY <1>1, Bounds
  <2> QED
    BY <1>1, <2>1 DEF Sample
<1>3. Total(c.failed) \in Nat
  <2>1. /\ Sample(c.failed, 1) \in Nat /\ Sample(c.failed, 2) \in Nat /\ Sample(c.failed, 3) \in Nat
        /\ Sample(c.failed, 4) \in Nat /\ Sample(c.failed, 5) \in Nat
    BY <1>2
  <2> QED
    BY <2>1 DEF Total
<1>4. Total(c.failed) \div Samples \in Nat
  <2>1. Samples = 1 \/ Samples = 2 \/ Samples = 3 \/ Samples = 4 \/ Samples = 5
    BY Bounds
  <2> QED
    BY <1>3, <2>1
<1>5. SoftCeiling(c) \in Nat
  BY <1>4 DEF SoftCeiling, None
<1> QED
  BY <1>1, <1>5 DEF RecoveryCeiling, DeliveryCeiling, LowestKnown, Least

LEMMA TargetsWithin ==
    ASSUME NEW c, Sound(c)
    PROVE  Within(c, OrdinaryTarget(c)) /\ Within(c, ProbeTarget(c))
<1>1. c.target \in Nat /\ c.target > 0 /\ c.step \in {2, 4, 8, 16}
  <2>1. c.target \in Bootstrap..Maximum /\ c.step \in {2, 4, 8, 16}
    BY Fields DEF Sound
  <2> QED
    BY <2>1, Bounds
<1>2. RecoveryCeiling(c) \in Nat
  BY CeilingNat DEF Sound
<1>3. Within(c, OrdinaryTarget(c))
  <2> DEFINE safe == Percentage(RecoveryCeiling(c), 96)
             half == (safe - c.target + 1) \div 2
             stride == Least(Most(half, Percentage(c.target, 3)), Percentage(c.target, 25))
  <2>1. safe \in Nat
    BY <1>2, Shares
  <2>2. Within(c, c.target) /\ Within(c, Percentage(c.target, 110))
    BY <1>1 DEF Within, Percentage
  <2>3. ASSUME c.target < safe PROVE Within(c, Least(c.target + stride, safe))
    <3> HIDE DEF safe
    <3>1. half \in Nat
      BY <1>1, <2>1, <2>3
    <3> HIDE DEF half
    <3>2. stride \in Nat /\ stride <= Percentage(c.target, 25)
      BY <1>1, <3>1 DEF Least, Most, Percentage
    <3> HIDE DEF stride
    <3> QED
      BY <1>1, <2>1, <2>3, <3>2 DEF Within, Least, Percentage
  <2> QED
    BY <1>1, <2>1, <2>2, <2>3 DEF OrdinaryTarget
<1>4. Within(c, ProbeTarget(c))
  <2>1. CASE c.step = 2
    BY <1>1, <2>1 DEF Within, ProbeTarget, Percentage
  <2>2. CASE c.step = 4
    BY <1>1, <2>2 DEF Within, ProbeTarget, Percentage
  <2>3. CASE c.step = 8
    BY <1>1, <2>3 DEF Within, ProbeTarget, Percentage
  <2>4. CASE c.step = 16
    BY <1>1, <2>4 DEF Within, ProbeTarget, Percentage
  <2> QED
    BY <1>1, <2>1, <2>2, <2>3, <2>4
<1> QED
  BY <1>3, <1>4

LEMMA PathWithin ==
    ASSUME NEW c, Sound(c), NEW capacity \in Nat, capacity >= c.target, NEW target, Within(c, target)
    PROVE  Within(c, Least(target, capacity))
<1>1. c.target \in Nat
  BY Numbers
<1> QED
  BY <1>1 DEF Within, Least, Percentage

(* Every rise of Recover is one of these.                                  *)
LEMMA RisesRaise ==
    ASSUME NEW c, Sound(c), NEW capacity \in Nat, capacity >= c.target,
           NEW d, Same(c, d), NEW e, Same(c, e)
    PROVE  /\ Raised(c, Raise(d, Least(OrdinaryTarget(e), capacity)))
           /\ Raised(c, Raise(d, Least(ProbeTarget(e), capacity)))
<1>1. Sound(d) /\ Sound(e) /\ d.target = c.target /\ e.target = c.target /\ d.cooldown = c.cooldown
  BY DEF Same
<1>2. Within(e, OrdinaryTarget(e)) /\ Within(e, ProbeTarget(e))
  BY <1>1, TargetsWithin
<1>3. Within(d, OrdinaryTarget(e)) /\ Within(d, ProbeTarget(e))
  BY <1>1, <1>2 DEF Within
<1>4. Within(d, Least(OrdinaryTarget(e), capacity)) /\ Within(d, Least(ProbeTarget(e), capacity))
  BY <1>1, <1>3, PathWithin
<1>5. /\ Raised(d, Raise(d, Least(OrdinaryTarget(e), capacity)))
      /\ Raised(d, Raise(d, Least(ProbeTarget(e), capacity)))
  BY <1>1, <1>4, RaiseRaises
<1> QED
  BY <1>1, <1>5 DEF Raised

LEMMA RecoverRaises ==
    ASSUME NEW c, Sound(c), NEW capacity \in Nat, capacity >= c.target, NEW cooled \in BOOLEAN
    PROVE  Raised(c, Recover(c, capacity, cooled))
<1> DEFINE returned == UpdateReturn(c)
           advanced == AdvanceProbe(returned)
           valid == AfterValidProbe(advanced)
           reset == ResetWait(advanced)
           waitNear == [advanced EXCEPT !.healthy = 0, !.ceilingHealthy = @ + 1]
           waitFar == [advanced EXCEPT !.ceilingHealthy = 0, !.healthy = @ + 1]
           up(d, target) == Raise(d, Least(target, capacity))
<1>0. c.target \in Nat /\ c.cooldown \in Nat
  BY Numbers
<1>1. Same(c, returned)
  BY UpdateReturnSame
<1>2. Same(c, advanced)
  <2> HIDE DEF returned
  <2> QED
    BY <1>1, AdvanceProbeSame DEF Same
<1>3. Same(c, valid) /\ Same(c, reset)
  <2> HIDE DEF advanced
  <2> QED
    BY <1>2, AfterValidProbeSame, ResetWaitSame DEF Same
<1>4. \A d : Same(c, d) => Raised(c, d)
  BY <1>0 DEF Same, Raised
<1>5. /\ Raised(c, up(valid, OrdinaryTarget(valid)))
      /\ Raised(c, up(reset, OrdinaryTarget(advanced)))
      /\ Raised(c, up(reset, ProbeTarget(advanced)))
  <2> HIDE DEF advanced, valid, reset
  <2> QED
    BY <1>2, <1>3, RisesRaise
<1>6. ASSUME waitNear.ceilingHealthy < advanced.interval PROVE Same(c, waitNear)
  <2> HIDE DEF advanced
  <2>1. /\ advanced \in ControllerType /\ advanced.ceilingHealthy \in 0..MaxProbeInterval
        /\ advanced.interval \in ProbeInterval..MaxProbeInterval
    BY <1>2, Fields DEF Same, Sound
  <2>2. /\ waitNear.ceilingHealthy = advanced.ceilingHealthy + 1
        /\ waitNear.target = advanced.target /\ waitNear.cooldown = advanced.cooldown
        /\ waitNear.probe = advanced.probe
    BY <2>1 DEF ControllerType
  <2>3. advanced.ceilingHealthy + 1 \in 0..MaxProbeInterval
    BY <1>6, <2>1, <2>2, Bounds
  <2>4. waitNear \in ControllerType
    BY <2>1, <2>3, Zeros, Zenon DEF ControllerType
  <2> HIDE DEF waitNear
  <2> QED
    BY <1>2, <2>2, <2>4 DEF Same, Sound, ProbeKept, Probing
<1>7. ASSUME waitFar.healthy < HealthyReports PROVE Same(c, waitFar)
  <2> HIDE DEF advanced
  <2>1. advanced \in ControllerType /\ advanced.healthy \in 0..HealthyReports
    BY <1>2, Fields DEF Same, Sound
  <2>2. /\ waitFar.healthy = advanced.healthy + 1
        /\ waitFar.target = advanced.target /\ waitFar.cooldown = advanced.cooldown
        /\ waitFar.probe = advanced.probe
    BY <2>1 DEF ControllerType
  <2>3. advanced.healthy + 1 \in 0..HealthyReports
    BY <1>7, <2>1, <2>2, Bounds
  <2>4. waitFar \in ControllerType
    BY <2>1, <2>3, Zeros, Zenon DEF ControllerType
  <2> HIDE DEF waitFar
  <2> QED
    BY <1>2, <2>2, <2>4 DEF Same, Sound, ProbeKept, Probing
<1>8. \/ Recover(c, capacity, cooled) \in
            {advanced, reset, valid, up(valid, OrdinaryTarget(valid)),
             up(reset, OrdinaryTarget(advanced)), up(reset, ProbeTarget(advanced))}
      \/ Recover(c, capacity, cooled) = waitNear /\ waitNear.ceilingHealthy < advanced.interval
      \/ Recover(c, capacity, cooled) = waitFar /\ waitFar.healthy < HealthyReports
  BY DEF Recover
<1> HIDE DEF advanced, valid, reset, waitNear, waitFar, up
<1> QED
  BY <1>2, <1>3, <1>4, <1>5, <1>6, <1>7, <1>8

(* A rise needs a cooldown that this healthy report fills.                 *)
Calmed(c, d) ==
    /\ Sound(d) /\ d.target >= c.target
    /\ d.target > c.target => c.cooldown <= 1
    /\ d.cooldown >= c.cooldown - 1

LEMMA CoolCalms ==
    ASSUME NEW c, Sound(c), NEW capacity \in Nat, capacity >= c.target
    PROVE  Calmed(c, Cool(c, capacity))
<1> DEFINE cooled == [c EXCEPT !.cooldown = Most(@ - 1, 0)]
<1>0. c.target \in Nat /\ c.cooldown \in Nat
  BY Numbers
<1>1. Most(c.cooldown - 1, 0) \in Nat
  BY <1>0 DEF Most
<1>2. cooled \in ControllerType
  BY <1>1, Zenon DEF Sound, ControllerType
<1>3. cooled.target = c.target /\ cooled.probe = c.probe /\ cooled.cooldown = Most(c.cooldown - 1, 0)
  BY DEF Sound, ControllerType
<1>4. /\ Cool(c, capacity) = IF cooled.cooldown # 0 THEN ResetWait(cooled)
                         ELSE Recover(cooled, capacity, c.cooldown # 0)
      /\ (c.cooldown # 0) \in BOOLEAN
  BY DEF Cool
<1> HIDE DEF cooled
<1>5. Sound(cooled) /\ capacity >= cooled.target
  BY <1>2, <1>3 DEF Sound, ProbeKept, Probing
<1>6. CASE cooled.cooldown # 0
  BY <1>0, <1>3, <1>4, <1>5, <1>6, ResetWaitSame DEF Same, Calmed, Most
<1>7. CASE cooled.cooldown = 0
  <2> DEFINE d == Recover(cooled, capacity, c.cooldown # 0)
  <2>1. Raised(cooled, d)
    BY <1>4, <1>5, RecoverRaises
  <2>2. Cool(c, capacity) = d
    BY <1>4, <1>7
  <2> HIDE DEF d
  <2> QED
    BY <1>0, <1>3, <1>7, <2>1, <2>2 DEF Raised, Calmed, Most
<1> QED
  BY <1>6, <1>7

-----------------------------------------------------------------------------
(* The answers to trouble.                                                 *)

LEMMA ShareLowers ==
    ASSUME NEW c, Sound(c), NEW d, Same(c, d), ~Probing(d), NEW target \in Nat,
           target <= c.target, target >= Percentage(c.target, 75)
    PROVE  Lowered(c, Cut(d, target))
<1>1. Sound(d) /\ target <= d.target /\ d.target = c.target /\ d.cooldown = c.cooldown
  BY DEF Same
<1>2. c.target \in Nat
  BY Numbers
<1>3. Percentage(c.target, 75) \in Nat
  BY <1>2, Shares
<1>4. /\ Sound(Cut(d, target))
      /\ Cut(d, target).target >= target /\ Cut(d, target).target <= c.target
      /\ \/ Cut(d, target).cooldown = Cooldown
         \/ Cut(d, target).cooldown = c.cooldown /\ Cut(d, target).target = c.target
  BY <1>1, CutLowers
<1>5. Cut(d, target).target \in Nat
  BY <1>4, Numbers
<1> HIDE DEF Sound
<1> QED
  BY <1>2, <1>3, <1>4, <1>5, Bounds DEF Lowered

LEMMA RollbackLowers ==
    ASSUME NEW c, Sound(c), NEW d, Same(c, d), ~Probing(d), NEW target \in Nat,
           target <= c.target, target >= Percentage(c.target, 75)
    PROVE  Lowered(c, Rollback(d, target))
<1> DEFINE cut == Cut(d, target)
           e == [cut EXCEPT !.cooldown = cut.interval]
<1>1. Lowered(c, cut)
  BY ShareLowers
<1>2. Rollback(d, target) \in {cut, e}
  BY DEF Rollback
<1> HIDE DEF cut
<1>3. /\ cut \in ControllerType /\ cut.interval \in ProbeInterval..MaxProbeInterval
  BY <1>1, Fields DEF Lowered, Sound
<1>4. cut.interval \in Nat /\ cut.interval >= Cooldown
  BY <1>3, Bounds
<1>5. e \in ControllerType
  BY <1>3, <1>4, Zenon DEF ControllerType
<1>6. e.target = cut.target /\ e.probe = cut.probe /\ e.cooldown = cut.interval
  BY <1>3 DEF ControllerType
<1> HIDE DEF e
<1> QED
  BY <1>1, <1>2, <1>4, <1>5, <1>6 DEF Lowered, Sound, ProbeKept, Probing

(* Where a failed probe goes back to is not below three quarters.          *)
LEMMA RollbackTargetNear ==
    ASSUME NEW c, Sound(c), RollbackTarget(c) # None
    PROVE  /\ RollbackTarget(c) \in Nat /\ RollbackTarget(c) <= c.target
           /\ RollbackTarget(c) >= Percentage(c.target, 75)
<1>1. c.target \in Nat
  BY Numbers
<1>2. /\ Percentage(c.target, 75) \in Nat /\ Percentage(c.target, 96) \in 0..c.target
      /\ Percentage(c.target, 75) <= Percentage(c.target, 96)
      /\ Percentage(c.target, 75) <= c.target
  BY <1>1, Shares
<1>3. CASE Probing(c)
  <2>1. /\ c.probe.target = c.target
        /\ c.probe.previous # None => c.probe.previous >= Percentage(c.target, 75)
    BY <1>3 DEF Sound, ProbeKept
  <2>2. c.probe.previous \in Nat
    <3>1. c.probe.previous \in 0..Maximum
      BY Fields DEF Sound
    <3> QED
      BY <3>1, Bounds
  <2>3. /\ c.probe.previous # None
        /\ RollbackTarget(c) = Least(c.probe.previous, Percentage(c.target, 96))
    BY <1>3, <2>1 DEF RollbackTarget, BlamedProbe
  <2> QED
    BY <1>1, <1>2, <2>1, <2>2, <2>3 DEF Least
<1>4. CASE ~Probing(c)
  <2>1. \/ RollbackTarget(c) = Least(c.target, Percentage(c.target, 96))
        \/ RollbackTarget(c) = Percentage(c.target, 96)
    BY <1>4 DEF RollbackTarget, BlamedProbe, NoProbe, None
  <2> QED
    BY <1>1, <1>2, <2>1 DEF Least
<1> QED
  BY <1>3, <1>4

LEMMA FallbackLowers ==
    ASSUME NEW c, Sound(c), NEW percent \in {75, 90}
    PROVE  Lowered(c, Fallback(c, percent))
<1>1. /\ Percentage(c.target, percent) \in Nat /\ Percentage(c.target, percent) <= c.target
      /\ Percentage(c.target, percent) >= Percentage(c.target, 75)
  <2>1. c.target \in Nat
    BY Numbers
  <2>2. CASE percent = 75
    BY <2>1, <2>2 DEF Percentage
  <2>3. CASE percent = 90
    BY <2>1, <2>3 DEF Percentage
  <2> QED
    BY <2>2, <2>3
<1> DEFINE d == RecordProbeFailure(c)
<1>2. Same(c, d) /\ ~Probing(d)
  BY FailureSame
<1>3. Fallback(c, percent) = IF RollbackTarget(c) # None THEN Rollback(d, RollbackTarget(c))
                            ELSE Cut(d, Percentage(c.target, percent))
  BY DEF Fallback
<1> HIDE DEF d
<1> QED
  BY <1>1, <1>2, <1>3, RollbackTargetNear, RollbackLowers, ShareLowers

(* The same for a record that a counter has been reset in.                 *)
LEMMA LoweredSame ==
    ASSUME NEW c, NEW d, Same(c, d), NEW e, Lowered(d, e)
    PROVE  Lowered(c, e)
  BY DEF Same, Lowered

LEMMA SameLowered ==
    ASSUME NEW c, Sound(c), NEW d, Same(c, d)
    PROVE  Lowered(c, d)
<1>1. c.target \in Nat
  BY Numbers
<1>2. Percentage(c.target, 75) \in 0..c.target
  BY <1>1, Shares
<1> QED
  BY <1>1, <1>2 DEF Same, Lowered

LEMMA DegradedSame ==
    ASSUME NEW c, Sound(c), NEW n \in {0, 1}
    PROVE  Same(c, [c EXCEPT !.degraded = n])
<1> DEFINE d == [c EXCEPT !.degraded = n]
<1>1. n \in 0..DegradedReports - 1
  BY DEF DegradedReports
<1>2. d \in ControllerType
  BY <1>1, Zenon DEF Sound, ControllerType
<1>3. d.target = c.target /\ d.cooldown = c.cooldown /\ d.probe = c.probe
  BY DEF Sound, ControllerType
<1>4. Same(c, d)
  <2> HIDE DEF d
  <2> QED
    BY <1>2, <1>3 DEF Same, Sound, ProbeKept, Probing
<1> QED
  BY <1>4

LEMMA CutFailureLowers ==
    ASSUME NEW c, Sound(c), NEW percent \in {75, 90}
    PROVE  Lowered(c, Cut(RecordProbeFailure(c), Percentage(c.target, percent)))
<1>1. /\ Percentage(c.target, percent) \in Nat /\ Percentage(c.target, percent) <= c.target
      /\ Percentage(c.target, percent) >= Percentage(c.target, 75)
  <2>1. c.target \in Nat
    BY Numbers
  <2>2. CASE percent = 75
    BY <2>1, <2>2 DEF Percentage
  <2>3. CASE percent = 90
    BY <2>1, <2>3 DEF Percentage
  <2> QED
    BY <2>2, <2>3
<1> QED
  BY <1>1, FailureSame, ShareLowers

LEMMA AnswerSevereLowers ==
    ASSUME NEW c, Sound(c), NEW severeLoss
    PROVE  Lowered(c, AnswerSevere(c, severeLoss))
<1> DEFINE zero == [c EXCEPT !.degraded = 0]
           reset == ResetWait(zero)
<1>1. Same(c, zero)
  BY DegradedSame
<1>2. Same(zero, reset)
  <2> HIDE DEF zero
  <2> QED
    BY <1>1, ResetWaitSame DEF Same
<1>3. zero.target = c.target
  BY <1>1 DEF Same
<1>4. \/ AnswerSevere(c, severeLoss) = Fallback(reset, 75)
      \/ AnswerSevere(c, severeLoss) = Cut(RecordProbeFailure(reset), Percentage(c.target, 75))
  BY DEF AnswerSevere
<1> HIDE DEF zero, reset
<1>5. Same(c, reset) /\ Sound(reset) /\ reset.target = c.target
  BY <1>1, <1>2 DEF Same
<1>6. /\ Lowered(reset, Fallback(reset, 75))
      /\ Lowered(reset, Cut(RecordProbeFailure(reset), Percentage(reset.target, 75)))
  BY <1>5, FallbackLowers, CutFailureLowers
<1> QED
  BY <1>4, <1>5, <1>6, LoweredSame

LEMMA AnswerDegradedLowers ==
    ASSUME NEW c, Sound(c)
    PROVE  Lowered(c, AnswerDegraded(c))
<1> DEFINE reset == ResetWait(c)
           zero == [reset EXCEPT !.degraded = 0]
           more == [reset EXCEPT !.degraded = @ + 1]
<1>1. Same(c, reset) /\ reset.degraded = c.degraded
  <2>1. reset.degraded = c.degraded
    BY DEF ResetWait, Sound, ControllerType
  <2> QED
    BY <2>1, ResetWaitSame
<1>2. \/ AnswerDegraded(c) = more /\ c.degraded + 1 < DegradedReports
      \/ AnswerDegraded(c) = Fallback(zero, 90)
  BY DEF AnswerDegraded
<1> HIDE DEF reset
<1>3. Same(reset, zero)
  BY <1>1, DegradedSame DEF Same
<1>4. ASSUME c.degraded + 1 < DegradedReports PROVE Same(reset, more)
  <2>1. c.degraded \in {0, 1}
    BY Fields DEF Sound
  <2>2. reset.degraded + 1 \in {0, 1}
    BY <1>1, <1>4, <2>1 DEF DegradedReports
  <2> QED
    BY <1>1, <2>2, DegradedSame DEF Same
<1> HIDE DEF zero, more
<1>5. Lowered(zero, Fallback(zero, 90)) /\ Same(c, zero)
  BY <1>1, <1>3, FallbackLowers DEF Same
<1>6. c.degraded + 1 < DegradedReports => Same(c, more)
  BY <1>1, <1>4 DEF Same
<1> QED
  BY <1>2, <1>5, <1>6, LoweredSame, SameLowered

LEMMA AnswerSenderLowers ==
    ASSUME NEW c, Sound(c), NEW alreadyCut
    PROVE  Lowered(c, AnswerSender(c, alreadyCut))
<1> DEFINE reset == ResetWait(c)
<1>1. Same(c, reset)
  BY ResetWaitSame
<1>2. \/ AnswerSender(c, alreadyCut) = reset
      \/ AnswerSender(c, alreadyCut) = Cut(RecordProbeFailure(reset), Percentage(c.target, 90))
  BY DEF AnswerSender
<1> HIDE DEF reset
<1>3. Sound(reset) /\ reset.target = c.target
  BY <1>1 DEF Same
<1>4. Lowered(reset, Cut(RecordProbeFailure(reset), Percentage(reset.target, 90)))
  BY <1>3, CutFailureLowers
<1> QED
  BY <1>1, <1>2, <1>3, <1>4, LoweredSame, SameLowered

(* A report is answered by a cut, by nothing, or, if it is healthy, by     *)
(* recovery.                                                               *)
HealthyReport(c, loss, capacity, allowIncrease) ==
    /\ ~Severe(c, loss, capacity) /\ ~Degraded(c, loss, capacity)
    /\ c.events = 0 /\ allowIncrease

LEMMA DeliveryAnswers ==
    ASSUME NEW c, Sound(c), NEW loss, NEW capacity \in Nat, NEW allowIncrease \in BOOLEAN
    PROVE  LET d == ObserveDelivery(c, loss, capacity, allowIncrease)
           IN  \/ Lowered(c, d)
               \/ HealthyReport(c, loss, capacity, allowIncrease) /\ Calmed(c, d)
<1> DEFINE counted == Count(c, loss)
           calmed == [counted EXCEPT !.degraded = 0]
           waited == [calmed EXCEPT !.healthy = 0]
           d == ObserveDelivery(c, loss, capacity, allowIncrease)
<1>1. Same(c, counted)
  BY CountSame
<1>2. Same(c, calmed)
  <2> HIDE DEF counted
  <2> QED
    BY <1>1, DegradedSame DEF Same
<1>3. Same(c, waited)
  <2> HIDE DEF calmed
  <2>1. calmed \in ControllerType
    BY <1>2 DEF Same, Sound
  <2>2. waited \in ControllerType
    BY <2>1, Zeros, Zenon DEF ControllerType
  <2>3. /\ waited.target = calmed.target /\ waited.cooldown = calmed.cooldown
        /\ waited.probe = calmed.probe
    BY <2>1 DEF ControllerType
  <2> HIDE DEF waited
  <2> QED
    BY <1>2, <2>2, <2>3 DEF Same, Sound, ProbeKept, Probing
<1>4. \/ d = AnswerSevere(counted, SevereLoss(c, loss))
      \/ d = AnswerDegraded(counted)
      \/ d = AnswerSender(calmed, c.severeCut)
      \/ d = waited
      \/ d = Cool(calmed, capacity) /\ HealthyReport(c, loss, capacity, allowIncrease)
  BY DEF ObserveDelivery, HealthyReport
<1>5. ~Degraded(c, loss, capacity) => ~(capacity < c.target)
  BY DEF Degraded
<1> HIDE DEF counted, calmed, waited, d
<1>6. /\ Lowered(counted, AnswerSevere(counted, SevereLoss(c, loss)))
      /\ Lowered(counted, AnswerDegraded(counted))
      /\ Lowered(calmed, AnswerSender(calmed, c.severeCut))
  BY <1>1, <1>2, AnswerSevereLowers, AnswerDegradedLowers, AnswerSenderLowers DEF Same
<1>7. ASSUME HealthyReport(c, loss, capacity, allowIncrease)
      PROVE  Calmed(c, Cool(calmed, capacity))
  <2>1. capacity >= calmed.target /\ Sound(calmed)
    BY <1>2, <1>5, <1>7, Numbers DEF HealthyReport, Same
  <2>2. Calmed(calmed, Cool(calmed, capacity))
    BY <2>1, CoolCalms
  <2> QED
    BY <1>2, <2>2 DEF Same, Calmed
<1>8. Lowered(c, d) \/ (HealthyReport(c, loss, capacity, allowIncrease) /\ Calmed(c, d))
  BY <1>1, <1>2, <1>3, <1>4, <1>6, <1>7, LoweredSame, SameLowered
<1> QED
  BY <1>8 DEF d

(* The events of the sender.                                               *)
LEMMA SenderAnswers ==
    ASSUME NEW c, Sound(c)
    PROVE  Same(c, ObserveSenderPressure(c)) /\ Lowered(c, ObserveSenderCongestion(c))
<1> DEFINE pressed == ObserveSenderPressure(c)
           marked == [pressed EXCEPT !.severeCut = TRUE]
           reset == ResetWait(c)
<1>1. Same(c, pressed)
  <2>1. Same(c, reset) /\ reset \in ControllerType
    BY ResetWaitSame DEF Same, Sound
  <2>2. pressed = [reset EXCEPT !.degraded = 0, !.events = Least(@ + 1, SevereEvents)]
    BY DEF ObserveSenderPressure
  <2> HIDE DEF reset
  <2>3. Least(reset.events + 1, SevereEvents) \in 0..SevereEvents
    <3>1. reset.events \in 0..SevereEvents
      BY <2>1, Fields
    <3> QED
      BY <3>1, Bounds DEF Least
  <2> HIDE DEF pressed
  <2>4. pressed \in ControllerType
    <3> DEFINE e == [reset EXCEPT !.degraded = 0]
    <3>1. e \in ControllerType /\ e.events = reset.events
      <4>1. e \in ControllerType
        BY <2>1, Zeros, Zenon DEF ControllerType
      <4> QED
        BY <2>1, <4>1 DEF ControllerType
    <3>2. pressed = [e EXCEPT !.events = Least(reset.events + 1, SevereEvents)]
      BY <2>2, <3>1
    <3> HIDE DEF e
    <3> QED
      BY <2>3, <3>1, <3>2, Zenon DEF ControllerType
  <2>5. pressed.target = reset.target /\ pressed.cooldown = reset.cooldown /\ pressed.probe = reset.probe
    BY <2>1, <2>2 DEF ControllerType
  <2> QED
    BY <2>1, <2>4, <2>5 DEF Same, Sound, ProbeKept, Probing
<1>2. \/ ObserveSenderCongestion(c) = pressed
      \/ ObserveSenderCongestion(c) = Cut(RecordProbeFailure(marked), Percentage(c.target, 75))
  BY DEF ObserveSenderCongestion
<1> HIDE DEF pressed
<1>3. Same(c, marked)
  <2>1. pressed \in ControllerType
    BY <1>1 DEF Same, Sound
  <2>2. marked \in ControllerType
    BY <2>1, Zeros, Zenon DEF ControllerType
  <2>3. /\ marked.target = pressed.target /\ marked.cooldown = pressed.cooldown
        /\ marked.probe = pressed.probe
    BY <2>1 DEF ControllerType
  <2> HIDE DEF marked
  <2> QED
    BY <1>1, <2>2, <2>3 DEF Same, Sound, ProbeKept, Probing
<1> HIDE DEF marked
<1>4. Lowered(marked, Cut(RecordProbeFailure(marked), Percentage(marked.target, 75)))
  BY <1>3, CutFailureLowers DEF Same
<1>5. marked.target = c.target
  BY <1>3 DEF Same
<1>6. Lowered(c, ObserveSenderCongestion(c))
  BY <1>1, <1>2, <1>3, <1>4, <1>5, LoweredSame, SameLowered
<1> QED
  BY <1>1, <1>6 DEF pressed

(* The answer to delay.                                                    *)
LEMMA LatencyLowers ==
    ASSUME NEW c, Sound(c), NEW target \in Nat, target <= c.target, NEW cooldown \in Nat
    PROVE  LET d == SetLatencyTarget(c, target, cooldown)
           IN  /\ Sound(d) /\ d.target >= target /\ d.target <= c.target
               /\ d.cooldown = cooldown
<1> DEFINE bare == [c EXCEPT !.probe = NoProbe]
           reset == ResetWait(bare)
           slowed == IF HoldIsProven(c) THEN reset ELSE LoseMomentum(reset)
           cut == Cut(slowed, target)
           d == [cut EXCEPT !.cooldown = cooldown]
<1>1. bare \in ControllerType
  BY Zeros, Zenon DEF Sound, ControllerType
<1>2. bare.target = c.target /\ bare.probe = NoProbe
  BY DEF Sound, ControllerType
<1> HIDE DEF bare
<1>3. Sound(bare)
  BY <1>1, <1>2 DEF Sound, ProbeKept, Probing
<1>4. Sound(reset) /\ reset.target = c.target /\ reset.probe = NoProbe
  BY <1>2, <1>3, ResetWaitSame DEF Same
<1> HIDE DEF reset
<1>5. Sound(slowed) /\ slowed.target = c.target /\ slowed.probe = NoProbe
  BY <1>4, MomentumSame DEF Same
<1> HIDE DEF slowed
<1>6. Sound(cut) /\ cut.target >= target /\ cut.target <= c.target
  BY <1>5, CutLowers DEF Probing
<1> HIDE DEF cut
<1>7. cut \in ControllerType
  BY <1>6 DEF Sound
<1>8. d \in ControllerType
  BY <1>7, Zenon DEF ControllerType
<1>9. d.target = cut.target /\ d.probe = cut.probe /\ d.cooldown = cooldown
  BY <1>7 DEF ControllerType
<1>10. d = SetLatencyTarget(c, target, cooldown)
  BY DEF SetLatencyTarget, cut, slowed, reset, bare
<1> HIDE DEF d
<1> QED
  BY <1>6, <1>8, <1>9, <1>10 DEF Sound, ProbeKept, Probing

-----------------------------------------------------------------------------
(* What the controller needs of the latency policy: its limit, its wait,   *)
(* and the size of its cuts.                                               *)

PolicyKept(p) ==
    /\ p = [channels |-> p.channels, changed |-> p.changed, streak |-> p.streak,
            ceiling |-> p.ceiling, retry |-> p.retry, sinceCut |-> p.sinceCut,
            cutPressure |-> p.cutPressure]
    /\ p.ceiling \in 0..Maximum /\ p.retry \in Retry..MaxRetry

LEMMA PolicyBounds ==
    /\ Retry \in Nat /\ MaxRetry \in Nat /\ Retry <= MaxRetry /\ Cooldown <= Retry
  BY LatencyAssumption

(* Other fields may change at will.                                        *)
LEMMA PolicyUpdates ==
    ASSUME NEW p, PolicyKept(p), NEW v
    PROVE  /\ PolicyKept([p EXCEPT !.channels = v]) /\ PolicyKept([p EXCEPT !.changed = v])
           /\ PolicyKept([p EXCEPT !.streak = v]) /\ PolicyKept([p EXCEPT !.sinceCut = v])
           /\ PolicyKept([p EXCEPT !.cutPressure = v])
<1>1. PolicyKept([p EXCEPT !.channels = v])
  BY DEF PolicyKept
<1>2. PolicyKept([p EXCEPT !.changed = v])
  BY DEF PolicyKept
<1>3. PolicyKept([p EXCEPT !.streak = v])
  BY DEF PolicyKept
<1>4. PolicyKept([p EXCEPT !.sinceCut = v])
  BY DEF PolicyKept
<1>5. PolicyKept([p EXCEPT !.cutPressure = v])
  BY DEF PolicyKept
<1> QED
  BY <1>1, <1>2, <1>3, <1>4, <1>5

LEMMA CeilingUpdates ==
    ASSUME NEW p, PolicyKept(p), NEW bitrate \in 0..Maximum, NEW retry \in Retry..MaxRetry
    PROVE  /\ PolicyKept([p EXCEPT !.ceiling = bitrate])
           /\ PolicyKept([p EXCEPT !.ceiling = bitrate, !.retry = retry])
<1> DEFINE q == [p EXCEPT !.ceiling = bitrate]
<1>1. PolicyKept(q)
  BY DEF PolicyKept
<1>2. PolicyKept([q EXCEPT !.retry = retry])
  <2> HIDE DEF q
  <2> QED
    BY <1>1 DEF PolicyKept
<1> QED
  BY <1>1, <1>2

LEMMA PolicyChanges ==
    ASSUME NEW p, PolicyKept(p), NEW elapsed
    PROVE  /\ PolicyKept(LP!BitrateChanged(p)) /\ PolicyKept(LP!ForgetCeiling(p))
           /\ PolicyKept(LP!ResetObservation(p)) /\ PolicyKept(LP!Elapse(p, elapsed))
<1>1. PolicyKept(LP!BitrateChanged(p))
  BY PolicyUpdates DEF LP!BitrateChanged, LP!StopClocks
<1>2. PolicyKept(LP!ForgetCeiling(p))
  <2>1. LP!Unlimited \in 0..Maximum
    BY Bounds DEF LP!Unlimited
  <2>2. p.retry \in Retry..MaxRetry
    BY DEF PolicyKept
  <2> QED
    BY <2>1, <2>2, CeilingUpdates DEF LP!ForgetCeiling
<1>3. PolicyKept(LP!ResetObservation(p))
  BY PolicyUpdates DEF LP!ResetObservation, LP!StopClocks
<1>4. PolicyKept(LP!Elapse(p, elapsed))
  BY PolicyUpdates DEF LP!Elapse
<1> QED
  BY <1>1, <1>2, <1>3, <1>4

LEMMA MeasureKeeps ==
    ASSUME NEW p, PolicyKept(p), NEW report, NEW bitrate, NEW elapsed
    PROVE  PolicyKept(LP!Measure(p, report, bitrate, elapsed))
<1> DEFINE aged == LP!Elapse(p, elapsed)
           fresh == IF elapsed > ReportGap THEN LP!ResetObservation(aged) ELSE aged
           channels == [ch \in Channels |->
                          LP!Observed(fresh.channels[ch], report.delay[ch], ch \in report.active,
                                      LP!Settled(aged, report), bitrate)]
<1>1. PolicyKept(aged)
  BY PolicyChanges
<1>2. LP!Measure(p, report, bitrate, elapsed) = [fresh EXCEPT !.channels = channels]
  BY DEF LP!Measure
<1> HIDE DEF aged
<1>3. PolicyKept(fresh)
  BY <1>1, PolicyChanges
<1> HIDE DEF fresh, channels
<1> QED
  BY <1>2, <1>3 DEF PolicyKept

(* A cut it asks for is at most a quarter, and then nothing may rise.      *)
Sane(evaluation, bitrate) ==
    /\ PolicyKept(evaluation.policy)
    /\ evaluation.allowIncrease \in BOOLEAN
    /\ evaluation.reduceTo # 0 =>
           /\ ~evaluation.allowIncrease
           /\ evaluation.reduceTo \in Nat /\ evaluation.reduceTo <= bitrate
           /\ evaluation.reduceTo >= Percentage(bitrate, 75)

LEMMA DelayAnswers ==
    ASSUME NEW m, PolicyKept(m), NEW report, NEW bitrate \in Bootstrap..Maximum
    PROVE  Sane(LP!ObserveDelay(m, report, bitrate), bitrate)
<1> DEFINE pressure == LP!Pressure(m, report)
           calmed == [m EXCEPT !.streak = 0]
           evaluation == LP!ObserveDelay(m, report, bitrate)
<1>0. bitrate \in Nat /\ bitrate \in 0..Maximum
  BY Bounds
<1>2. PolicyKept(calmed)
  BY PolicyUpdates
<1>3. \/ evaluation = LP!Evaluation(calmed, FALSE, 0)
      \/ evaluation = LP!AnswerExcess(m, pressure, bitrate)
      \/ evaluation = LP!Evaluation(LP!RaiseCeiling(calmed, bitrate), pressure < 500, 0)
  BY DEF LP!ObserveDelay
<1> HIDE DEF pressure, evaluation
<1>4. ASSUME evaluation = LP!Evaluation(calmed, FALSE, 0)
      PROVE  Sane(evaluation, bitrate)
  <2> HIDE DEF calmed
  <2> QED
    BY <1>2, <1>4 DEF LP!Evaluation, Sane
<1>5. ASSUME evaluation = LP!Evaluation(LP!RaiseCeiling(calmed, bitrate), pressure < 500, 0)
      PROVE  Sane(evaluation, bitrate)
  <2> HIDE DEF calmed
  <2>1. PolicyKept(LP!RaiseCeiling(calmed, bitrate))
    <3>1. Retry \in Retry..MaxRetry
      BY PolicyBounds
    <3> QED
      BY <1>0, <1>2, <3>1, CeilingUpdates DEF LP!RaiseCeiling
  <2> QED
    BY <1>5, <2>1 DEF LP!Evaluation, Sane
<1>6. ASSUME evaluation = LP!AnswerExcess(m, pressure, bitrate)
      PROVE  Sane(evaluation, bitrate)
  <2> DEFINE waited == [m EXCEPT !.streak = LP!Capped(@ + 1, 2)]
             made == LP!CutFor(calmed, pressure, bitrate)
             size == LP!ReduceTo(m, bitrate)
  <2>1. PolicyKept(waited)
    BY PolicyUpdates
  <2>2. PolicyKept(made)
    <3> DEFINE cut == [calmed EXCEPT !.sinceCut = 0, !.cutPressure = pressure]
    <3>1. PolicyKept(cut)
      <4> HIDE DEF calmed
      <4> QED
        BY <1>2, PolicyUpdates
    <3>2. made \in {cut, LP!LearnCeiling(cut, bitrate)}
      BY DEF LP!CutFor
    <3> HIDE DEF cut, made
    <3>3. PolicyKept(LP!LearnCeiling(cut, bitrate))
      <4>1. LP!Capped(2 * cut.retry, MaxRetry) \in Retry..MaxRetry
        BY <3>1, PolicyBounds DEF PolicyKept, LP!Capped
      <4>2. [cut EXCEPT !.ceiling = bitrate].retry = cut.retry
        BY <3>1 DEF PolicyKept
      <4> QED
        BY <1>0, <3>1, <4>1, <4>2, CeilingUpdates DEF LP!LearnCeiling
    <3> QED
      BY <3>1, <3>2, <3>3
  <2>3. size \in Nat /\ size <= bitrate /\ size >= Percentage(bitrate, 75)
    BY <1>0 DEF LP!ReduceTo, LP!Percent, Percentage
  <2>4. evaluation \in {LP!Evaluation(waited, FALSE, 0), LP!Evaluation(calmed, FALSE, 0),
                        LP!Evaluation(made, FALSE, size)}
    BY <1>6 DEF LP!AnswerExcess
  <2> HIDE DEF waited, made, calmed, size
  <2>5. ASSUME NEW q \in {waited, calmed}, evaluation = LP!Evaluation(q, FALSE, 0)
        PROVE  Sane(evaluation, bitrate)
    BY <1>2, <2>1, <2>5 DEF LP!Evaluation, Sane
  <2>6. ASSUME evaluation = LP!Evaluation(made, FALSE, size)
        PROVE  Sane(evaluation, bitrate)
    <3>1. evaluation.policy = made /\ evaluation.allowIncrease = FALSE /\ evaluation.reduceTo = size
      BY <2>6 DEF LP!Evaluation
    <3> QED
      BY <2>2, <2>3, <3>1 DEF Sane
  <2> QED
    BY <2>4, <2>5, <2>6
<1> QED
  BY <1>3, <1>4, <1>5, <1>6 DEF evaluation

-----------------------------------------------------------------------------
(* The specification.  Balanced: a report counts for the calm at least as  *)
(* much as for the cooldown, and every cut that resets the one fills the   *)
(* other.                                                                  *)

Balanced(c, calmReports) ==
    calmReports \in 0..Cooldown /\ calmReports + c.cooldown >= Cooldown

IInv ==
    /\ Sound(controller) /\ PolicyKept(policy) /\ path \in Nat
    /\ Balanced(controller, calm)

(* What a step does to the target.                                         *)
Answered(c, calmReports) ==
    /\ Sound(c) /\ Balanced(c, calmReports)
    /\ c.target >= Percentage(controller.target, 75)
    /\ c.target > controller.target => link.loss = "none" /\ calmReports = Cooldown

LEMMA CalmOfLowered ==
    ASSUME IInv, NEW c, Lowered(controller, c), NEW healthy \in BOOLEAN
    PROVE  Answered(c, Calm(healthy, c.target))
<1>1. /\ c.target \in Nat /\ c.cooldown \in Nat /\ controller.target \in Nat
      /\ controller.cooldown \in Nat
  BY Numbers DEF Lowered, IInv
<1>2. calm \in 0..Cooldown /\ calm + controller.cooldown >= Cooldown /\ Cooldown \in Nat
  BY Bounds DEF IInv, Balanced
<1>3. Balanced(c, Calm(healthy, c.target))
  BY <1>1, <1>2 DEF Lowered, Balanced, Calm, Least
<1> QED
  BY <1>1, <1>3 DEF Lowered, Answered

LEMMA CalmOfCalmed ==
    ASSUME IInv, NEW c, Calmed(controller, c), link.loss = "none"
    PROVE  Answered(c, Calm(TRUE, c.target))
<1>1. /\ c.target \in Nat /\ c.cooldown \in Nat /\ controller.target \in Nat
      /\ controller.cooldown \in Nat
  BY Numbers DEF Calmed, IInv
<1>2. calm \in 0..Cooldown /\ calm + controller.cooldown >= Cooldown /\ Cooldown \in Nat
  BY Bounds DEF IInv, Balanced
<1>3. Calm(TRUE, c.target) = Least(calm + 1, Cooldown)
  BY <1>1 DEF Calmed, Calm
<1>4. Balanced(c, Least(calm + 1, Cooldown))
  BY <1>1, <1>2 DEF Calmed, Balanced, Least
<1>5. c.target > controller.target => Least(calm + 1, Cooldown) = Cooldown
  BY <1>1, <1>2 DEF Calmed, Least
<1>6. c.target >= Percentage(controller.target, 75)
  BY <1>1, Shares DEF Calmed, Percentage
<1> QED
  BY <1>3, <1>4, <1>5, <1>6 DEF Calmed, Answered

(* What a report comes to.                                                 *)
LEMMA OutcomeAnswers ==
    ASSUME IInv, NEW measured, PolicyKept(measured), NEW elapsed
    PROVE  /\ Answered(Outcome(measured, elapsed).controller, Outcome(measured, elapsed).calm)
           /\ PolicyKept(Outcome(measured, elapsed).policy)
<1> DEFINE evaluation == LP!ObserveDelay(measured, link, controller.target)
           known == KnownCeiling(evaluation.policy)
           informed == Informed(known)
           delivered == ObserveDelivery(informed, link.loss, path, evaluation.allowIncrease)
           answered == AnswerDelay(delivered, evaluation, known)
           calmAfter == Calm(Healthy(evaluation), answered.target)
           policyAfter == IF answered.target # controller.target THEN LP!BitrateChanged(known) ELSE known
           outcome == Outcome(measured, elapsed)
<1>0. /\ controller.target \in Bootstrap..Maximum /\ controller.target \in Nat
      /\ controller.cooldown \in Nat /\ controller \in ControllerType
  BY Numbers, Fields DEF IInv, Sound
<1>1. Sane(evaluation, controller.target)
  BY <1>0, DelayAnswers DEF IInv
<1>2. PolicyKept(known)
  <2> HIDE DEF evaluation
  <2> QED
    BY <1>1, PolicyChanges DEF KnownCeiling, Sane
<1>3. \/ /\ outcome.controller = controller /\ outcome.calm = calm
         /\ outcome.policy = evaluation.policy
      \/ /\ outcome.controller = answered /\ outcome.calm = calmAfter
         /\ outcome.policy = policyAfter
  BY DEF Outcome, Decided
<1> HIDE DEF evaluation, known
<1>4. /\ informed \in ControllerType /\ informed.target = controller.target
      /\ informed.cooldown = controller.cooldown /\ informed.probe = controller.probe
      /\ informed.lossBefore = controller.lossBefore /\ informed.events = controller.events
  <2>1. known.ceiling \in 0..Maximum
    BY <1>2 DEF PolicyKept
  <2>2. informed \in ControllerType
    BY <1>0, <2>1, Zenon DEF Informed, ControllerType
  <2>3. /\ informed.target = controller.target
        /\ informed.cooldown = controller.cooldown /\ informed.probe = controller.probe
        /\ informed.lossBefore = controller.lossBefore /\ informed.events = controller.events
    BY <1>0 DEF Informed, ControllerType
  <2> QED
    BY <2>2, <2>3
<1> HIDE DEF informed
<1>5. Same(controller, informed)
  BY <1>4 DEF IInv, Same, Sound, ProbeKept, Probing
<1>6. \/ Lowered(controller, delivered)
      \/ HealthyReport(informed, link.loss, path, evaluation.allowIncrease) /\ Calmed(controller, delivered)
  <2>1. \/ Lowered(informed, delivered)
        \/ HealthyReport(informed, link.loss, path, evaluation.allowIncrease) /\ Calmed(informed, delivered)
    BY <1>1, <1>5, DeliveryAnswers DEF IInv, Same, Sane
  <2> HIDE DEF delivered
  <2> QED
    BY <1>5, <2>1, LoweredSame DEF Calmed, Same
<1>7. HealthyReport(informed, link.loss, path, evaluation.allowIncrease)
        => Healthy(evaluation) = TRUE /\ link.loss = "none"
  BY <1>4 DEF HealthyReport, Healthy, Severe, SevereLoss, SeverePath, Degraded
<1>8. Healthy(evaluation) \in BOOLEAN
  BY <1>1 DEF Healthy, Sane
<1> HIDE DEF delivered
<1>9. ASSUME evaluation.reduceTo = 0
      PROVE  Answered(answered, calmAfter)
  <2>1. answered = delivered
    BY <1>9 DEF AnswerDelay
  <2>2. ASSUME Lowered(controller, delivered)
        PROVE  Answered(delivered, Calm(Healthy(evaluation), delivered.target))
    BY <1>8, <2>2, CalmOfLowered
  <2>3. ASSUME HealthyReport(informed, link.loss, path, evaluation.allowIncrease),
               Calmed(controller, delivered)
        PROVE  Answered(delivered, Calm(Healthy(evaluation), delivered.target))
    <3>1. Healthy(evaluation) = TRUE /\ link.loss = "none"
      BY <1>7, <2>3
    <3>2. Answered(delivered, Calm(TRUE, delivered.target))
      BY <2>3, <3>1, CalmOfCalmed
    <3> QED
      BY <3>1, <3>2
  <2>4. Answered(delivered, Calm(Healthy(evaluation), delivered.target))
    BY <1>6, <2>2, <2>3
  <2> HIDE DEF answered
  <2> QED
    BY <2>1, <2>4
<1>10. ASSUME evaluation.reduceTo # 0
       PROVE  Answered(answered, calmAfter)
  <2> DEFINE target == Least(evaluation.reduceTo, delivered.target)
  <2>1. /\ ~evaluation.allowIncrease
        /\ evaluation.reduceTo \in Nat /\ evaluation.reduceTo <= controller.target
        /\ evaluation.reduceTo >= Percentage(controller.target, 75)
    BY <1>1, <1>10 DEF Sane
  <2>2. Lowered(controller, delivered)
    BY <1>6, <2>1 DEF HealthyReport
  <2>3. Sound(delivered) /\ delivered.target \in Nat
    BY <2>2, Numbers DEF Lowered
  <2>4. /\ target \in Nat /\ target <= delivered.target
        /\ target >= Percentage(controller.target, 75)
    BY <2>1, <2>2, <2>3 DEF Least, Lowered
  <2>5. known.retry \in Nat /\ known.retry >= Cooldown
    BY <1>2, PolicyBounds, Bounds DEF PolicyKept
  <2>6. answered = SetLatencyTarget(delivered, target, known.retry)
    BY <1>10 DEF AnswerDelay
  <2> HIDE DEF answered, target
  <2>7. /\ Sound(answered) /\ answered.target >= target /\ answered.target <= delivered.target
        /\ answered.cooldown = known.retry
    BY <2>3, <2>4, <2>5, <2>6, LatencyLowers
  <2>8. answered.target \in Nat /\ Percentage(controller.target, 75) \in Nat
    BY <1>0, <2>7, Numbers, Shares
  <2>9. Lowered(controller, answered)
    BY <1>0, <2>2, <2>3, <2>4, <2>5, <2>7, <2>8 DEF Lowered
  <2> QED
    BY <1>8, <2>9, CalmOfLowered
<1>11. Answered(answered, calmAfter) /\ PolicyKept(policyAfter)
  <2> HIDE DEF answered, calmAfter
  <2> QED
    BY <1>2, <1>9, <1>10, PolicyChanges
<1>12. Answered(controller, calm) /\ PolicyKept(evaluation.policy)
  BY <1>0, <1>1, Shares DEF Answered, IInv, Sane
<1> HIDE DEF answered, calmAfter, policyAfter
<1> QED
  BY <1>3, <1>11, <1>12

LEMMA Start == Init => IInv
<1> SUFFICES ASSUME Init PROVE IInv
  OBVIOUS
<1>1. PICK measured \in Measured : controller = FromStartupProbe(measured)
  BY DEF Init
<1>2. measured \in Nat /\ path \in Nat
  BY LinkAssumption DEF Init
<1>3. Sound(controller) /\ controller.cooldown = 0
  BY <1>1, <1>2, StartSound DEF FromStartupProbe
<1>4. PolicyKept(policy)
  BY PolicyBounds, Bounds DEF Init, PolicyKept, LP!NewPolicy, LP!Unlimited
<1>5. Balanced(controller, calm)
  BY <1>3, Bounds DEF Init, Balanced
<1> QED
  BY <1>2, <1>3, <1>4, <1>5 DEF IInv

(* What every step does.                                                   *)
StepAnswers == Answered(controller', calm') /\ PolicyKept(policy') /\ path' \in Nat

LEMMA StandingStill ==
    ASSUME IInv
    PROVE  Answered(controller, calm)
<1>1. controller.target \in Nat
  BY Numbers DEF IInv
<1> QED
  BY <1>1, Shares DEF Answered, IInv

LEMMA EveryStep == IInv /\ [Next]_vars => StepAnswers
<1> SUFFICES ASSUME IInv, [Next]_vars PROVE StepAnswers
  OBVIOUS
<1>1. ASSUME NEW elapsed, ObserveReceiver(elapsed) PROVE StepAnswers
  <2> DEFINE measured == Measurement(elapsed)
  <2>1. /\ controller' = Outcome(measured, elapsed).controller
        /\ calm' = Outcome(measured, elapsed).calm
        /\ policy' = Outcome(measured, elapsed).policy /\ path' = path
    BY <1>1 DEF ObserveReceiver
  <2>2. PolicyKept(measured)
    BY MeasureKeeps DEF Measurement, IInv
  <2> HIDE DEF measured
  <2> QED
    BY <2>1, <2>2, OutcomeAnswers DEF StepAnswers, IInv
<1>2. CASE Report
  BY <1>1, <1>2 DEF Report
<1>3. CASE IrregularReport
  BY <1>1, <1>3 DEF IrregularReport
<1>4. CASE QueueDrop
  <2>1. Same(controller, controller')
    BY <1>4, SenderAnswers DEF QueueDrop, IInv
  <2>2. Answered(controller', calm)
    BY <2>1, StandingStill DEF Same, Answered, Balanced
  <2> QED
    BY <1>4, <2>2 DEF QueueDrop, StepAnswers, IInv
<1>5. CASE DeadlineExpired
  <2>1. Lowered(controller, controller') /\ calm' = Calm(FALSE, controller'.target)
    BY <1>5, SenderAnswers DEF DeadlineExpired, IInv
  <2>2. Answered(controller', calm')
    BY <2>1, CalmOfLowered
  <2>3. PolicyKept(policy')
    BY <1>5, PolicyChanges DEF DeadlineExpired, IInv
  <2> QED
    BY <1>5, <2>2, <2>3 DEF DeadlineExpired, StepAnswers, IInv
<1>6. CASE GetWorse
  BY <1>6, StandingStill DEF GetWorse, StepAnswers, IInv
<1>7. CASE GetBetter
  BY <1>7, StandingStill DEF GetBetter, StepAnswers, IInv
<1>8. CASE PathGrows
  BY <1>8, StandingStill, LinkAssumption DEF PathGrows, StepAnswers, IInv
<1>9. CASE UNCHANGED vars
  BY <1>9, StandingStill DEF vars, StepAnswers, IInv
<1> QED
  BY <1>2, <1>3, <1>4, <1>5, <1>6, <1>7, <1>8, <1>9 DEF Next

LEMMA Kept == IInv /\ [Next]_vars => IInv'
  BY EveryStep DEF StepAnswers, Answered, IInv

(* The invariant of the controller: its targets stay between the lowest    *)
(* and the selected bitrate, its counters and limits in their ranges       *)
(* (host-core/src/lib.rs), an active probe is one of the current target,   *)
(* and healthy reports since the last cut make up for the cooldown.        *)
THEOREM ControllerKept == Spec => []IInv
  BY Start, Kept, PTL DEF Spec

(* A report costs a quarter of the bitrate at most                         *)
(* (observe_receiver_with_latency, video_stream.rs:123).                   *)
THEOREM OneCut == Spec => OneCutPerReport
<1>1. IInv /\ [Next]_vars => [controller'.target >= Percentage(controller.target, 75)]_vars
  BY EveryStep DEF StepAnswers, Answered
<1> QED
  BY <1>1, ControllerKept, PTL DEF Spec, OneCutPerReport

(* The bitrate rises only in a report without loss, when the healthy       *)
(* reports since the last cut fill the cooldown (lib.rs:459).              *)
THEOREM Earned == Spec => RiseEarned
<1>1. IInv /\ [Next]_vars =>
        [controller'.target > controller.target => link.loss = "none" /\ calm' = Cooldown]_vars
  BY EveryStep DEF StepAnswers, Answered
<1> QED
  BY <1>1, ControllerKept, PTL DEF Spec, RiseEarned

-----------------------------------------------------------------------------
(* The baseline of a channel is a delay that has been measured.            *)

Positive == Nat \ {0}

(* A set of natural numbers has a least one.                               *)
LEMMA LeastOf ==
    ASSUME NEW S, S \subseteq Nat, S # {}
    PROVE  LP!Min(S) \in S
<1>1. \E x \in S : \A y \in S : ~(<<y, x>> \in OpToRel(<, Nat))
  BY NatLessThanWellFounded, WFMin
<1>2. PICK x \in S : \A y \in S : ~(<<y, x>> \in OpToRel(<, Nat))
  BY <1>1
<1>3. ASSUME NEW y \in S
      PROVE  x <= y
  <2>1. x \in Nat /\ y \in Nat
    OBVIOUS
  <2>2. ~(<<y, x>> \in {ss \in Nat \X Nat : ss[1] < ss[2]})
    BY <1>2 DEF OpToRel
  <2> QED
    BY <2>1, <2>2
<1> QED
  BY <1>3 DEF LP!Min

(* The second lowest of a window is one of its delays.                    *)
LEMMA SecondPositive ==
    ASSUME NEW window \in Seq(Positive), Len(window) >= 2
    PROVE  LP!SecondLowest(window) \in Positive
<1> DEFINE second == {j \in DOMAIN window : \E k \in DOMAIN window \ {j} : window[k] <= window[j]}
           values == {window[i] : i \in second}
<1>1. DOMAIN window = 1..Len(window) /\ Len(window) \in Nat
  BY LenProperties
<1>2. 1 \in DOMAIN window /\ 2 \in DOMAIN window
  BY <1>1
<1>3. \A i \in DOMAIN window : window[i] \in Positive
  BY <1>1, ElementOfSeq
<1>4. window[1] \in Nat /\ window[2] \in Nat
  BY <1>2, <1>3 DEF Positive
<1>5. 1 \in second \/ 2 \in second
  <2>1. CASE window[1] <= window[2]
    BY <1>2, <2>1
  <2>2. CASE window[2] <= window[1]
    BY <1>2, <2>2
  <2> QED
    BY <1>4, <2>1, <2>2
<1>6. values # {} /\ values \subseteq Positive
  BY <1>3, <1>5
<1>7. values \subseteq Nat
  BY <1>6 DEF Positive
<1> HIDE DEF values
<1>8. LP!Min(values) \in values
  BY <1>6, <1>7, LeastOf
<1> QED
  BY <1>6, <1>8 DEF LP!SecondLowest, values

-----------------------------------------------------------------------------
(* The failure clocks.  A channel counts the time above the client's limit *)
(* only when it has a baseline, which is never 0: so a missing baseline    *)
(* cannot hide a clock that still runs.                                    *)

ChannelKept(c) ==
    /\ c = [calibration |-> c.calibration, baseline |-> c.baseline, over |-> c.over]
    /\ c.calibration \in Seq(Positive)
    /\ c.baseline \in Nat /\ c.over \in LP!NotOver..FailureTime
    /\ c.baseline = 0 => c.over = LP!NotOver

LEMMA FailureBound == FailureTime \in Nat /\ FailureTime > 0
  BY LatencyAssumption

(* A clock may be moved where there is a baseline, and stopped anywhere.   *)
LEMMA OverUpdate ==
    ASSUME NEW c, ChannelKept(c), NEW over \in LP!NotOver..FailureTime,
           c.baseline = 0 => over = LP!NotOver
    PROVE  ChannelKept([c EXCEPT !.over = over]) /\ [c EXCEPT !.over = over].over = over
  BY DEF ChannelKept

LEMMA StoppedKept ==
    ASSUME NEW c, ChannelKept(c)
    PROVE  /\ ChannelKept([c EXCEPT !.over = LP!NotOver])
           /\ [c EXCEPT !.over = LP!NotOver].over = LP!NotOver
<1>1. LP!NotOver \in LP!NotOver..FailureTime
  BY FailureBound DEF LP!NotOver
<1> QED
  BY <1>1, OverUpdate

(* A calibrated channel is one, and its clock goes on.                     *)
LEMMA CalibratedKept ==
    ASSUME NEW c, ChannelKept(c), NEW delay \in Positive
    PROVE  ChannelKept(LP!Calibrated(c, delay)) /\ LP!Calibrated(c, delay).over = c.over
<1> DEFINE window == IF Len(c.calibration) = BaselineSamples
                     THEN Append(Tail(c.calibration), delay)
                     ELSE Append(c.calibration, delay)
           second == LP!SecondLowest(window)
           baseline == IF Len(window) < BaselineSamples THEN c.baseline
                       ELSE IF c.baseline = 0 THEN second ELSE LP!Capped(second, c.baseline)
<1>1. /\ c = [calibration |-> c.calibration, baseline |-> c.baseline, over |-> c.over]
      /\ c.calibration \in Seq(Positive)
      /\ c.baseline \in Nat /\ c.over \in LP!NotOver..FailureTime
      /\ c.baseline = 0 => c.over = LP!NotOver
  BY DEF ChannelKept
<1>2. BaselineSamples \in Nat /\ BaselineSamples >= 2
  BY LatencyAssumption
<1>3. window \in Seq(Positive)
  <2>1. Append(c.calibration, delay) \in Seq(Positive)
    BY <1>1, AppendProperties
  <2>2. ASSUME Len(c.calibration) = BaselineSamples
        PROVE  Append(Tail(c.calibration), delay) \in Seq(Positive)
    <3>1. c.calibration # << >>
      BY <1>2, <2>2, EmptySeq
    <3>2. Tail(c.calibration) \in Seq(Positive)
      BY <1>1, <3>1, HeadTailProperties
    <3> QED
      BY <3>2, AppendProperties
  <2> QED
    BY <2>1, <2>2
<1>4. LP!Calibrated(c, delay) = [c EXCEPT !.calibration = window, !.baseline = baseline]
  BY DEF LP!Calibrated
<1> HIDE DEF window
<1>5. Len(window) \in Nat
  BY <1>3, LenProperties
<1>6. Len(window) >= BaselineSamples => second \in Positive
  <2> SUFFICES ASSUME Len(window) >= BaselineSamples PROVE second \in Positive
    OBVIOUS
  <2>1. Len(window) >= 2
    BY <1>2, <1>5
  <2> QED
    BY <1>3, <2>1, SecondPositive
<1> HIDE DEF second
<1>7. /\ baseline \in Nat
      /\ baseline = 0 => c.baseline = 0
  BY <1>1, <1>2, <1>5, <1>6 DEF LP!Capped, Positive
<1> HIDE DEF baseline
<1> DEFINE d == [calibration |-> window, baseline |-> baseline, over |-> c.over]
<1>8. LP!Calibrated(c, delay) = d
  BY <1>1, <1>4
<1>9. ChannelKept(d) /\ d.over = c.over /\ d.baseline = baseline
  BY <1>1, <1>3, <1>7 DEF ChannelKept
<1> QED
  BY <1>7, <1>8, <1>9

Reported(c, p, report, ch, bitrate) ==
    LP!Observed(c, report.delay[ch], ch \in report.active, LP!Settled(p, report), bitrate)

(* A channel in a report: its clock runs on only if the report is above    *)
(* the client's limit at the lowest bitrate.                               *)
LEMMA ObservedKept ==
    ASSUME NEW c, ChannelKept(c), NEW p, NEW report, NEW ch, report.delay[ch] \in Nat,
           NEW bitrate
    PROVE  LET observed == Reported(c, p, report, ch, bitrate)
           IN  /\ ChannelKept(observed)
               /\ \/ observed.over = LP!NotOver
                  \/ /\ ch \in report.active /\ report.delay[ch] > Absolute
                     /\ bitrate = Bootstrap
                     /\ observed.over = LP!Higher(c.over, 0)
<1> DEFINE delay == report.delay[ch]
           active == ch \in report.active
           settled == LP!Settled(p, report)
           d == IF settled THEN LP!Calibrated(c, delay) ELSE c
           fatal == /\ settled /\ bitrate = Bootstrap
                    /\ delay > LP!Budget(d.baseline) /\ delay > Absolute
           observed == Reported(c, p, report, ch, bitrate)
           over == IF fatal THEN LP!Higher(c.over, 0) ELSE LP!NotOver
<1>1. ASSUME ~active \/ delay = 0
      PROVE  ChannelKept(observed) /\ observed.over = LP!NotOver
  <2>1. observed = [c EXCEPT !.over = LP!NotOver]
    BY <1>1 DEF Reported, LP!Observed
  <2> QED
    BY <2>1, StoppedKept
<1>2. ASSUME active, delay # 0
      PROVE  /\ ChannelKept(observed)
             /\ \/ observed.over = LP!NotOver
                \/ /\ active /\ delay > Absolute /\ bitrate = Bootstrap
                   /\ observed.over = LP!Higher(c.over, 0)
  <2>1. delay \in Positive
    BY <1>2 DEF Positive
  <2>2. ChannelKept(d) /\ d.over = c.over
    <3> HIDE DEF delay
    <3> QED
      BY <2>1, CalibratedKept
  <2>3. observed = IF d.baseline = 0 THEN d ELSE [d EXCEPT !.over = over]
    <3>1. observed = IF d.baseline = 0 THEN d
                     ELSE [d EXCEPT !.over = IF fatal THEN LP!Higher(d.over, 0) ELSE LP!NotOver]
      BY <1>2 DEF Reported, LP!Observed
    <3> QED
      BY <2>2, <3>1
  <2> HIDE DEF d, observed
  <2>4. CASE d.baseline = 0
    BY <2>2, <2>3, <2>4 DEF ChannelKept
  <2>5. CASE d.baseline # 0
    <3>1. over \in LP!NotOver..FailureTime
      BY FailureBound DEF ChannelKept, LP!Higher, LP!NotOver
    <3>2. ChannelKept(observed) /\ observed.over = over
      <4> HIDE DEF over
      <4> QED
        BY <2>2, <2>3, <2>5, <3>1, OverUpdate
    <3> QED
      BY <1>2, <3>2
  <2> QED
    BY <2>4, <2>5
<1> HIDE DEF observed
<1> QED
  BY <1>1, <1>2 DEF observed
(* The clocks of all channels stay below the times of the property.        *)
Limited(channels, limits) ==
    \A ch \in Channels : ChannelKept(channels[ch]) /\ channels[ch].over <= limits[ch]

Times == [Channels -> LP!NotOver..FailureTime]

ClockInv ==
    /\ link \in Links /\ overLimit \in Times
    /\ Limited(policy.channels, overLimit)
    /\ FailureJustified

LEMMA StopLimited ==
    ASSUME NEW p, PolicyKept(p), NEW limits \in Times, Limited(p.channels, limits)
    PROVE  /\ Limited(LP!StopClocks(p).channels, limits)
           /\ \A ch \in Channels : LP!StopClocks(p).channels[ch].over = LP!NotOver
<1> DEFINE stopped == [ch \in Channels |-> [p.channels[ch] EXCEPT !.over = LP!NotOver]]
<1>1. LP!StopClocks(p).channels = stopped
  BY DEF LP!StopClocks, PolicyKept
<1>2. ASSUME NEW ch \in Channels
      PROVE  /\ ChannelKept(stopped[ch]) /\ stopped[ch].over = LP!NotOver
             /\ LP!NotOver <= limits[ch]
  <2>1. stopped[ch] = [p.channels[ch] EXCEPT !.over = LP!NotOver]
    OBVIOUS
  <2>2. ChannelKept(p.channels[ch])
    BY DEF Limited
  <2>3. ChannelKept(stopped[ch]) /\ stopped[ch].over = LP!NotOver
    BY <2>1, <2>2, StoppedKept
  <2>4. LP!NotOver <= limits[ch]
    BY FailureBound DEF Times, LP!NotOver
  <2> QED
    BY <2>3, <2>4
<1> HIDE DEF stopped
<1> QED
  BY <1>1, <1>2 DEF Limited

(* What is left of a clock after the time since the last report.           *)
After(c, elapsed) ==
    IF elapsed > ReportGap \/ c.over = LP!NotOver THEN LP!NotOver
    ELSE LP!Capped(c.over + elapsed, FailureTime)

LEMMA FreshChannels ==
    ASSUME NEW p, PolicyKept(p), NEW elapsed \in Nat,
           \A ch \in Channels : ChannelKept(p.channels[ch])
    PROVE  LET aged == LP!Elapse(p, elapsed)
               fresh == IF elapsed > ReportGap THEN LP!ResetObservation(aged) ELSE aged
           IN  \A ch \in Channels : /\ ChannelKept(fresh.channels[ch])
                                    /\ fresh.channels[ch].over = After(p.channels[ch], elapsed)
<1> DEFINE aged == LP!Elapse(p, elapsed)
           later(c) == IF c.over = LP!NotOver THEN LP!NotOver
                       ELSE LP!Capped(c.over + elapsed, FailureTime)
           channels == [ch \in Channels |-> [p.channels[ch] EXCEPT !.over = later(p.channels[ch])]]
           reset == LP!ResetObservation(aged)
           stopped == [ch \in Channels |-> [aged.channels[ch] EXCEPT !.over = LP!NotOver]]
<1>1. aged.channels = channels
  <2>1. aged = [p EXCEPT !.changed = LP!Capped(@ + elapsed, ProvenHold),
                         !.sinceCut = LP!Capped(@ + elapsed, IncidentTime),
                         !.channels = channels]
    BY DEF LP!Elapse, LP!Aged
  <2> HIDE DEF channels
  <2> QED
    BY <2>1 DEF PolicyKept
<1>2. PolicyKept(aged)
  BY PolicyChanges
<1>3. ASSUME NEW ch \in Channels
      PROVE  ChannelKept(channels[ch]) /\ channels[ch].over = later(p.channels[ch])
  <2> DEFINE c == p.channels[ch]
  <2>1. ChannelKept(c) /\ channels[ch] = [c EXCEPT !.over = later(c)]
    OBVIOUS
  <2>3. later(c) \in LP!NotOver..FailureTime
    BY <2>1, FailureBound DEF ChannelKept, LP!Capped, LP!NotOver
  <2>4. c.baseline = 0 => later(c) = LP!NotOver
    BY <2>1 DEF ChannelKept
  <2> HIDE DEF later, c
  <2>5. ChannelKept([c EXCEPT !.over = later(c)]) /\ [c EXCEPT !.over = later(c)].over = later(c)
    BY <2>1, <2>3, <2>4, OverUpdate
  <2> QED
    BY <2>1, <2>5 DEF c
<1> HIDE DEF aged, channels
<1>4. reset.channels = stopped
  <2> DEFINE anew == [aged EXCEPT !.streak = 0]
  <2>1. PolicyKept(anew)
    BY <1>2, PolicyUpdates
  <2>2. anew.channels = aged.channels
    BY <1>2 DEF PolicyKept
  <2>3. reset = [anew EXCEPT !.channels = [ch \in Channels |-> [anew.channels[ch] EXCEPT !.over = LP!NotOver]]]
    BY DEF LP!ResetObservation, LP!StopClocks
  <2> HIDE DEF anew
  <2> QED
    BY <2>1, <2>2, <2>3 DEF PolicyKept
<1>5. ASSUME NEW ch \in Channels
      PROVE  ChannelKept(stopped[ch]) /\ stopped[ch].over = LP!NotOver
  <2>1. stopped[ch] = [channels[ch] EXCEPT !.over = LP!NotOver]
    BY <1>1
  <2> QED
    BY <1>3, <2>1, StoppedKept
<1> HIDE DEF reset, stopped
<1>6. CASE elapsed > ReportGap
  BY <1>4, <1>5, <1>6 DEF After, aged, reset
<1>7. CASE ~(elapsed > ReportGap)
  BY <1>1, <1>3, <1>7 DEF After, aged
<1> QED
  BY <1>6, <1>7

(* A report that is measured.                                              *)
LEMMA MeasuredLimited ==
    ASSUME ClockInv, PolicyKept(policy), NEW elapsed \in Nat
    PROVE  OverLimit(elapsed) \in Times
           /\ Limited(Measurement(elapsed).channels, OverLimit(elapsed))
<1> DEFINE aged == LP!Elapse(policy, elapsed)
           fresh == IF elapsed > ReportGap THEN LP!ResetObservation(aged) ELSE aged
           channels == [ch \in Channels |->
                          Reported(fresh.channels[ch], aged, link, ch, controller.target)]
           limits == OverLimit(elapsed)
<1>1. \A ch \in Channels : /\ ChannelKept(fresh.channels[ch])
                           /\ fresh.channels[ch].over = After(policy.channels[ch], elapsed)
  BY FreshChannels DEF ClockInv, Limited
<1>2. PolicyKept(fresh)
  <2>1. PolicyKept(aged)
    BY PolicyChanges
  <2> HIDE DEF aged
  <2> QED
    BY <2>1, PolicyChanges
<1>3. Measurement(elapsed).channels = channels
  <2>1. Measurement(elapsed) = [fresh EXCEPT !.channels = channels]
    BY DEF Measurement, LP!Measure, Reported
  <2> HIDE DEF fresh, channels
  <2> QED
    BY <1>2, <2>1 DEF PolicyKept
<1> HIDE DEF aged, fresh
<1>5. ReportGap \in Nat
  BY LatencyAssumption
<1>6. ASSUME NEW ch \in Channels
      PROVE  /\ limits[ch] \in LP!NotOver..FailureTime
             /\ ChannelKept(channels[ch]) /\ channels[ch].over <= limits[ch]
  <2> DEFINE c == policy.channels[ch]
             observed == Reported(fresh.channels[ch], aged, link, ch, controller.target)
             counted == ch \in link.active /\ link.delay[ch] > Absolute /\ controller.target = Bootstrap
  <2>1. link.delay[ch] \in Nat
    BY LinkAssumption DEF ClockInv
  <2>2. /\ ChannelKept(observed)
        /\ \/ observed.over = LP!NotOver
           \/ counted /\ observed.over = LP!Higher(After(c, elapsed), 0)
    BY <1>1, <2>1, ObservedKept
  <2>3. limits[ch] = IF ~counted THEN LP!NotOver
                     ELSE IF overLimit[ch] = LP!NotOver \/ elapsed > ReportGap THEN 0
                     ELSE Least(overLimit[ch] + elapsed, FailureTime)
    BY DEF OverLimit
  <2>4. /\ overLimit[ch] \in LP!NotOver..FailureTime
        /\ c.over \in LP!NotOver..FailureTime /\ c.over <= overLimit[ch]
    BY DEF ClockInv, Times, Limited, ChannelKept
  <2> HIDE DEF observed, counted, limits, c
  <2>5. limits[ch] \in LP!NotOver..FailureTime
    BY <2>3, <2>4, FailureBound DEF Least, LP!NotOver
  <2>6. observed.over <= limits[ch]
    BY <1>5, <2>2, <2>3, <2>4, FailureBound DEF Least, LP!NotOver, LP!Higher, LP!Capped, After
  <2>7. channels[ch] = observed
    BY DEF observed
  <2> QED
    BY <2>2, <2>5, <2>6, <2>7
<1>7. limits \in Times
  <2>1. limits = [ch \in Channels |-> limits[ch]]
    BY DEF OverLimit
  <2> HIDE DEF limits
  <2> QED
    BY <1>6, <2>1 DEF Times
<1> HIDE DEF limits, channels
<1> QED
  BY <1>3, <1>6, <1>7 DEF Limited, limits
(* Its judgement leaves the channels as they are.                          *)
LEMMA JudgedSame ==
    ASSUME NEW m, PolicyKept(m), NEW report, NEW bitrate
    PROVE  LP!ObserveDelay(m, report, bitrate).policy.channels = m.channels
<1> DEFINE calmed == [m EXCEPT !.streak = 0]
           waited == [m EXCEPT !.streak = LP!Capped(@ + 1, 2)]
           pressure == LP!Pressure(m, report)
           made == LP!CutFor(calmed, pressure, bitrate)
           judged == LP!ObserveDelay(m, report, bitrate).policy
<1>1. judged \in {calmed, waited, made, LP!RaiseCeiling(calmed, bitrate)}
  BY DEF LP!ObserveDelay, LP!AnswerExcess, LP!Evaluation
<1>0. PolicyKept(calmed)
  BY PolicyUpdates
<1>2. calmed.channels = m.channels /\ waited.channels = m.channels
  BY DEF PolicyKept
<1> HIDE DEF calmed, waited
<1>3. LP!RaiseCeiling(calmed, bitrate).channels = m.channels
  BY <1>0, <1>2 DEF LP!RaiseCeiling, PolicyKept
<1>4. made.channels = m.channels
  BY <1>0, <1>2 DEF LP!CutFor, LP!LearnCeiling, PolicyKept
<1> HIDE DEF made, judged
<1> QED
  BY <1>1, <1>2, <1>3, <1>4 DEF judged

LEMMA KnownSame ==
    ASSUME NEW p, PolicyKept(p)
    PROVE  PolicyKept(KnownCeiling(p)) /\ KnownCeiling(p).channels = p.channels
<1>1. LP!ForgetCeiling(p).channels = p.channels
  BY DEF LP!ForgetCeiling, PolicyKept
<1> QED
  BY <1>1, PolicyChanges DEF KnownCeiling

LEMMA ChangedLimited ==
    ASSUME NEW p, PolicyKept(p), NEW limits \in Times, Limited(p.channels, limits)
    PROVE  /\ Limited(LP!BitrateChanged(p).channels, limits)
           /\ \A ch \in Channels : LP!BitrateChanged(p).channels[ch].over = LP!NotOver
<1> DEFINE changed == [p EXCEPT !.changed = 0]
<1>1. PolicyKept(changed)
  BY PolicyUpdates
<1>2. changed.channels = p.channels
  BY DEF PolicyKept
<1> HIDE DEF changed
<1> QED
  BY <1>1, <1>2, StopLimited DEF LP!BitrateChanged, changed

(* A clock that has run out justifies the failure.                         *)
LEMMA OutcomeLimited ==
    ASSUME IInv, ~ended, NEW measured, PolicyKept(measured), NEW elapsed,
           OverLimit(elapsed) \in Times, Limited(measured.channels, OverLimit(elapsed))
    PROVE  LET outcome == Outcome(measured, elapsed)
           IN  /\ outcome.overLimit = OverLimit(elapsed)
               /\ Limited(outcome.policy.channels, outcome.overLimit)
               /\ outcome.ended => \E ch \in Channels : outcome.overLimit[ch] = FailureTime
<1> DEFINE evaluation == LP!ObserveDelay(measured, link, controller.target)
           judged == evaluation.policy
           known == KnownCeiling(judged)
           delivered == ObserveDelivery(Informed(known), link.loss, path, evaluation.allowIncrease)
           answered == AnswerDelay(delivered, evaluation, known)
           changed == answered.target # controller.target
           outcome == Outcome(measured, elapsed)
           limits == OverLimit(elapsed)
<1>1. /\ outcome.overLimit = limits
      /\ \/ outcome.policy = judged /\ outcome.ended = TRUE /\ LP!Failed(judged)
         \/ /\ outcome.policy \in {known, LP!BitrateChanged(known)}
            /\ outcome.ended = ended
  BY DEF Outcome, Decided

<1>2. PolicyKept(judged) /\ judged.channels = measured.channels
  <2>1. controller.target \in Bootstrap..Maximum
    BY Fields DEF IInv, Sound
  <2> QED
    BY <2>1, DelayAnswers, JudgedSame DEF Sane
<1> HIDE DEF evaluation, outcome, limits
<1>3. PolicyKept(known) /\ known.channels = measured.channels
  BY <1>2, KnownSame
<1> HIDE DEF known
<1>4. Limited(LP!BitrateChanged(known).channels, limits)
  <2>1. limits \in Times /\ Limited(known.channels, limits)
    BY <1>3 DEF limits
  <2> QED
    BY <1>3, <2>1, ChangedLimited
<1>5. Limited(judged.channels, limits) /\ Limited(known.channels, limits)
  BY <1>2, <1>3 DEF limits
<1>6. LP!Failed(judged) => \E ch \in Channels : limits[ch] = FailureTime
  <2> SUFFICES ASSUME LP!Failed(judged) PROVE \E ch \in Channels : limits[ch] = FailureTime
    OBVIOUS
  <2>1. PICK ch \in Channels : judged.channels[ch].over >= FailureTime
    BY DEF LP!Failed
  <2>2. /\ judged.channels[ch].over \in LP!NotOver..FailureTime
        /\ judged.channels[ch].over <= limits[ch]
    BY <1>5 DEF Limited, ChannelKept
  <2>3. limits[ch] \in LP!NotOver..FailureTime
    BY DEF limits, Times
  <2>4. limits[ch] = FailureTime
    BY <2>1, <2>2, <2>3, FailureBound DEF LP!NotOver
  <2> QED
    BY <2>4
<1> HIDE DEF limits
<1>7. /\ outcome.overLimit = limits
      /\ Limited(outcome.policy.channels, limits)
      /\ outcome.ended => \E ch \in Channels : limits[ch] = FailureTime
  BY <1>1, <1>4, <1>5, <1>6
<1> QED
  BY <1>7 DEF outcome, limits

LEMMA StartClocks == Init => ClockInv
<1> SUFFICES ASSUME Init PROVE ClockInv
  OBVIOUS
<1> DEFINE new == [calibration |-> << >>, baseline |-> 0, over |-> LP!NotOver]
<1>1. ChannelKept(new) /\ LP!NotOver \in LP!NotOver..FailureTime /\ LP!NotOver <= LP!NotOver
  BY FailureBound, EmptySeq DEF ChannelKept, LP!NotOver
<1>2. policy.channels = [ch \in Channels |-> new]
  BY DEF Init, LP!NewPolicy
<1>3. overLimit = [ch \in Channels |-> LP!NotOver] /\ overLimit \in Times
  BY <1>1 DEF Init, Times
<1>4. new.over = LP!NotOver
  OBVIOUS
<1> HIDE DEF new
<1>5. Limited(policy.channels, overLimit)
  BY <1>1, <1>2, <1>3, <1>4 DEF Limited
<1> QED
  BY <1>3, <1>5, LinkAssumption DEF Init, ClockInv, FailureJustified

(* A step keeps the clocks; a report is the only one that ends.            *)
LEMMA ReportClocks ==
    ASSUME IInv, ClockInv, NEW elapsed \in Nat, ObserveReceiver(elapsed)
    PROVE  ClockInv'
<1> DEFINE measured == Measurement(elapsed)
           outcome == Outcome(measured, elapsed)
<1>1. /\ policy' = outcome.policy /\ overLimit' = outcome.overLimit
      /\ ended' = outcome.ended /\ link' = link
  BY DEF ObserveReceiver
<1>2. PolicyKept(measured)
  BY MeasureKeeps DEF Measurement, IInv
<1>3. OverLimit(elapsed) \in Times /\ Limited(measured.channels, OverLimit(elapsed))
  BY MeasuredLimited DEF IInv
<1> HIDE DEF measured
<1>4. /\ outcome.overLimit = OverLimit(elapsed)
      /\ Limited(outcome.policy.channels, outcome.overLimit)
      /\ outcome.ended => \E ch \in Channels : outcome.overLimit[ch] = FailureTime
  BY <1>2, <1>3, OutcomeLimited DEF ObserveReceiver
<1> HIDE DEF outcome
<1> QED
  BY <1>1, <1>3, <1>4 DEF ClockInv, FailureJustified, Limited

LEMMA ClocksKept == IInv /\ ClockInv /\ [Next]_vars => ClockInv'
<1> SUFFICES ASSUME IInv, ClockInv, [Next]_vars PROVE ClockInv'
  OBVIOUS
<1>1. CASE Report
  <2>1. 1 \in Nat
    OBVIOUS
  <2> QED
    BY <1>1, <2>1, ReportClocks DEF Report
<1>2. CASE IrregularReport
  <2>1. 0 \in Nat /\ ReportGap + 1 \in Nat
    BY LatencyAssumption
  <2> QED
    BY <1>2, <2>1, ReportClocks DEF IrregularReport
<1>3. CASE DeadlineExpired
  <2>1. CASE UNCHANGED <<policy, overLimit>>
    BY <1>3, <2>1 DEF DeadlineExpired, ClockInv, FailureJustified, Limited
  <2>2. CASE /\ policy' = LP!BitrateChanged(policy)
             /\ overLimit' = [ch \in Channels |-> LP!NotOver]
    <3>1. Limited(LP!BitrateChanged(policy).channels, overLimit)
      BY ChangedLimited DEF IInv, ClockInv
    <3>2. \A ch \in Channels : LP!BitrateChanged(policy).channels[ch].over = LP!NotOver
      BY ChangedLimited DEF IInv, ClockInv
    <3>3. LP!NotOver \in LP!NotOver..FailureTime /\ LP!NotOver <= LP!NotOver
      BY FailureBound DEF LP!NotOver
    <3>5. Limited(policy'.channels, overLimit')
      BY <2>2, <3>1, <3>2, <3>3 DEF Limited
    <3>6. overLimit' \in Times
      BY <2>2, <3>3 DEF Times
    <3> QED
      BY <1>3, <3>5, <3>6 DEF DeadlineExpired, ClockInv, FailureJustified, Limited
  <2> QED
    BY <1>3, <2>1, <2>2 DEF DeadlineExpired
<1>4. CASE QueueDrop
  BY <1>4 DEF QueueDrop, ClockInv, FailureJustified, Limited
<1>5. CASE GetWorse
  BY <1>5 DEF GetWorse, ClockInv, FailureJustified, Limited
<1>6. CASE GetBetter
  BY <1>6, LinkAssumption DEF GetBetter, ClockInv, FailureJustified, Limited
<1>7. CASE PathGrows
  BY <1>7 DEF PathGrows, ClockInv, FailureJustified, Limited
<1>8. CASE UNCHANGED vars
  BY <1>8 DEF vars, ClockInv, FailureJustified, Limited
<1> QED
  BY <1>1, <1>2, <1>3, <1>4, <1>5, <1>6, <1>7, <1>8 DEF Next

(* A session is ended for its delay only when the reports of one channel   *)
(* have been above the client's limit for the whole failure time, at the   *)
(* lowest bitrate and without interruption (LatencyPolicy::observe,        *)
(* latency.rs:80).                                                         *)
THEOREM FailureJustifiedAlways == Spec => []FailureJustified
<1>1. Init => IInv /\ ClockInv
  BY Start, StartClocks
<1>2. IInv /\ ClockInv /\ [Next]_vars => (IInv /\ ClockInv)'
  BY Kept, ClocksKept
<1>3. IInv /\ ClockInv => FailureJustified
  BY DEF ClockInv
<1> QED
  BY <1>1, <1>2, <1>3, PTL DEF Spec
=============================================================================
