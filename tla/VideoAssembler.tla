---------------------------- MODULE VideoAssembler ----------------------------
(***************************************************************************)
(* The player's VideoFrameAssembler.  It collects the chunks of encoded    *)
(* frames, gives up a frame that misses its deadline, and hands out        *)
(* complete ones.  With resends it holds a complete frame back until every *)
(* older frame is complete or given up.  The network delivers any chunk at *)
(* any time, once, many times or never.                                    *)
(*                                                                         *)
(* All chunks of a frame carry the same header.  Times are in ticks and    *)
(* relative to now, so the clock can run for ever.                         *)
(***************************************************************************)
EXTENDS Ascending, Sequences, FiniteSetsExt, SequencesExt

CONSTANTS
  Window,       \* RESEND_PARTIAL_FRAMES or PARTIAL_FRAMES
  Budget,       \* frame_budget, in ticks
  SilenceSpan,  \* SILENCE_FRAME_PERIODS frame periods, in ticks
  Chunks,       \* per frame: its chunks
  Keyframes,    \* the sequence numbers of keyframes
  MaxSequence,  \* bound: the newest frame of the stream
  MaxSilence    \* bound: ticks between two datagrams

ASSUME ConstantsAssumption ==
  /\ {Window, Budget, SilenceSpan} \subseteq Nat \ {0}
  /\ MaxSequence \in Nat /\ MaxSilence \in Nat
  /\ Keyframes \subseteq 0..MaxSequence
  /\ \A s \in 0..MaxSequence : Chunks[s] # {}

VARIABLES
  resend,      \* whether both ends support resends, from the negotiation on
  partial,     \* per incomplete frame: chunks, time left, time since it started
  unseen,      \* per frame the link swallowed whole: time left
  newest,      \* newest_sequence
  completed,   \* newest_completed_sequence; with resends also released_sequence
  held,        \* ResendState.ready
  owed,        \* ResendState.dependency_lost
  silence,     \* time since the last datagram
  result,      \* what Receiver.datagram got out of the last datagram
  handed       \* history: the frames handed out

vars == <<resend, partial, unseen, newest, completed, held, owed, silence, result, handed>>

None == -1
Sequence == 0..MaxSequence
PartialFrame(s) == [got : SUBSET Chunks[s], left : Int, age : Nat]

Least(a, b) == IF a < b THEN a ELSE b
From(f, s) == Restrict(f, {t \in DOMAIN f : t >= s})

-----------------------------------------------------------------------------

Init ==
  /\ resend \in BOOLEAN
  /\ partial = <<>>
  /\ unseen = <<>>
  /\ newest = None
  /\ completed = None
  /\ held = {}
  /\ owed = FALSE
  /\ silence = 0
  /\ result = [frames |-> <<>>, lost |-> FALSE]
  /\ handed = {}

-----------------------------------------------------------------------------
(* What every datagram does first. *)

(* extend_deadlines_across_silence *)
Extended(frame) ==
  CASE silence < SilenceSpan -> frame
    [] ~resend -> [frame EXCEPT !.left = @ + silence]
    [] OTHER -> [frame EXCEPT !.left = Least(@ + silence, 2 * Budget - frame.age)]

(* expire *)
LivePartial ==
  LET extended == [s \in DOMAIN partial |-> Extended(partial[s])]
  IN Restrict(extended, {s \in DOMAIN partial : extended[s].left > 0})
LiveUnseen == Restrict(unseen, {s \in DOMAIN unseen : unseen[s] > 0})
Expired == DOMAIN LivePartial # DOMAIN partial \/ DOMAIN LiveUnseen # DOMAIN unseen

-----------------------------------------------------------------------------
(* Handing frames out. *)

(* Frames are released in order up to the oldest that is still awaited.    *)
Releasable(waiting, pending) ==
  IF resend THEN InOrder({s \in waiting : \A t \in pending : s <= t}) ELSE <<>>

Skipped(previous, s) == previous # None /\ s > previous + 1
Before(frames, i) == IF i = 1 THEN completed ELSE frames[i - 1]

(* The loss that next_ready leaves on record after the frames from..to.    *)
SkipsForgotten(frames, from, to, lost) ==   \* mutant
  lost /\ \A i \in from..to : frames[i] \notin Keyframes
LossAfter(frames, from, to, lost) ==
  LET DeltasFrom(i) == \A j \in i..to : frames[j] \notin Keyframes
  IN \/ lost /\ DeltasFrom(from)
     \/ \E i \in from..to : Skipped(Before(frames, i), frames[i]) /\ DeltasFrom(i)

(* push, and the calls of next_ready after it.  push collects the loss as  *)
(* soon as the first frame is out; what comes after it stays owed.         *)
HandOut(lost, waiting, pending) ==
  LET frames == Releasable(waiting, pending)
      first == Least(1, Len(frames))
  IN /\ result' = [frames |-> frames, lost |-> lost \/ LossAfter(frames, 1, first, owed)]
     /\ owed' = LossAfter(frames, 2, Len(frames), FALSE)
     /\ completed' = IF frames = <<>> THEN completed ELSE Last(frames)
     /\ held' = waiting \ ToSet(frames)
     /\ handed' = handed \union ToSet(frames)

-----------------------------------------------------------------------------
(* push_chunk, by the outcome for a chunk c of frame s. *)

(* The frame is not complete already, and no newer one was handed out.     *)
Wanted(s) == s > completed /\ s \notin held
TooOld(s) == newest # None /\ s + Window < newest

IgnoreChunk(s) ==
  /\ ~Wanted(s)
  /\ partial' = LivePartial
  /\ unseen' = LiveUnseen
  /\ UNCHANGED newest
  /\ HandOut(Expired, held, DOMAIN partial' \union DOMAIN unseen')

RefuseLateChunk(s) ==
  /\ Wanted(s)
  /\ TooOld(s)
  /\ partial' = LivePartial
  /\ unseen' = LiveUnseen
  /\ UNCHANGED newest
  /\ HandOut(TRUE, held, DOMAIN partial' \union DOMAIN unseen')

(* The frames that chunk s of a new frame reveals as swallowed by the link. *)
SwallowedBefore(s) ==
  IF newest = None THEN {} ELSE {t \in (newest + 1)..(s - 1) : t >= s - Window}
UnseenAfter(s) ==
  IF ~resend THEN <<>>
  ELSE [t \in (DOMAIN LiveUnseen \ {s}) \union SwallowedBefore(s) |->
          IF t \in SwallowedBefore(s) THEN Budget ELSE LiveUnseen[t]]

(* A new frame may push out the oldest incomplete one.                     *)
Overflows(s) ==
  s \notin DOMAIN LivePartial /\ Cardinality(DOMAIN LivePartial) >= Window
RoomFor(s) ==
  IF Overflows(s)
  THEN Restrict(LivePartial, DOMAIN LivePartial \ {Min(DOMAIN LivePartial)})
  ELSE LivePartial
WithChunk(s, c) ==
  IF s \in DOMAIN LivePartial THEN [LivePartial[s] EXCEPT !.got = @ \union {c}]
  ELSE [got |-> {c}, left |-> Budget, age |-> 0]

AddChunk(s, c) ==
  /\ Wanted(s)
  /\ ~TooOld(s)
  /\ WithChunk(s, c).got # Chunks[s]
  /\ partial' = [t \in {s} \union DOMAIN RoomFor(s) |->
                   IF t = s THEN WithChunk(s, c) ELSE RoomFor(s)[t]]
  /\ unseen' = UnseenAfter(s)
  /\ newest' = IF s > newest THEN s ELSE newest
  /\ HandOut(Expired \/ Overflows(s), held, DOMAIN partial' \union DOMAIN unseen')

Others(s) == Restrict(RoomFor(s), DOMAIN RoomFor(s) \ {s})
LossBefore(s) == s \notin Keyframes /\ (Expired \/ Overflows(s))

(* A held keyframe replaces everything older.                              *)
KeyframeKeepsOlder(s, f) == f                                    \* mutant
StillAwaited(s, f) == IF s \in Keyframes THEN From(f, s) ELSE f

CompleteHeldFrame(s, c) ==
  /\ resend
  /\ Wanted(s)
  /\ ~TooOld(s)
  /\ WithChunk(s, c).got = Chunks[s]
  /\ partial' = StillAwaited(s, Others(s))
  /\ unseen' = StillAwaited(s, UnseenAfter(s))
  /\ newest' = IF s > newest THEN s ELSE newest
  /\ HandOut(LossBefore(s),
             {s} \union {t \in held : s \in Keyframes => t >= s},
             DOMAIN partial' \union DOMAIN unseen')

CompleteFrame(s, c) ==
  /\ ~resend
  /\ Wanted(s)
  /\ ~TooOld(s)
  /\ WithChunk(s, c).got = Chunks[s]
  /\ partial' = Others(s)
  /\ newest' = IF s > newest THEN s ELSE newest
  /\ completed' = s
  /\ result' = [frames |-> <<s>>,
                lost |-> LossBefore(s) \/ LossAfter(<<s>>, 1, 1, FALSE)]
  /\ handed' = handed \union {s}
  /\ UNCHANGED <<unseen, held, owed>>

Push(s, c) ==
  /\ \/ IgnoreChunk(s) \/ RefuseLateChunk(s)
     \/ AddChunk(s, c) \/ CompleteHeldFrame(s, c) \/ CompleteFrame(s, c)
  /\ silence' = 0
  /\ UNCHANGED resend

-----------------------------------------------------------------------------

Tick ==
  /\ silence < MaxSilence
  /\ silence' = silence + 1
  /\ partial' = [s \in DOMAIN partial |->
                   [partial[s] EXCEPT !.left = @ - 1, !.age = Least(@ + 1, 2 * Budget)]]
  /\ unseen' = [s \in DOMAIN unseen |-> IF unseen[s] = 0 THEN 0 ELSE unseen[s] - 1]
  /\ UNCHANGED <<resend, newest, completed, held, owed, result, handed>>

Next == Tick \/ \E s \in Sequence : \E c \in Chunks[s] : Push(s, c)

Spec == Init /\ [][Next]_vars

-----------------------------------------------------------------------------
(* Properties *)

(* Every variable has its type, and no more than Window frames are open.   *)
TypeOK ==
  /\ DOMAIN partial \subseteq Sequence /\ Cardinality(DOMAIN partial) <= Window
  /\ \A s \in DOMAIN partial : partial[s] \in PartialFrame(s) /\ partial[s].left <= Budget
  /\ DOMAIN unseen \subseteq Sequence
  /\ \A s \in DOMAIN unseen : unseen[s] \in 0..Budget
  /\ newest \in Sequence \union {None} /\ completed \in Sequence \union {None}
  /\ held \subseteq Sequence /\ handed \subseteq Sequence
  /\ resend \in BOOLEAN /\ silence \in 0..MaxSilence
  /\ owed \in BOOLEAN /\ result.lost \in BOOLEAN /\ result.frames \in Seq(Sequence)

(* Frames come out in the order of the stream, each at most once, and a    *)
(* delta frame never comes out after a gap without the loss being reported *)
(* or still owed, unless a keyframe in the same batch ends the loss.       *)
SkipsReported ==
  \A i \in DOMAIN result'.frames :
    LET frames == result'.frames
        previous == Before(frames, i)
    IN completed' # completed =>
         /\ frames[i] > previous
         /\ Skipped(previous, frames[i]) =>
              \/ result'.lost \/ owed'
              \/ \E j \in i..Len(frames) : frames[j] \in Keyframes
LossesReported == [][SkipsReported]_vars

(* With resends, expiry, eviction and gaps report a loss only when a frame *)
(* is missing that the decoder can still need, one after the last keyframe *)
(* it was given, or when a swallowed frame arrives at last, its deadline   *)
(* just passed, and in the one chunk that it consists of.  (Without, a     *)
(* frame that was started and overtaken is reported when it expires.)      *)
NewestKeyframe == Max((handed \intersect Keyframes) \union {None})
Overdue == {s \in DOMAIN unseen : unseen[s] = 0}
LossIsReal ==
  resend /\ silence' = 0 /\ result'.lost =>
    \E s \in (NewestKeyframe' + 1)..newest' : s \notin handed' \union held' \/ s \in Overdue
LossesAreReal == [][LossIsReal]_vars
=============================================================================
