--------------------------- MODULE DecodableStream ---------------------------
(***************************************************************************)
(* What the video path promises its decoder: the frames it is given are a  *)
(* sequence of runs, each of which starts at a keyframe and then follows   *)
(* the encoder's output frame by frame.  A loss ends a run; only a newer   *)
(* keyframe starts another one.                                            *)
(***************************************************************************)
EXTENDS Integers

VARIABLES
  shown,    \* sequence number of the newest frame given to the decoder
  key,      \* whether that frame is a keyframe
  chained   \* whether the frame after it may be given without a keyframe

None == -1

Init ==
  /\ shown = None
  /\ key = FALSE
  /\ chained = FALSE

ShowKeyframe ==
  /\ shown' \in Nat
  /\ shown' > shown
  /\ key' = TRUE
  /\ chained' = TRUE

ShowNext ==
  /\ chained
  /\ shown' = shown + 1
  /\ key' = FALSE
  /\ UNCHANGED chained

LoseReference ==
  /\ chained' = FALSE
  /\ UNCHANGED <<shown, key>>

Next == ShowKeyframe \/ ShowNext \/ LoseReference

Spec == Init /\ [][Next]_<<shown, key, chained>>
=============================================================================
