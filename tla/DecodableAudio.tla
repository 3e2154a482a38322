--------------------------- MODULE DecodableAudio ---------------------------
(***************************************************************************)
(* What the audio path promises its decoder: packets come in the order in  *)
(* which the host encoded them, each once at most, and the decoder goes on *)
(* from its state only with the packet that follows the one before.        *)
(***************************************************************************)
EXTENDS Integers

VARIABLES
  heard,      \* generation and sequence number of the newest decoded packet
  continued   \* whether it was decoded on top of an earlier packet's state

Later(stamp, than) ==
  \/ stamp.gen > than.gen
  \/ stamp.gen = than.gen /\ stamp.seq > than.seq

Init == heard = [gen |-> 0, seq |-> 0] /\ continued = FALSE

Continue ==
  /\ heard' = [heard EXCEPT !.seq = @ + 1]
  /\ continued' = TRUE

Restart ==
  /\ heard'.gen \in Nat /\ heard'.seq \in Nat /\ Later(heard', heard)
  /\ continued' = FALSE

Next == Continue \/ Restart

Spec == Init /\ [][Next]_<<heard, continued>>
=============================================================================
