-------------------------- MODULE MCBitrateControl --------------------------
(***************************************************************************)
(* BitrateControl on a small scale: bitrates from 50 to 120, so that a     *)
(* collapse below half of the best bitrate can happen, and links with one  *)
(* kind of trouble each, or loss and delay at once.  A delay of 1 is the   *)
(* good one, with a budget of 3; 2 is half of the allowance; 4 and 6 are   *)
(* above the budget, 11 is above the client's limit of 10.                 *)
(***************************************************************************)
EXTENDS BitrateControl, TLC

MCLink(loss, video, audio, active, presented) ==
    [ loss |-> loss, delay |-> ("video" :> video) @@ ("audio" :> audio),
      active |-> active, presented |-> presented ]

Video == {"video"}
Both == {"video", "audio"}

MCGood == MCLink("none", 1, 0, Video, TRUE)

MCLinks ==
    { MCGood,
      MCLink("some", 1, 0, Video, TRUE),
      MCLink("heavy", 4, 0, Video, TRUE),
      MCLink("none", 2, 0, Video, TRUE),
      MCLink("sudden", 4, 0, Both, FALSE),
      MCLink("none", 11, 6, Both, TRUE) }

(* Weak fairness of Report, as Spec has it, with its ENABLED written out:  *)
(* TLC cannot evaluate ENABLED of an action that is nested so deeply.  A   *)
(* step of Next is a report if it changes neither link nor troubles.       *)
ReportChanges == ~ended /\ \E measured \in {Measurement(1)} : Outcome(measured, 1) # Decided

MCSpec ==
    /\ Init /\ [][Next]_vars
    /\ []<>~ReportChanges \/ []<><<UNCHANGED <<link, troubles>> >>_vars
=============================================================================
