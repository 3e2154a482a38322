---------------------------- MODULE MCPlayerSession ----------------------------
(* Values of PlayerSession's constants for TLC: a device that can wait for its *)
(* presentations.  Without that every presentation is untracked, which a full  *)
(* tracker makes happen too.                                                   *)
EXTENDS PlayerSession

PlayerSurfaces == {[presentWait |-> TRUE, hdr10 |-> TRUE]}
=============================================================================
