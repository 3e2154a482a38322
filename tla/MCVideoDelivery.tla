--------------------------- MODULE MCVideoDelivery ---------------------------
(***************************************************************************)
(* The player's assembler in its two surroundings, of which a behaviour    *)
(* has one from the start: a network that delivers any chunk at any time,  *)
(* with and without resends and with small windows, and the repair loop    *)
(* with the host, with the times of the code.                              *)
(***************************************************************************)
EXTENDS VideoRepair

VARIABLE surroundings

MCChunks == [s \in 0..MaxSequence |-> IF s = 2 THEN {1} ELSE {1, 2}]

AnyNetwork == INSTANCE VideoAssembler WITH
  Window <- 2, Budget <- 2, SilenceSpan <- 2, MaxSilence <- 3

MCInit ==
  \/ surroundings = "network" /\ AnyNetwork!Init /\ HostInit
  \/ surroundings = "host" /\ RepairInit

InNetwork == surroundings = "network" /\ AnyNetwork!Next /\ UNCHANGED <<hostVars, askVars, wire, asks, losses>>
WithHost == surroundings = "host" /\ RepairNext
MCNext == (InNetwork \/ WithHost) /\ UNCHANGED surroundings
allVars == <<repairVars, surroundings>>

MCSpec == MCInit /\ [][MCNext]_allVars /\ WF_allVars(WithHost /\ UNCHANGED surroundings)

(* RepairedInTime and AllHandedOut with the host of the code               *)
(* (video_resend.rs, take; video_datagram.rs, take_missing).               *)
HostRepairsInTime == surroundings = "host" => RepairedInTime
HostHandsAllOut == surroundings = "host" => AllHandedOut
=============================================================================
