--------------------------- MODULE MCSessionStart ---------------------------
(***************************************************************************)
(* SessionStart with two connections: desktops of two sizes and depths,    *)
(* and offers of the current build, of one with fewer features, and of     *)
(* one whose bandwidth probe the host does not speak.          *)
(***************************************************************************)
EXTENDS SessionStart, TLC

MCDisplays == {[size |-> 1, depth |-> 8], [size |-> 2, depth |-> 10]}

Both == {[size |-> 2, depth |-> 8], [size |-> 2, depth |-> 10]}
MCCurrent ==
  [ size |-> 1, prefs |-> <<10, 8>>, decoders |-> Both, delay |-> 1, display |-> "main",
    audio |-> TRUE, input |-> TRUE, full |-> TRUE, pointer |-> TRUE,
    datagram |-> 1, probe |-> 1, network |-> 1, resend |-> 1 ]
MCOlder ==
  [ MCCurrent EXCEPT !.prefs = <<8>>, !.audio = FALSE, !.input = FALSE, !.full = FALSE,
                     !.pointer = FALSE, !.datagram = 0, !.network = 0, !.resend = 0 ]
MCOtherProbe == [ MCCurrent EXCEPT !.probe = 2, !.network = 2 ]
MCOffers == {MCCurrent, MCOlder, MCOtherProbe}

(* FairSpec with ENABLED written out, which TLC evaluates much faster: in  *)
(* a reachable state a side has a step exactly if these hold.              *)
HostCan(c) ==
  \/ host[c].at \in {"delayed", "refusing", "controls", "worker", "probing", "ending", "stopped"}
  \/ host[c].at # None /\ toHost[c] # <<>>
  \/ HostNotices(c)
PlayerCan(c) ==
  \/ player[c].at # None /\ toPlayer[c] # <<>>
  \/ player[c].at \in {"probing", "streaming"} /\ probes[c] # {}
  \/ player[c].at = "grace"
  \/ PlayerNotices(c)

MCSpec ==
  /\ Spec
  /\ \A c \in Connections :
       /\ []<>~HostCan(c) \/ []<><<HostStep(c) /\ UNCHANGED service>>_vars
       /\ []<>~PlayerCan(c) \/ []<><<PlayerStep(c) /\ UNCHANGED service>>_vars
=============================================================================
