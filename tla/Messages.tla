------------------------------- MODULE Messages -------------------------------
(***************************************************************************)
(* The messages of the reliable streams of a connection: one constructor   *)
(* per member of the Envelope that SessionStart sends, named as the code   *)
(* names it, with the fields a side decides on.  Times, sizes, names and   *)
(* secrets are left out.                                                   *)
(***************************************************************************)

(* An envelope whose body carries nothing that the other side decides on.  *)
Envelope(body) == [is |-> body]

HostIdentityRequest == Envelope("HostIdentityRequest")
HostIdentityOffer == Envelope("HostIdentityOffer")
OpaqueCredentialRequest == Envelope("OpaqueCredentialRequest")
OpaqueCredentialResponse == Envelope("OpaqueCredentialResponse")

(* right: the finalization proves the password the host has stored.        *)
OpaqueCredentialFinalization(right) == [is |-> "OpaqueCredentialFinalization", right |-> right]
AuthenticationResult(accepted) == [is |-> "AuthenticationResult", accepted |-> accepted]

SessionAvailabilityProbe == Envelope("SessionAvailabilityProbe")
SessionAvailabilityResult(busy) == [is |-> "SessionAvailabilityResult", busy |-> busy]
DisplayCatalogRequest == Envelope("DisplayCatalogRequest")
DisplayCatalog == Envelope("DisplayCatalog")

(* The offer of the viewer, the host's answer in the same message, and the *)
(* configuration each takes from the two.                                  *)
ViewerOffer(offer) == [is |-> "Av1CapabilityOffer", offer |-> offer]
HostOffer(answer) == [is |-> "Av1CapabilityOffer", answer |-> answer]
SelectedAv1Configuration(chosen) == [is |-> "SelectedAv1Configuration", chosen |-> chosen]

ClockPing(sequence) == [is |-> "ClockPing", sequence |-> sequence]
ClockPong(sequence) == [is |-> "ClockPong", sequence |-> sequence]
LatencyProbeReport == Envelope("LatencyProbeReport")

BandwidthProbeStart == Envelope("BandwidthProbeStart")
BandwidthProbeFinish(sent) == [is |-> "BandwidthProbeFinish", sent |-> sent]
BandwidthProbeReport(received) == [is |-> "BandwidthProbeReport", received |-> received]

(* The first bytes of the two streams that are opened later.               *)
InputStream == Envelope("InputStream")
DiagnosticStream == Envelope("DiagnosticStream")
=============================================================================
