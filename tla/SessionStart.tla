------------------------------ MODULE SessionStart ------------------------------
(***************************************************************************)
(* How a connection becomes a stream: the accept loop of the service, the  *)
(* OPAQUE exchange behind the failure table, the request (identity,        *)
(* availability, displays or a stream), the slot of the active stream, the *)
(* negotiation, the start-up measurements, and how all of it is given back *)
(* when one side leaves.  A step of a side reads one message and writes    *)
(* its answer; what a side waits for is its `at`.  Time is left out: a     *)
(* timeout may fire whenever the wait it guards is on.                     *)
(***************************************************************************)
EXTENDS Integers, Sequences, SequencesExt, FiniteSets, Messages

CONSTANTS
  Connections,   \* connections that may exist at once
  Addresses,     \* addresses players connect from
  Jobs,          \* what a player connects for
  Offers,        \* the Av1CapabilityOffers of the players
  Displays,      \* what the host's desktop can be: [size, depth]
  Samples,       \* SAMPLES of the latency probe
  FailureLimit,  \* failures after which the delay grows no more
  MaxTracked     \* MAX_TRACKED_FAILURE_ADDRESSES

JobsKnown == {"identity", "availability", "displays", "stream"}
ASSUME ConstantsAssumption ==
  /\ Jobs \subseteq JobsKnown
  /\ {Samples, FailureLimit, MaxTracked} \subseteq Nat \ {0}

VARIABLES
  service,   \* "running", "stopping" or "stopped"
  active,    \* active_stream
  workers,   \* connections whose task owns a media worker, or launches one
  tracked,   \* the failure table, least recently seen address first
  host,      \* per connection: the task that serves it
  player,    \* per connection: the player at its other end
  open,      \* per connection: neither side has closed it
  toHost,    \* per connection: messages on their way
  toPlayer,
  probes     \* per connection: probe datagrams on their way

hostVars == <<active, workers, tracked, host>>
linkVars == <<open, toHost, toPlayer, probes>>
vars == <<service, hostVars, player, linkVars>>

None == "none"
NoDepth == 0
NoChoice == [depth |-> NoDepth]
NoTask == [at |-> None, from |-> None, offer |-> None, chosen |-> NoChoice, seen |-> 0, guard |-> FALSE]
NoPlayer == [at |-> None, offer |-> None, chosen |-> NoChoice, seen |-> 0]

Init ==
  /\ service = "running" 
  /\ active = FALSE /\ workers = {} /\ tracked = <<>>
  /\ host = [c \in Connections |-> NoTask]
  /\ player = [c \in Connections |-> NoPlayer]
  /\ open = [c \in Connections |-> FALSE]
  /\ toHost = [c \in Connections |-> <<>>]
  /\ toPlayer = [c \in Connections |-> <<>>]
  /\ probes = [c \in Connections |-> {}]

-----------------------------------------------------------------------------
(* Negotiation.  An offer is [size, prefs, decoders, delay, display,       *)
(* audio, input, full, pointer, datagram, probe, network, resend]; the     *)
(* current version of every numbered feature is 1.                         *)

Current == 1
AtMost(version) == IF version > Current THEN Current ELSE version
AtLeastLegacy(version) == IF version >= Current THEN Current ELSE 0

Supports(capabilities, size, depth) ==
  \E cap \in capabilities : cap.depth = depth /\ size <= cap.size

(* negotiate_av1_configuration: the first preference both sides support.   *)
Negotiated(encoders, decoders, size, prefs) ==
  LET fit == {i \in DOMAIN prefs : /\ Supports(encoders, size, prefs[i])
                                   /\ Supports(decoders, size, prefs[i])}
  IN  IF fit = {} THEN NoDepth ELSE prefs[CHOOSE i \in fit : \A j \in fit : i <= j]

(* What the service lets pass before it looks at the slot.                 *)
Acceptable(offer) ==
  offer.probe = Current /\ offer.delay > 0 /\ offer.prefs # <<>> /\ offer.size > 0

(* The host's answer to an offer; pointer: the session controls run.       *)
AnswerTo(offer, desktop, pointer) ==
  [ display |-> offer.display, audio |-> offer.audio, input |-> offer.input,
    full |-> offer.full, pointer |-> pointer,
    datagram |-> AtLeastLegacy(offer.datagram), probe |-> offer.probe,
    network |-> AtMost(offer.network), resend |-> AtMost(offer.resend),
    encoder |-> desktop ]

(* The configuration the host takes as agreed.                             *)
HostSelection(offer, answer, depth) ==
  [ size |-> offer.size, depth |-> depth, delay |-> offer.delay,
    audio |-> answer.audio, full |-> answer.full, pointer |-> answer.pointer,
    input |-> answer.input, datagram |-> answer.datagram, probe |-> answer.probe,
    network |-> answer.network, resend |-> answer.resend ]
(* The configuration the player takes, from its offer and the answer.      *)
PlayerSelection(offer, answer) ==
  [ size |-> offer.size, delay |-> offer.delay, full |-> offer.full,
    depth |-> Negotiated({answer.encoder}, offer.decoders, offer.size, offer.prefs),
    audio |-> answer.audio, pointer |-> answer.pointer, input |-> answer.input,
    datagram |-> answer.datagram, probe |-> answer.probe,
    network |-> AtMost(answer.network), resend |-> AtMost(answer.resend) ]

AnswerUsable(offer, answer) ==
  /\ answer.display = offer.display /\ answer.probe = Current
  /\ PlayerSelection(offer, answer).depth # NoDepth

-----------------------------------------------------------------------------
(* The failure table.                                                      *)

Seen(address) ==
  LET entry == SelectSeq(tracked, LAMBDA e : e.address = address)
  IN  SelectSeq(tracked, LAMBDA e : e.address # address) \o entry
Tracks(address) == \E i \in DOMAIN tracked : tracked[i].address = address

(* record_failure: the oldest address makes room; the count stops to       *)
(* matter where the delay is at its limit.                                 *)
Failed(address) ==
  LET others == SelectSeq(tracked, LAMBDA e : e.address # address)
      kept == IF ~Tracks(address) /\ Len(tracked) >= MaxTracked THEN Tail(others) ELSE others
      before == {tracked[i].failures : i \in {j \in DOMAIN tracked : tracked[j].address = address}}
      count == IF before = {} THEN 1 ELSE (CHOOSE n \in before : TRUE) + 1
  IN  Append(kept, [address |-> address, failures |-> IF count > FailureLimit THEN FailureLimit ELSE count])
Forgotten(address) == SelectSeq(tracked, LAMBDA e : e.address # address)

-----------------------------------------------------------------------------
(* The connection.                                                         *)

HostReads(c, type) == toHost[c] # <<>> /\ Head(toHost[c]).is = type
PlayerReads(c, type) == toPlayer[c] # <<>> /\ Head(toPlayer[c]).is = type

(* What is written for a side that has left reaches nobody.                *)
HostWrites(c, messages) ==
  toPlayer' = [toPlayer EXCEPT ![c] = IF player[c].at = None THEN <<>> ELSE @ \o messages]
HostAnswers(c, replies) ==
  /\ toHost' = [toHost EXCEPT ![c] = Tail(@)]
  /\ HostWrites(c, replies)
PlayerWrites(c, messages) ==
  toHost' = [toHost EXCEPT ![c] = IF host[c].at = None THEN <<>> ELSE @ \o messages]
PlayerSends(c, messages) ==
  /\ PlayerWrites(c, messages)
  /\ toPlayer' = [toPlayer EXCEPT ![c] = Tail(@)]

HostAt(c, place) == host' = [host EXCEPT ![c].at = place]
PlayerAt(c, place) == player' = [player EXCEPT ![c].at = place]

(* The task of a connection returns, whatever the reason: its locals are   *)
(* dropped, the ActiveStreamGuard and the worker among them.               *)
TaskReturns(c) ==
  /\ host' = [host EXCEPT ![c] = NoTask]
  /\ active' = (active /\ ~host[c].guard)
  /\ workers' = workers \ {c}
  /\ open' = [open EXCEPT ![c] = FALSE]
  /\ toHost' = [toHost EXCEPT ![c] = <<>>]
  /\ UNCHANGED <<tracked, toPlayer, probes>>
(* A player that returns or is killed.  It may fail to send the close: the *)
(* host then learns of it by the idle timeout.                             *)
PlayerLeaves(c) ==
  /\ player' = [player EXCEPT ![c] = NoPlayer]
  /\ open' = [open EXCEPT ![c] = FALSE]
  /\ toPlayer' = [toPlayer EXCEPT ![c] = <<>>]
  /\ probes' = [probes EXCEPT ![c] = {}]
  /\ UNCHANGED <<hostVars, toHost>>

-----------------------------------------------------------------------------
(* The service.                                                            *)

(* One task per connection; an address that failed before is delayed.      *)
Connect(c) ==
  /\ service = "running" /\ player[c].at = None /\ host[c].at = None
  /\ \E address \in Addresses :
       /\ host' = [host EXCEPT ![c] = [NoTask EXCEPT
                     !.from = address, !.at = IF Tracks(address) THEN "delayed" ELSE "identity"]]
       /\ tracked' = Seen(address)
  /\ PlayerAt(c, "identity")
  /\ open' = [open EXCEPT ![c] = TRUE]
  /\ toHost' = [toHost EXCEPT ![c] = <<HostIdentityRequest>>]
  /\ UNCHANGED <<active, workers, toPlayer, probes>>

DelayEnds(c) ==
  /\ host[c].at = "delayed" /\ HostAt(c, "identity")
  /\ UNCHANGED <<active, workers, tracked, player, linkVars>>

HostIdentifies(c) ==
  /\ host[c].at = "identity" /\ HostReads(c, "HostIdentityRequest")
  /\ HostAt(c, "credential")
  /\ HostAnswers(c, <<HostIdentityOffer>>)
  /\ UNCHANGED <<active, workers, tracked, player, open, probes>>

HostChallenges(c) ==
  /\ host[c].at = "credential" /\ HostReads(c, "OpaqueCredentialRequest")
  /\ HostAt(c, "finalization")
  /\ HostAnswers(c, <<OpaqueCredentialResponse>>)
  /\ UNCHANGED <<active, workers, tracked, player, open, probes>>

(* A right password clears the address, a wrong one is recorded and its    *)
(* result held back.                                                       *)
HostAuthenticates(c) ==
  /\ host[c].at = "finalization" /\ HostReads(c, "OpaqueCredentialFinalization")
  /\ \/ /\ Head(toHost[c]).right
        /\ tracked' = Forgotten(host[c].from)
        /\ HostAt(c, "request")
        /\ HostAnswers(c, <<AuthenticationResult(TRUE)>>)
     \/ /\ ~Head(toHost[c]).right
        /\ tracked' = Failed(host[c].from)
        /\ HostAt(c, "refusing")
        /\ HostAnswers(c, <<>>)
  /\ UNCHANGED <<active, workers, player, open, probes>>

HostRefuses(c) ==
  /\ host[c].at = "refusing"
  /\ HostWrites(c, <<AuthenticationResult(FALSE)>>)
  /\ host' = [host EXCEPT ![c] = NoTask]
  /\ open' = [open EXCEPT ![c] = FALSE]
  /\ toHost' = [toHost EXCEPT ![c] = <<>>]
  /\ UNCHANGED <<active, workers, tracked, player, probes>>

(* Availability and displays: one answer, then the task waits until the    *)
(* player has it and returns.                                              *)
HostInforms(c) ==
  /\ host[c].at = "request"
  /\ \/ /\ HostReads(c, "SessionAvailabilityProbe")
        /\ HostAnswers(c, <<SessionAvailabilityResult(active)>>)
     \/ /\ HostReads(c, "DisplayCatalogRequest")
        /\ HostAnswers(c, <<DisplayCatalog>>)
  /\ HostAt(c, "stopped")
  /\ UNCHANGED <<active, workers, tracked, player, open, probes>>

HostInformed(c) ==
  /\ host[c].at = "stopped" /\ TaskReturns(c)
  /\ UNCHANGED player

(* The offer: checks, then compare_exchange on the slot.                   *)
SlotIgnored == TRUE                                                    \* mutant
SlotFree == ~active
HostTakesOffer(c) ==
  /\ host[c].at = "request" /\ HostReads(c, "Av1CapabilityOffer")
  /\ LET offer == Head(toHost[c]).offer
     IN  \/ /\ ~(Acceptable(offer) /\ SlotFree)
            /\ TaskReturns(c)
         \/ /\ Acceptable(offer) /\ SlotFree
            /\ host' = [host EXCEPT ![c].at = IF offer.pointer THEN "controls" ELSE "worker",
                                    ![c].offer = offer, ![c].guard = TRUE]
            /\ active' = TRUE
            /\ workers' = IF offer.pointer THEN workers ELSE workers \union {c}
            /\ HostAnswers(c, <<>>)
            /\ UNCHANGED <<tracked, open, probes>>
  /\ UNCHANGED player

(* The helper with the tray icon; without a user's token the stream goes   *)
(* on without it.  Blocking: a viewer that leaves is not noticed here.     *)
HostLaunchesControls(c) ==
  /\ host[c].at = "controls"
  /\ \/ \E launched \in BOOLEAN :
          /\ host' = [host EXCEPT ![c].at = "worker", ![c].offer.pointer = launched]
          /\ workers' = workers \union {c}
          /\ UNCHANGED <<active, tracked, linkVars>>
     \/ TaskReturns(c)
  /\ UNCHANGED player

(* The worker measures the desktop it will stream, which may have changed  *)
(* since the player read the catalog; it must be the size the player asked *)
(* for.  Blocking, too.                                                    *)
HostPreparesWorker(c) ==
  /\ host[c].at = "worker"
  /\ \/ \E desktop \in Displays :
          LET offer == host[c].offer
              depth == Negotiated({desktop}, offer.decoders, offer.size, offer.prefs)
              answer == AnswerTo(offer, desktop, offer.pointer)
          IN  /\ offer.size = desktop.size /\ depth # NoDepth
              /\ host' = [host EXCEPT ![c].at = "selection", ![c].offer = None,
                                      ![c].chosen = HostSelection(offer, answer, depth)]
              /\ HostWrites(c, <<HostOffer(answer)>>)
              /\ UNCHANGED <<active, workers, tracked, open, toHost, probes>>
     \/ TaskReturns(c)
  /\ UNCHANGED player

(* From here on the host streams what it chose, so both must agree.        *)
HostConfirms(c) ==
  /\ host[c].at = "selection" /\ HostReads(c, "SelectedAv1Configuration")
  /\ \/ /\ Head(toHost[c]).chosen = host[c].chosen
        /\ HostAt(c, "latency1")
        /\ HostAnswers(c, <<SelectedAv1Configuration(host[c].chosen)>>)
        /\ UNCHANGED <<active, workers, tracked, open, probes>>
     \/ Head(toHost[c]).chosen # host[c].chosen /\ TaskReturns(c)
  /\ UNCHANGED player

LatencyPlaces == {"latency1", "latency2"}

HostPongs(c) ==
  /\ host[c].at \in LatencyPlaces /\ host[c].seen < Samples
  /\ HostReads(c, "ClockPing") /\ Head(toHost[c]).sequence = host[c].seen + 1
  /\ host' = [host EXCEPT ![c].seen = @ + 1]
  /\ HostAnswers(c, <<ClockPong(host[c].seen + 1)>>)
  /\ UNCHANGED <<active, workers, tracked, player, open, probes>>

(* After the first probe the bandwidth probe starts, after the second the  *)
(* media thread or, before it, the wait for the input stream.              *)
HostMeasured(c) ==
  /\ host[c].at \in LatencyPlaces /\ host[c].seen = Samples
  /\ HostReads(c, "LatencyProbeReport")
  /\ \/ /\ host[c].at = "latency1"
        /\ host' = [host EXCEPT ![c].at = "probing", ![c].seen = 0]
        /\ HostAnswers(c, <<BandwidthProbeStart>>)
     \/ /\ host[c].at = "latency2"
        /\ host' = [host EXCEPT ![c].at = IF host[c].chosen.input THEN "input" ELSE "streaming", ![c].seen = 0]
        /\ HostAnswers(c, IF host[c].chosen.full /\ ~host[c].chosen.input
                          THEN <<DiagnosticStream>> ELSE <<>>)
  /\ UNCHANGED <<active, workers, tracked, player, open, probes>>

(* Probe datagrams stand for all datagrams of the measurement: one.  It is *)
(* on its way, or dropped at once.  Finish ends the wait of the player.    *)
HostProbes(c) ==
  /\ host[c].at = "probing"
  /\ \E sent \in SUBSET {1} :
       /\ probes' = [probes EXCEPT ![c] = IF player[c].at = None THEN {} ELSE sent]
       /\ HostWrites(c, <<BandwidthProbeFinish(Cardinality(sent))>>)
       /\ host' = [host EXCEPT ![c].at = "report", ![c].seen = Cardinality(sent)]
  /\ UNCHANGED <<active, workers, tracked, player, open, toHost>>

(* The report must fit what was sent.                                      *)
HostTakesReport(c) ==
  /\ host[c].at = "report" /\ HostReads(c, "BandwidthProbeReport")
  /\ \/ /\ Head(toHost[c]).received <= host[c].seen
        /\ host' = [host EXCEPT ![c].at = "latency2", ![c].seen = 0]
        /\ HostAnswers(c, <<>>)
        /\ UNCHANGED <<active, workers, tracked, open, probes>>
     \/ Head(toHost[c]).received > host[c].seen /\ TaskReturns(c)
  /\ UNCHANGED player

HostStreams(c) ==
  /\ host[c].at = "input" /\ HostReads(c, "InputStream")
  /\ HostAt(c, "streaming")
  /\ HostAnswers(c, IF host[c].chosen.full THEN <<DiagnosticStream>> ELSE <<>>)
  /\ UNCHANGED <<active, workers, tracked, player, open, probes>>

(* The stream ends: the media thread stops its worker first (SessionEnd).  *)
HostEndsStream(c) ==
  /\ host[c].at = "streaming" /\ HostAt(c, "ending")
  /\ UNCHANGED <<active, workers, tracked, player, linkVars>>
HostJoinsMedia(c) ==
  /\ host[c].at = "ending" /\ TaskReturns(c)
  /\ UNCHANGED player

(* Waits that end with the connection, and those with a deadline.          *)
Waits == {"identity", "credential", "finalization", "request", "selection",
          "latency1", "report", "latency2", "input"}
Timed == {"request", "latency1", "report", "latency2", "input"}

Noticed(c) == ~open[c] /\ host[c].at \in Timed \union {"streaming"}       \* mutant
HostNotices(c) == ~open[c] /\ host[c].at \in Waits \union {"streaming"}
HostSeesClosed(c) ==
  /\ HostNotices(c)
  /\ \/ host[c].at # "streaming" /\ TaskReturns(c)
     \/ host[c].at = "streaming" /\ HostAt(c, "ending")
        /\ UNCHANGED <<active, workers, tracked, linkVars>>
  /\ UNCHANGED player
HostTimesOut(c) ==
  /\ host[c].at \in Timed /\ TaskReturns(c)
  /\ UNCHANGED player

HostStep(c) ==
  \/ DelayEnds(c) \/ HostIdentifies(c) \/ HostChallenges(c) \/ HostAuthenticates(c)
  \/ HostRefuses(c) \/ HostInforms(c) \/ HostInformed(c) \/ HostTakesOffer(c)
  \/ HostLaunchesControls(c)
  \/ HostPreparesWorker(c) \/ HostConfirms(c) \/ HostPongs(c) \/ HostMeasured(c)
  \/ HostProbes(c) \/ HostTakesReport(c) \/ HostStreams(c) \/ HostJoinsMedia(c)
  \/ HostSeesClosed(c)

-----------------------------------------------------------------------------
(* The player: authenticate_host, probe_host, discover_displays and        *)
(* stream_host.                                                            *)

(* Asking for the identity only needs no password; otherwise the password  *)
(* may be missing, which ends the attempt (PlayerGivesUp).                 *)
PlayerIdentifies(c) ==
  /\ player[c].at = "identity" /\ PlayerReads(c, "HostIdentityOffer")
  /\ \/ "identity" \in Jobs /\ PlayerLeaves(c)
     \/ /\ PlayerAt(c, "credential")
        /\ PlayerSends(c, <<OpaqueCredentialRequest>>)
        /\ UNCHANGED <<hostVars, open, probes>>

PlayerProves(c) ==
  /\ player[c].at = "credential" /\ PlayerReads(c, "OpaqueCredentialResponse")
  /\ PlayerAt(c, "result")
  /\ \E right \in BOOLEAN :
       PlayerSends(c, <<OpaqueCredentialFinalization(right)>>)
  /\ UNCHANGED <<hostVars, open, probes>>

(* What the player came for is told only now.                              *)
PlayerRequests(c) ==
  /\ player[c].at = "result" /\ PlayerReads(c, "AuthenticationResult")
  /\ \/ /\ Head(toPlayer[c]).accepted
        /\ \/ /\ "stream" \in Jobs
              /\ \E offer \in Offers :
                   /\ player' = [player EXCEPT ![c].at = "hostOffer", ![c].offer = offer]
                   /\ PlayerSends(c, <<ViewerOffer(offer)>>)
           \/ /\ "availability" \in Jobs /\ PlayerAt(c, "answer")
              /\ PlayerSends(c, <<SessionAvailabilityProbe>>)
           \/ /\ "displays" \in Jobs /\ PlayerAt(c, "answer")
              /\ PlayerSends(c, <<DisplayCatalogRequest>>)
        /\ UNCHANGED <<hostVars, open, probes>>
     \/ ~Head(toPlayer[c]).accepted /\ PlayerLeaves(c)

PlayerInformed(c) ==
  /\ player[c].at = "answer"
  /\ PlayerReads(c, "SessionAvailabilityResult") \/ PlayerReads(c, "DisplayCatalog")
  /\ PlayerLeaves(c)

PlayerSelects(c) ==
  /\ player[c].at = "hostOffer" /\ PlayerReads(c, "Av1CapabilityOffer")
  /\ LET answer == Head(toPlayer[c]).answer
         chosen == PlayerSelection(player[c].offer, answer)
     IN  \/ /\ AnswerUsable(player[c].offer, answer)
            /\ player' = [player EXCEPT ![c] = [NoPlayer EXCEPT !.at = "hostSelection",
                                                                !.chosen = chosen]]
            /\ PlayerSends(c, <<SelectedAv1Configuration(chosen)>>)
            /\ UNCHANGED <<hostVars, open, probes>>
         \/ ~AnswerUsable(player[c].offer, answer) /\ PlayerLeaves(c)

PlayerConfirms(c) ==
  /\ player[c].at = "hostSelection" /\ PlayerReads(c, "SelectedAv1Configuration")
  /\ \/ /\ Head(toPlayer[c]).chosen = player[c].chosen
        /\ PlayerAt(c, "latency1")
        /\ PlayerSends(c, <<ClockPing(1)>>)
        /\ UNCHANGED <<hostVars, open, probes>>
     \/ Head(toPlayer[c]).chosen # player[c].chosen /\ PlayerLeaves(c)

(* The next ping, or after the last pong the report.  After the second     *)
(* probe the input stream is opened and the diagnostic stream awaited.     *)
PlayerReady(p) == IF p.chosen.full THEN "diagnostics" ELSE "streaming"
StopsEarly(c) ==                                                       \* mutant
  /\ player[c].at \in LatencyPlaces /\ PlayerReads(c, "ClockPong")
  /\ player' = [player EXCEPT ![c].at = "probeStart", ![c].seen = 0]
  /\ PlayerSends(c, <<LatencyProbeReport>>)
  /\ UNCHANGED <<hostVars, open, probes>>
PlayerMeasures(c) ==
  /\ player[c].at \in LatencyPlaces
  /\ PlayerReads(c, "ClockPong") /\ Head(toPlayer[c]).sequence = player[c].seen + 1
  /\ LET last == player[c].seen + 1 = Samples
         next == IF ~last THEN player[c].at
                 ELSE IF player[c].at = "latency1" THEN "probeStart" ELSE PlayerReady(player[c])
         input == player[c].at = "latency2" /\ player[c].chosen.input
     IN  /\ player' = [player EXCEPT ![c].at = next, ![c].seen = IF last THEN 0 ELSE @ + 1]
         /\ PlayerSends(c, IF ~last THEN <<ClockPing(player[c].seen + 2)>>
                           ELSE <<LatencyProbeReport>>
                                \o (IF input THEN <<InputStream>> ELSE <<>>))
  /\ UNCHANGED <<hostVars, open, probes>>
PlayerProbes(c) ==
  /\ \/ /\ player[c].at = "probeStart" /\ PlayerReads(c, "BandwidthProbeStart")
        /\ PlayerAt(c, "probing")
     \/ /\ player[c].at = "probing" /\ PlayerReads(c, "BandwidthProbeFinish")
        /\ PlayerAt(c, "grace")
  /\ PlayerSends(c, <<>>)
  /\ UNCHANGED <<hostVars, open, probes>>

(* Until the grace time is over; a later datagram stays in the buffer.     *)
PlayerCounts(c) ==
  /\ player[c].at \in {"probing", "grace"} /\ probes[c] # {}
  /\ probes' = [probes EXCEPT ![c] = {}]
  /\ player' = [player EXCEPT ![c].seen = 1]
  /\ UNCHANGED <<hostVars, open, toHost, toPlayer>>
PlayerReports(c) ==
  /\ player[c].at = "grace"
  /\ player' = [player EXCEPT ![c].at = "latency2", ![c].seen = 0]
  /\ PlayerWrites(c, <<BandwidthProbeReport(player[c].seen), ClockPing(1)>>)
  /\ UNCHANGED <<hostVars, open, toPlayer, probes>>

PlayerStreams(c) ==
  /\ player[c].at = "diagnostics" /\ PlayerReads(c, "DiagnosticStream")
  /\ PlayerAt(c, "streaming")
  /\ PlayerSends(c, <<>>)
  /\ UNCHANGED <<hostVars, open, probes>>

(* The receiver takes the late datagram for video it cannot parse.         *)
PlayerMeetsLateProbe(c) ==
  /\ player[c].at = "streaming" /\ probes[c] # {}
  /\ PlayerLeaves(c)

(* A player leaves in any state: its user, an error, a timeout, a kill.    *)
PlayerGivesUp(c) == player[c].at # None /\ PlayerLeaves(c)
PlayerNotices(c) == player[c].at # None /\ ~open[c]
PlayerSeesClosed(c) == PlayerNotices(c) /\ PlayerLeaves(c)

PlayerStep(c) ==
  \/ PlayerIdentifies(c) \/ PlayerProves(c) \/ PlayerRequests(c) \/ PlayerInformed(c)
  \/ PlayerSelects(c) \/ PlayerConfirms(c) \/ PlayerMeasures(c) \/ PlayerProbes(c)
  \/ PlayerCounts(c) \/ PlayerReports(c) \/ PlayerStreams(c) \/ PlayerMeetsLateProbe(c)
  \/ PlayerSeesClosed(c)

LoseProbe(c) ==
  /\ probes[c] # {} /\ probes' = [probes EXCEPT ![c] = {}]
  /\ UNCHANGED <<hostVars, player, open, toHost, toPlayer>>

-----------------------------------------------------------------------------
(* The service around the connections.                                     *)

(* A stop closes the endpoints and gives the tasks ten seconds.            *)
StopService ==
  /\ service = "running" /\ service' = "stopping"
  /\ open' = [c \in Connections |-> FALSE]
  /\ UNCHANGED <<hostVars, player, toHost, toPlayer, probes>>

(* The tasks have ended or are aborted, or the process died: all it held   *)
(* goes with it, the workers by the job object they are in.                *)
ServiceGone ==
  /\ service \in {"running", "stopping"} /\ service' = "stopped"
  /\ host' = [c \in Connections |-> NoTask]
  /\ active' = FALSE /\ workers' = {} /\ tracked' = <<>>
  /\ open' = [c \in Connections |-> FALSE]
  /\ toHost' = [c \in Connections |-> <<>>]
  /\ UNCHANGED <<player, toPlayer, probes>>

StartService ==
  /\ service = "stopped" /\ service' = "running"
  /\ UNCHANGED <<hostVars, player, linkVars>>

Next ==
  \/ \E c \in Connections :
       /\ \/ HostStep(c) \/ HostTimesOut(c) \/ HostEndsStream(c)
          \/ PlayerStep(c) \/ PlayerGivesUp(c) \/ Connect(c) \/ LoseProbe(c)
       /\ UNCHANGED service
  \/ StopService \/ ServiceGone \/ StartService

Spec == Init /\ [][Next]_vars

(* A task and a player go on with what they have; nobody must connect,     *)
(* time out early or stop anything.                    *)
FairSpec ==
  /\ Spec
  /\ \A c \in Connections :
       /\ WF_vars(HostStep(c) /\ UNCHANGED service)
       /\ WF_vars(PlayerStep(c) /\ UNCHANGED service)

-----------------------------------------------------------------------------
HostPlaces == {None, "delayed", "refusing", "controls", "worker", "probing", "streaming", "ending",
               "stopped"} \union Waits
PlayerPlaces == {None, "identity", "credential", "result", "hostOffer", "answer", "hostSelection",
                 "latency1", "probeStart", "probing", "grace", "latency2", "diagnostics", "streaming"}

TypeOK ==
  /\ service \in {"running", "stopping", "stopped"} 
  /\ active \in BOOLEAN /\ workers \subseteq Connections
  /\ Len(tracked) <= MaxTracked
  /\ \A i \in DOMAIN tracked : tracked[i] \in [address : Addresses, failures : 1..FailureLimit]
  /\ \A c \in Connections :
       /\ host[c].at \in HostPlaces /\ host[c].seen \in 0..Samples /\ host[c].guard \in BOOLEAN
       /\ player[c].at \in PlayerPlaces /\ player[c].seen \in 0..Samples
       /\ open[c] \in BOOLEAN /\ probes[c] \subseteq {1}

(* The host serves one stream: the slot is taken exactly while a task owns *)
(* it, and only that task has a media worker, which two would fight over   *)
(* (service.rs: compare_exchange, ActiveStreamGuard, and the blocking      *)
(* launches and joins between them).                                       *)
OneStream ==
  /\ active <=> \E c \in Connections : host[c].guard
  /\ \A c, d \in Connections : host[c].guard /\ host[d].guard => c = d
  /\ \A c \in workers : host[c].guard

(* The two scripts stay in step: what a side waits for is what the other   *)
(* has sent, number by number; no pair of peers ends with "expected ..."   *)
(* (read_envelope matches in service.rs, lib.rs, quic.rs and the probes).  *)
ExpectedByHost(c, message) ==
  CASE message.is = "ClockPing" -> /\ host[c].at \in LatencyPlaces
                                   /\ message.sequence = host[c].seen + 1
    [] message.is = "LatencyProbeReport" -> host[c].at \in LatencyPlaces /\ host[c].seen = Samples
    [] message.is = "BandwidthProbeReport" -> host[c].at = "report"
    [] message.is = "InputStream" -> host[c].at = "input"
    [] message.is = "SelectedAv1Configuration" -> host[c].at = "selection"
    [] message.is = "HostIdentityRequest" -> host[c].at \in {"delayed", "identity"}
    [] message.is = "OpaqueCredentialRequest" -> host[c].at = "credential"
    [] message.is = "OpaqueCredentialFinalization" -> host[c].at = "finalization"
    [] OTHER -> host[c].at = "request"
ExpectedByPlayer(c, message) ==
  CASE message.is = "ClockPong" -> player[c].at \in LatencyPlaces /\ message.sequence = player[c].seen + 1
    [] message.is = "BandwidthProbeStart" -> player[c].at = "probeStart"
    [] message.is = "BandwidthProbeFinish" -> player[c].at = "probing"
    [] message.is = "SelectedAv1Configuration" -> player[c].at = "hostSelection"
    [] message.is = "Av1CapabilityOffer" -> player[c].at = "hostOffer"
    [] message.is = "HostIdentityOffer" -> player[c].at = "identity"
    [] message.is = "OpaqueCredentialResponse" -> player[c].at = "credential"
    [] message.is = "AuthenticationResult" -> player[c].at = "result"
    [] message.is = "DiagnosticStream" -> player[c].at = "diagnostics"
    [] OTHER -> player[c].at = "answer"
InStep ==
  \A c \in Connections : open[c] =>
    /\ toHost[c] # <<>> => ExpectedByHost(c, Head(toHost[c]))
    /\ toPlayer[c] # <<>> => ExpectedByPlayer(c, Head(toPlayer[c]))

(* A slot whose player is gone is given back, wherever the task was: in a  *)
(* blocking launch, waiting for a selection without a timeout, streaming.  *)
SlotReturns ==
  \A c \in Connections : host[c].guard /\ player[c].at = None ~> ~host[c].guard
=============================================================================
