-------------------------- MODULE SessionStartProofs --------------------------
(***************************************************************************)
(* For any number of connections, addresses, offers and samples: the host  *)
(* serves one stream at a time, and the two sides of a connection stay in  *)
(* step.  The first rests on SlotInv, which ties a task's guard to its     *)
(* place; the second on StepInv, which names every joint place of a task,  *)
(* a player and what is on its way between them.                           *)
(***************************************************************************)
EXTENDS SessionStart, SequenceTheorems, TLAPS

(* The places of a task that owns the slot, from compare_exchange on.      *)
Owning == {"controls", "worker", "selection", "latency1", "probing", "report",
           "latency2", "input", "streaming", "ending"}

TaskFields == {"at", "from", "offer", "chosen", "seen", "guard"}

Task(t) == DOMAIN t = TaskFields /\ (t.guard <=> t.at \in Owning) /\ t.guard \in BOOLEAN

(* A task has the guard exactly in the places that own the slot.           *)
Tasks(h) == DOMAIN h = Connections /\ \A c \in Connections : Task(h[c])

Owned(h, busy) ==
  /\ busy <=> \E c \in Connections : h[c].guard
  /\ \A c, d \in Connections : h[c].guard /\ h[d].guard => c = d

SlotInv ==
  /\ active \in BOOLEAN
  /\ Tasks(host)
  /\ Owned(host, active)
  /\ \A c \in workers : c \in Connections /\ host[c].guard

-------------------------------------------------------------------------------
(* Lemmas on what a step does to the tasks: it changes one of them, either *)
(* within the places of the same kind, or it lets the task return.         *)

(* The place of a task changes, and neither its guard nor what that says.  *)
KeepsGuard(h, g, c) ==
  /\ DOMAIN g = Connections
  /\ \A d \in Connections \ {c} : g[d] = h[d]
  /\ Task(g[c]) /\ g[c].guard = h[c].guard

LEMMA SlotKept ==
  ASSUME SlotInv, NEW c \in Connections, KeepsGuard(host, host', c),
         UNCHANGED <<active, workers>>
  PROVE  SlotInv'
<1>1. \A d \in Connections : host'[d].guard = host[d].guard
  BY DEF KeepsGuard
<1>2. Tasks(host)'
  BY DEF KeepsGuard, SlotInv, Tasks
<1>3. (active \in BOOLEAN)' /\ workers' = workers /\ active' = active
  BY DEF SlotInv
<1>4. Owned(host, active)'
  BY <1>1, <1>3 DEF SlotInv, Owned
<1> QED
  BY <1>1, <1>2, <1>3, <1>4 DEF SlotInv

LEMMA TaskWithPlace ==
  ASSUME NEW t, Task(t), NEW place, place \in Owning <=> t.at \in Owning
  PROVE  LET s == [t EXCEPT !.at = place] IN Task(s) /\ s.guard = t.guard /\ s.at = place
BY DEF Task, TaskFields

LEMMA PlaceKept ==
  ASSUME SlotInv, NEW c \in Connections, NEW place, HostAt(c, place),
         place \in Owning <=> host[c].at \in Owning
  PROVE  KeepsGuard(host, host', c)
<1>1. Task(host[c])
  BY DEF SlotInv, Tasks
<1>2. host'[c] = [host[c] EXCEPT !.at = place]
  BY DEF HostAt, SlotInv, Tasks
<1>3. Task(host'[c]) /\ host'[c].guard = host[c].guard
  BY <1>1, <1>2, TaskWithPlace
<1> QED
  BY <1>3 DEF KeepsGuard, HostAt, SlotInv, Tasks

LEMMA NoTaskFree == Task(NoTask) /\ ~NoTask.guard
BY DEF Task, TaskFields, NoTask, Owning, None

LEMMA SlotGivenBack ==
  ASSUME SlotInv, NEW c \in Connections, TaskReturns(c)
  PROVE  SlotInv'
<1>1. /\ host'[c] = NoTask
      /\ \A d \in Connections \ {c} : host'[d] = host[d]
      /\ DOMAIN host' = Connections
  BY DEF TaskReturns, SlotInv, Tasks
<1>2. Tasks(host)'
  BY <1>1, NoTaskFree DEF SlotInv, Tasks
<1>3. (active' <=> (active /\ ~host[c].guard)) /\ active' \in BOOLEAN
  BY DEF TaskReturns, SlotInv
<1>4. \A d \in Connections : host'[d].guard <=> host[d].guard /\ d # c
  BY <1>1, NoTaskFree
<1>5. Owned(host, active)'
  BY <1>3, <1>4 DEF SlotInv, Owned
<1>6. (\A d \in workers : d \in Connections /\ host[d].guard)'
  BY <1>4 DEF TaskReturns, SlotInv
<1> QED
  BY <1>2, <1>3, <1>5, <1>6 DEF SlotInv

(* A step that moves a task within the places of a kind.                   *)
LEMMA PlaceStep ==
  ASSUME SlotInv, NEW c \in Connections, NEW place, HostAt(c, place),
         place \in Owning <=> host[c].at \in Owning, UNCHANGED <<active, workers>>
  PROVE  SlotInv'
BY PlaceKept, SlotKept

(* More of a task may change with its place.                               *)
LEMMA TaskStep ==
  ASSUME SlotInv, NEW c \in Connections, NEW t, host' = [host EXCEPT ![c] = t],
         Task(t), t.guard = host[c].guard, UNCHANGED <<active, workers>>
  PROVE  SlotInv'
<1>1. KeepsGuard(host, host', c)
  BY DEF KeepsGuard, SlotInv, Tasks
<1> QED
  BY <1>1, SlotKept

LEMMA TaskWithSeen ==
  ASSUME NEW t, Task(t), NEW n
  PROVE  LET s == [t EXCEPT !.seen = n] IN Task(s) /\ s.guard = t.guard /\ s.at = t.at
BY DEF Task, TaskFields

-------------------------------------------------------------------------------
(* One lemma per step of the host.                                         *)

LEMMA PlacesKept ==
  ASSUME SlotInv, NEW c \in Connections,
         \/ DelayEnds(c) \/ HostIdentifies(c) \/ HostChallenges(c) \/ HostAuthenticates(c)
         \/ HostInforms(c) \/ HostStreams(c) \/ HostEndsStream(c)
  PROVE  SlotInv'
<1>1. CASE DelayEnds(c)
  BY <1>1, PlaceStep DEF DelayEnds, Owning
<1>2. CASE HostIdentifies(c)
  BY <1>2, PlaceStep DEF HostIdentifies, Owning
<1>3. CASE HostChallenges(c)
  BY <1>3, PlaceStep DEF HostChallenges, Owning
<1>4. CASE HostAuthenticates(c)
  BY <1>4, PlaceStep DEF HostAuthenticates, Owning
<1>5. CASE HostInforms(c)
  BY <1>5, PlaceStep DEF HostInforms, Owning
<1>6. CASE HostStreams(c)
  BY <1>6, PlaceStep DEF HostStreams, Owning
<1>7. CASE HostEndsStream(c)
  BY <1>7, PlaceStep DEF HostEndsStream, Owning
<1> QED
  BY <1>1, <1>2, <1>3, <1>4, <1>5, <1>6, <1>7

LEMMA ConfirmationKept ==
  ASSUME SlotInv, NEW c \in Connections, HostConfirms(c) \/ HostSeesClosed(c)
  PROVE  SlotInv'
<1>1. CASE TaskReturns(c)
  BY <1>1, SlotGivenBack
<1>2. CASE HostConfirms(c) /\ HostAt(c, "latency1") /\ UNCHANGED <<active, workers>>
  BY <1>2, PlaceStep DEF HostConfirms, Owning
<1>3. CASE /\ HostSeesClosed(c) /\ host[c].at = "streaming" /\ HostAt(c, "ending")
           /\ UNCHANGED <<active, workers>>
  BY <1>3, PlaceStep DEF Owning
<1> QED
  BY <1>1, <1>2, <1>3 DEF HostConfirms, HostSeesClosed

LEMMA MeasurementKept ==
  ASSUME SlotInv, NEW c \in Connections,
         HostPongs(c) \/ HostMeasured(c) \/ HostProbes(c) \/ HostTakesReport(c)
  PROVE  SlotInv'
<1>0. Task(host[c]) /\ DOMAIN host = Connections
  BY DEF SlotInv, Tasks
<1>1. CASE HostPongs(c)
  <2> DEFINE t == [host[c] EXCEPT !.seen = host[c].seen + 1]
  <2>1. Task(t) /\ t.guard = host[c].guard
    BY <1>0, TaskWithSeen
  <2>2. host' = [host EXCEPT ![c] = t]
    BY <1>1, <1>0 DEF HostPongs
  <2>3. UNCHANGED <<active, workers>>
    BY <1>1 DEF HostPongs
  <2> HIDE DEF t
  <2> QED
    BY <2>1, <2>2, <2>3, TaskStep
<1>2. ASSUME NEW place, place \in Owning, host[c].at \in Owning, NEW n,
             host' = [host EXCEPT ![c].at = place, ![c].seen = n], UNCHANGED <<active, workers>>
      PROVE  SlotInv'
  <2> DEFINE s == [host[c] EXCEPT !.at = place]
  <2> DEFINE t == [s EXCEPT !.seen = n]
  <2>1. Task(s) /\ s.guard = host[c].guard
    BY <1>0, <1>2, TaskWithPlace
  <2>2. host' = [host EXCEPT ![c] = t]
    BY <1>0, <1>2
  <2> HIDE DEF s
  <2>3. Task(t) /\ t.guard = s.guard
    BY <2>1, TaskWithSeen
  <2> HIDE DEF t
  <2> QED
    BY <2>1, <2>2, <2>3, <1>2, TaskStep
<1>3. CASE HostMeasured(c)
  <2>1. CASE host[c].at = "latency1"
    BY <1>3, <2>1, <1>2 DEF HostMeasured, Owning
  <2>2. CASE host[c].at = "latency2"
    BY <1>3, <2>2, <1>2 DEF HostMeasured, Owning
  <2> QED
    BY <1>3, <2>1, <2>2 DEF HostMeasured, LatencyPlaces
<1>4. CASE HostProbes(c)
  BY <1>4, <1>2 DEF HostProbes, Owning
<1>5. CASE HostTakesReport(c)
  <2>1. CASE TaskReturns(c)
    BY <2>1, SlotGivenBack
  <2>2. CASE ~TaskReturns(c)
    BY <1>5, <2>2, <1>2 DEF HostTakesReport, Owning
  <2> QED
    BY <2>1, <2>2
<1> QED
  BY <1>1, <1>3, <1>4, <1>5

(* The offer takes the slot only if it is free: nobody has the guard then. *)
LEMMA OfferKept ==
  ASSUME SlotInv, NEW c \in Connections, HostTakesOffer(c)
  PROVE  SlotInv'
<1>1. CASE TaskReturns(c)
  BY <1>1, SlotGivenBack
<1>2. CASE ~TaskReturns(c)
  <2> DEFINE offer == Head(toHost[c]).offer
             place == IF offer.pointer THEN "controls" ELSE "worker"
  <2>0. /\ ~active /\ active' = TRUE
        /\ host' = [host EXCEPT ![c].at = place, ![c].offer = offer, ![c].guard = TRUE]
        /\ workers' \subseteq workers \union {c}
        /\ place \in Owning
    BY <1>2 DEF HostTakesOffer, SlotFree, Owning
  <2> HIDE DEF offer, place
  <2>1. Task(host[c]) /\ DOMAIN host = Connections
    BY DEF SlotInv, Tasks
  <2>2. Task(host'[c]) /\ host'[c].guard
    BY <2>0, <2>1 DEF Task, TaskFields
  <2>3. DOMAIN host' = Connections /\ \A d \in Connections \ {c} : host'[d] = host[d]
    BY <2>0, <2>1
  <2>4. \A d \in Connections : ~host[d].guard
    BY <2>0 DEF SlotInv, Owned
  <2>5. workers = {}
    BY <2>4 DEF SlotInv
  <2>6. Tasks(host)'
    BY <2>2, <2>3 DEF SlotInv, Tasks
  <2>7. Owned(host, active)'
    BY <2>0, <2>2, <2>3, <2>4 DEF Owned
  <2>8. (\A d \in workers : d \in Connections /\ host[d].guard)'
    BY <2>0, <2>2, <2>5
  <2> QED
    BY <2>0, <2>6, <2>7, <2>8 DEF SlotInv
<1> QED
  BY <1>1, <1>2

(* A launch or a preparation either goes on or gives the slot back.        *)
LEMMA LaunchKept ==
  ASSUME SlotInv, NEW c \in Connections, HostLaunchesControls(c)
  PROVE  SlotInv'
<1>1. CASE TaskReturns(c)
  BY <1>1, SlotGivenBack
<1>2. CASE ~TaskReturns(c)
  <2>0. PICK launched \in BOOLEAN :
          /\ host' = [host EXCEPT ![c].at = "worker", ![c].offer.pointer = launched]
          /\ workers' = workers \union {c}
          /\ active' = active
    BY <1>2 DEF HostLaunchesControls
  <2>1. Task(host[c]) /\ DOMAIN host = Connections /\ host[c].at = "controls"
    BY DEF SlotInv, Tasks, HostLaunchesControls
  <2>2. host[c].guard
    BY <2>1 DEF Task, Owning
  <2>3. Task(host'[c]) /\ host'[c].guard
    BY <2>0, <2>1, <2>2 DEF Task, TaskFields, Owning
  <2>4. DOMAIN host' = Connections /\ \A d \in Connections \ {c} : host'[d] = host[d]
    BY <2>0, <2>1
  <2>5. \A d \in Connections : host'[d].guard = host[d].guard
    BY <2>2, <2>3, <2>4 DEF Task
  <2>6. Tasks(host)' /\ (active \in BOOLEAN)'
    BY <2>0, <2>3, <2>4 DEF SlotInv, Tasks
  <2>7. Owned(host, active)'
    BY <2>0, <2>5 DEF SlotInv, Owned
  <2>8. (\A d \in workers : d \in Connections /\ host[d].guard)'
    BY <2>0, <2>2, <2>5 DEF SlotInv
  <2> QED
    BY <2>6, <2>7, <2>8 DEF SlotInv
<1> QED
  BY <1>1, <1>2

LEMMA PreparationKept ==
  ASSUME SlotInv, NEW c \in Connections, HostPreparesWorker(c)
  PROVE  SlotInv'
<1>1. CASE TaskReturns(c)
  BY <1>1, SlotGivenBack
<1>2. CASE ~TaskReturns(c)
  <2>0. PICK chosen :
          /\ host' = [host EXCEPT ![c].at = "selection", ![c].offer = None, ![c].chosen = chosen]
          /\ UNCHANGED <<active, workers>>
    <3>1. PICK desktop \in Displays :
            LET offer == host[c].offer
                depth == Negotiated({desktop}, offer.decoders, offer.size, offer.prefs)
                answer == AnswerTo(offer, desktop, offer.pointer)
            IN  /\ host' = [host EXCEPT ![c].at = "selection", ![c].offer = None,
                                        ![c].chosen = HostSelection(offer, answer, depth)]
                /\ UNCHANGED <<active, workers>>
      BY <1>2 DEF HostPreparesWorker
    <3> QED
      BY <3>1
  <2>1. Task(host[c]) /\ DOMAIN host = Connections /\ host[c].at = "worker"
    BY DEF SlotInv, Tasks, HostPreparesWorker
  <2>2. Task(host'[c]) /\ host'[c].guard = host[c].guard
    BY <2>0, <2>1 DEF Task, TaskFields, Owning
  <2>3. KeepsGuard(host, host', c)
    BY <2>0, <2>1, <2>2 DEF KeepsGuard
  <2> QED
    BY <2>0, <2>3, SlotKept
<1> QED
  BY <1>1, <1>2

(* A refused task had no slot, and a new one has none.                     *)
LEMMA OutsideKept ==
  ASSUME SlotInv, NEW c \in Connections, HostRefuses(c) \/ Connect(c)
  PROVE  SlotInv'
<1>0. Task(host[c]) /\ DOMAIN host = Connections
  BY DEF SlotInv, Tasks
<1>1. UNCHANGED <<active, workers>>
  BY DEF HostRefuses, Connect
<1>2. ~host[c].guard
  BY <1>0 DEF HostRefuses, Connect, Task, Owning, None
<1>3. CASE HostRefuses(c)
  <2>1. NoTask.guard = host[c].guard
    BY <1>0, <1>2 DEF Task, NoTask
  <2>2. host' = [host EXCEPT ![c] = NoTask]
    BY <1>3 DEF HostRefuses
  <2> QED
    BY <1>1, <2>1, <2>2, NoTaskFree, TaskStep
<1>4. CASE Connect(c)
  <2>1. PICK address \in Addresses :
          host' = [host EXCEPT ![c] = [NoTask EXCEPT
                     !.from = address, !.at = IF Tracks(address) THEN "delayed" ELSE "identity"]]
    BY <1>4 DEF Connect
  <2> DEFINE t == [NoTask EXCEPT
                     !.from = address, !.at = IF Tracks(address) THEN "delayed" ELSE "identity"]
  <2>2. Task(t) /\ ~t.guard
    BY DEF Task, TaskFields, NoTask, Owning
  <2>3. t.guard = host[c].guard
    BY <1>0, <1>2, <2>2 DEF Task
  <2>4. host' = [host EXCEPT ![c] = t]
    BY <2>1
  <2> HIDE DEF t
  <2> QED
    BY <1>1, <2>2, <2>3, <2>4, TaskStep
<1> QED
  BY <1>3, <1>4

LEMMA HostStepKept ==
  ASSUME SlotInv, NEW c \in Connections,
         HostStep(c) \/ HostTimesOut(c) \/ HostEndsStream(c)
  PROVE  SlotInv'
<1>1. CASE \/ DelayEnds(c) \/ HostIdentifies(c) \/ HostChallenges(c) \/ HostAuthenticates(c)
           \/ HostInforms(c) \/ HostStreams(c) \/ HostEndsStream(c)
  BY <1>1, PlacesKept
<1>2. CASE HostRefuses(c)
  BY <1>2, OutsideKept
<1>3. CASE HostInformed(c) \/ HostJoinsMedia(c) \/ HostTimesOut(c)
  BY <1>3, SlotGivenBack DEF HostInformed, HostJoinsMedia, HostTimesOut
<1>4. CASE HostTakesOffer(c)
  BY <1>4, OfferKept
<1>5. CASE HostLaunchesControls(c)
  BY <1>5, LaunchKept
<1>6. CASE HostPreparesWorker(c)
  BY <1>6, PreparationKept
<1>7. CASE HostConfirms(c) \/ HostSeesClosed(c)
  BY <1>7, ConfirmationKept
<1>8. CASE HostPongs(c) \/ HostMeasured(c) \/ HostProbes(c) \/ HostTakesReport(c)
  BY <1>8, MeasurementKept
<1> QED
  BY <1>1, <1>2, <1>3, <1>4, <1>5, <1>6, <1>7, <1>8 DEF HostStep

(* The slot is the host's: no step of the player and the network, and      *)
(* none of the service but its end, touches it.                            *)
LEMMA PlayerLeavesSlot ==
  ASSUME NEW c \in Connections, PlayerStep(c) \/ PlayerGivesUp(c) \/ LoseProbe(c)
  PROVE  UNCHANGED hostVars
<1>1. PlayerLeaves(c) => UNCHANGED hostVars
  BY DEF PlayerLeaves
<1>2. CASE PlayerIdentifies(c) \/ PlayerProves(c) \/ PlayerRequests(c) \/ PlayerInformed(c)
  BY <1>1, <1>2 DEF PlayerIdentifies, PlayerProves, PlayerRequests, PlayerInformed
<1>3. CASE PlayerSelects(c)
  BY <1>1, <1>3 DEF PlayerSelects
<1>4. CASE PlayerConfirms(c)
  BY <1>1, <1>4 DEF PlayerConfirms
<1>5. CASE PlayerMeasures(c)
  BY <1>5 DEF PlayerMeasures
<1>6. CASE PlayerProbes(c) \/ PlayerCounts(c) \/ PlayerReports(c) \/ PlayerStreams(c)
  BY <1>6 DEF PlayerProbes, PlayerCounts, PlayerReports, PlayerStreams
<1>7. CASE \/ PlayerMeetsLateProbe(c) \/ PlayerSeesClosed(c) \/ PlayerGivesUp(c) \/ LoseProbe(c)
  BY <1>1, <1>7 DEF PlayerMeetsLateProbe, PlayerSeesClosed, PlayerGivesUp, LoseProbe
<1> QED
  BY <1>2, <1>3, <1>4, <1>5, <1>6, <1>7 DEF PlayerStep

LEMMA SlotUntouched ==
  ASSUME SlotInv, UNCHANGED hostVars
  PROVE  SlotInv'
BY DEF hostVars, SlotInv, Tasks, Owned

LEMMA SlotGone ==
  ASSUME ServiceGone
  PROVE  SlotInv'
<1>1. DOMAIN host' = Connections /\ \A c \in Connections : host'[c] = NoTask
  BY DEF ServiceGone
<1>2. active' = FALSE /\ workers' = {}
  BY DEF ServiceGone
<1> QED
  BY <1>1, <1>2, NoTaskFree DEF SlotInv, Tasks, Owned

LEMMA SlotAtFirst == Init => SlotInv
<1> SUFFICES ASSUME Init PROVE SlotInv
  OBVIOUS
<1>1. DOMAIN host = Connections /\ \A c \in Connections : host[c] = NoTask
  BY DEF Init
<1>2. active = FALSE /\ workers = {}
  BY DEF Init
<1> QED
  BY <1>1, <1>2, NoTaskFree DEF SlotInv, Tasks, Owned

LEMMA SlotInductive == SlotInv /\ [Next]_vars => SlotInv'
<1> SUFFICES ASSUME SlotInv, [Next]_vars PROVE SlotInv'
  OBVIOUS
<1>1. CASE \E c \in Connections : HostStep(c) \/ HostTimesOut(c) \/ HostEndsStream(c)
  BY <1>1, HostStepKept
<1>2. CASE \E c \in Connections : PlayerStep(c) \/ PlayerGivesUp(c) \/ LoseProbe(c)
  BY <1>2, PlayerLeavesSlot, SlotUntouched
<1>3. CASE \E c \in Connections : Connect(c)
  BY <1>3, OutsideKept
<1>4. CASE StopService \/ StartService \/ UNCHANGED vars
  BY <1>4, SlotUntouched DEF StopService, StartService, vars
<1>5. CASE ServiceGone
  BY <1>5, SlotGone
<1> QED
  BY <1>1, <1>2, <1>3, <1>4, <1>5 DEF Next

(* The host serves one stream at a time: the slot is taken exactly while a *)
(* task owns it, and only that task has a media worker (service.rs,        *)
(* compare_exchange on active_stream and ActiveStreamGuard).               *)
THEOREM OneStreamAlways == Spec => []OneStream
<1>1. SlotInv => OneStream
  BY DEF SlotInv, Owned, OneStream
<1> QED
  BY <1>1, SlotAtFirst, SlotInductive, PTL DEF Spec

-------------------------------------------------------------------------------
(* The script of a connection.  A task h and a player p are at joint       *)
(* places, and the messages on their way, th to the host and tp to the     *)
(* player, are those the places call for.                                  *)

(* The identity of the host, the password, the result.  A refused player   *)
(* is told when the task is already closing.                               *)
Authenticating(h, p, th, tp) ==
  \/ /\ h.at \in {"delayed", "identity"} /\ p.at = "identity"
     /\ th = <<HostIdentityRequest>> /\ tp = <<>>
  \/ /\ h.at = "credential" /\ p.at = "identity"
     /\ th = <<>> /\ tp = <<HostIdentityOffer>>
  \/ /\ h.at = "credential" /\ p.at = "credential"
     /\ th = <<OpaqueCredentialRequest>> /\ tp = <<>>
  \/ /\ h.at = "finalization" /\ p.at = "credential"
     /\ th = <<>> /\ tp = <<OpaqueCredentialResponse>>
  \/ /\ h.at = "finalization" /\ p.at = "result"
     /\ (\E right \in BOOLEAN : th = <<OpaqueCredentialFinalization(right)>>) /\ tp = <<>>
  \/ /\ h.at = "refusing" /\ p.at = "result"
     /\ th = <<>> /\ tp = <<>>

(* What the player came for, up to the configuration both have chosen.     *)
Asking(h, p, th, tp) ==
  \/ /\ h.at = "request" /\ p.at = "result"
     /\ th = <<>> /\ tp = <<AuthenticationResult(TRUE)>>
  \/ /\ h.at = "request" /\ p.at = "answer"
     /\ th \in {<<SessionAvailabilityProbe>>, <<DisplayCatalogRequest>>} /\ tp = <<>>
  \/ /\ h.at = "stopped" /\ p.at = "answer"
     /\ th = <<>>
     /\ \/ tp = <<DisplayCatalog>>
        \/ \E busy \in BOOLEAN : tp = <<SessionAvailabilityResult(busy)>>
  \/ /\ h.at = "request" /\ p.at = "hostOffer"
     /\ (\E offer : th = <<ViewerOffer(offer)>>) /\ tp = <<>>
Choosing(h, p, th, tp) ==
  \/ /\ h.at \in {"controls", "worker"} /\ p.at = "hostOffer"
     /\ th = <<>> /\ tp = <<>>
  \/ /\ h.at = "selection" /\ p.at = "hostOffer"
     /\ th = <<>> /\ (\E answer : tp = <<HostOffer(answer)>>)
  \/ /\ h.at = "selection" /\ p.at = "hostSelection" /\ p.seen = 0
     /\ th = <<SelectedAv1Configuration(p.chosen)>> /\ tp = <<>>

(* From its own confirmation on the host has the choice of the player.     *)
(* The two latency probes are one: ping, pong, and after the last the      *)
(* report; only what follows it differs.                                   *)
Pinging(h, p, th, tp) ==
  \/ /\ h.at = "latency1" /\ h.seen = 0 /\ p.at = "hostSelection" /\ p.seen = 0
     /\ th = <<>> /\ tp = <<SelectedAv1Configuration(h.chosen)>>
  \/ /\ h.at \in LatencyPlaces /\ p.at = h.at
     /\ h.seen \in 0..(Samples - 1) /\ p.seen = h.seen
     /\ th = <<ClockPing(h.seen + 1)>> /\ tp = <<>>
  \/ /\ h.at \in LatencyPlaces /\ p.at = h.at
     /\ h.seen \in 1..Samples /\ p.seen = h.seen - 1
     /\ th = <<>> /\ tp = <<ClockPong(h.seen)>>
Probing(h, p, th, tp) ==
  \/ /\ h.at = "latency1" /\ h.seen = Samples /\ p.at = "probeStart"
     /\ th = <<LatencyProbeReport>> /\ tp = <<>>
  \/ /\ h.at = "probing" /\ p.at = "probeStart"
     /\ th = <<>> /\ tp = <<BandwidthProbeStart>>
  \/ /\ h.at = "probing" /\ p.at = "probing"
     /\ th = <<>> /\ tp = <<>>
  \/ /\ h.at = "report" /\ p.at = "probeStart"
     /\ th = <<>> /\ (\E sent : tp = <<BandwidthProbeStart, BandwidthProbeFinish(sent)>>)
  \/ /\ h.at = "report" /\ p.at = "probing"
     /\ th = <<>> /\ (\E sent : tp = <<BandwidthProbeFinish(sent)>>)
  \/ /\ h.at = "report" /\ p.at = "grace"
     /\ th = <<>> /\ tp = <<>>
  \/ /\ h.at = "report" /\ p.at = "latency2" /\ p.seen = 0
     /\ (\E received : th = <<BandwidthProbeReport(received), ClockPing(1)>>) /\ tp = <<>>

(* After the second report: the input stream if both chose it, then the    *)
(* diagnostic stream if both chose it.                                     *)
Opening(h, p, th, tp) ==
  \/ /\ h.at = "latency2" /\ h.seen = Samples /\ p.at = PlayerReady(p)
     /\ th = (IF p.chosen.input THEN <<LatencyProbeReport, InputStream>> ELSE <<LatencyProbeReport>>)
     /\ tp = <<>>
  \/ /\ h.at = "input" /\ p.at = PlayerReady(p) /\ p.chosen.input
     /\ th = <<InputStream>> /\ tp = <<>>
  \/ /\ h.at \in {"streaming", "ending"} /\ p.at = "diagnostics"
     /\ th = <<>> /\ tp = <<DiagnosticStream>>
  \/ /\ h.at \in {"streaming", "ending"} /\ p.at = "streaming"
     /\ th = <<>> /\ tp = <<>>

Script(h, p, th, tp) ==
  \/ h.seen = 0 /\ (Authenticating(h, p, th, tp) \/ Asking(h, p, th, tp) \/ Choosing(h, p, th, tp))
  \/ h.chosen = p.chosen /\ (Pinging(h, p, th, tp) \/ Probing(h, p, th, tp) \/ Opening(h, p, th, tp))

PlayerFields == {"at", "offer", "chosen", "seen"}

(* A player that is not there has left nothing behind; an open connection  *)
(* is somewhere in the script.                                             *)
StepInv ==
  /\ DOMAIN player = Connections /\ DOMAIN open = Connections
  /\ DOMAIN toHost = Connections /\ DOMAIN toPlayer = Connections
  /\ \A c \in Connections : 
       /\ DOMAIN player[c] = PlayerFields
       /\ player[c].at = None => player[c] = NoPlayer /\ toPlayer[c] = <<>>
       /\ open[c] => Script(host[c], player[c], toHost[c], toPlayer[c])

-------------------------------------------------------------------------------
(* Lemmas on sequences of one message or two.                              *)
LEMMA OneMessage ==
  ASSUME NEW m
  PROVE  /\ Head(<<m>>) = m /\ Tail(<<m>>) = <<>> /\ <<m>> # <<>>
         /\ <<>> \o <<m>> = <<m>> /\ <<>> \o <<>> = <<>>
         /\ <<m>> \o <<>> = <<m>>
<1>1. Head(<<m>>) = m /\ <<m>> # <<>>
  OBVIOUS
<1>2. Tail(<<m>>) = <<>>
  OBVIOUS
<1>3. <<>> \o <<m>> = <<m>>
  OBVIOUS
<1>4. <<>> \o <<>> = <<>>
  OBVIOUS
<1>5. <<m>> \o <<>> = <<m>>
  OBVIOUS
<1> QED
  BY <1>1, <1>2, <1>3, <1>4, <1>5

LEMMA TwoMessages ==
  ASSUME NEW m, NEW n
  PROVE  /\ Head(<<m, n>>) = m /\ Tail(<<m, n>>) = <<n>> /\ <<m, n>> # <<>>
         /\ <<m>> \o <<n>> = <<m, n>> /\ <<>> \o <<m, n>> = <<m, n>>
<1>1. Head(<<m, n>>) = m /\ <<m, n>> # <<>>
  OBVIOUS
<1>2. Tail(<<m, n>>) = <<n>>
  OBVIOUS
<1>3. <<m>> \o <<n>> = <<m, n>>
  <2> DEFINE S == {m, n}
  <2>1. <<m>> \in Seq(S) /\ <<n>> \in Seq(S) /\ <<m, n>> \in Seq(S)
    OBVIOUS
  <2>2. Len(<<m>> \o <<n>>) = 2 /\ (<<m>> \o <<n>>)[1] = m /\ (<<m>> \o <<n>>)[2] = n
    BY <2>1
  <2>3. <<m>> \o <<n>> \in Seq(S)
    BY <2>1
  <2>4. Len(<<m, n>>) = 2 /\ <<m, n>>[1] = m /\ <<m, n>>[2] = n
    OBVIOUS
  <2> HIDE DEF S
  <2>5. ASSUME NEW s \in Seq(S), NEW t \in Seq(S), Len(s) = 2, Len(t) = 2, s[1] = t[1], s[2] = t[2]
        PROVE  s = t
    BY <2>5, SeqEqual
  <2> QED
    BY <2>1, <2>2, <2>3, <2>4, <2>5
<1>4. <<>> \o <<m, n>> = <<m, n>>
  OBVIOUS
<1> QED
  BY <1>1, <1>2, <1>3, <1>4

-------------------------------------------------------------------------------
(* What a step of one connection has to show.                              *)

(* Every other connection is as it was.                                    *)
Elsewhere(c) ==
  /\ DOMAIN player' = Connections /\ DOMAIN open' = Connections
  /\ DOMAIN toHost' = Connections /\ DOMAIN toPlayer' = Connections
  /\ \A d \in Connections \ {c} :
       /\ host'[d] = host[d] /\ player'[d] = player[d] /\ open'[d] = open[d]
       /\ toHost'[d] = toHost[d] /\ toPlayer'[d] = toPlayer[d]

Peers(h, p, conn, th, tp) ==
  /\ DOMAIN p = PlayerFields
  /\ p.at = None => p = NoPlayer /\ tp = <<>>
  /\ conn => Script(h, p, th, tp)

LEMMA OneConnection ==
  ASSUME StepInv, NEW c \in Connections, Elsewhere(c),
         Peers(host[c], player[c], open[c], toHost[c], toPlayer[c])'
  PROVE  StepInv'
BY DEF StepInv, Elsewhere, Peers

LEMMA ScriptNeedsBoth ==
  ASSUME NEW h, NEW p, NEW th, NEW tp, Script(h, p, th, tp)
  PROVE  h.at # None /\ p.at # None
BY DEF Script, Authenticating, Asking, Choosing, Pinging, Probing, Opening, PlayerReady, LatencyPlaces, None

LEMMA HostTurn ==
  ASSUME StepInv, DOMAIN host = Connections, NEW c \in Connections, UNCHANGED <<player, open>>,
         NEW t, host' = [host EXCEPT ![c] = t],
         NEW rest, toHost' = [toHost EXCEPT ![c] = rest],
         NEW sent, HostWrites(c, sent),
         open[c] => Script(t, player[c], rest, toPlayer[c] \o sent)
  PROVE  StepInv'
<1>1. Elsewhere(c)
  BY DEF Elsewhere, HostWrites, StepInv
<1>2. /\ host'[c] = t /\ toHost'[c] = rest /\ player'[c] = player[c] /\ open'[c] = open[c]
      /\ toPlayer'[c] = IF player[c].at = None THEN <<>> ELSE toPlayer[c] \o sent
  BY DEF HostWrites, StepInv
<1>3. open[c] => player[c].at # None
  BY ScriptNeedsBoth DEF StepInv
<1>4. Peers(host[c], player[c], open[c], toHost[c], toPlayer[c])'
  BY <1>2, <1>3 DEF Peers, StepInv
<1> QED
  BY <1>1, <1>4, OneConnection

LEMMA PlayerTurn ==
  ASSUME StepInv, DOMAIN host = Connections, NEW c \in Connections, UNCHANGED <<host, open>>,
         NEW t, player' = [player EXCEPT ![c] = t], DOMAIN t = PlayerFields, t.at # None,
         NEW rest, toPlayer' = [toPlayer EXCEPT ![c] = rest],
         NEW sent, PlayerWrites(c, sent),
         open[c] => Script(host[c], t, toHost[c] \o sent, rest)
  PROVE  StepInv'
<1>1. Elsewhere(c)
  BY DEF Elsewhere, PlayerWrites, StepInv
<1>2. /\ host'[c] = host[c] /\ toPlayer'[c] = rest /\ player'[c] = t /\ open'[c] = open[c]
      /\ toHost'[c] = IF host[c].at = None THEN <<>> ELSE toHost[c] \o sent
  BY DEF PlayerWrites, StepInv
<1>3. open[c] => host[c].at # None
  BY ScriptNeedsBoth DEF StepInv
<1>4. Peers(host[c], player[c], open[c], toHost[c], toPlayer[c])'
  BY <1>2, <1>3 DEF Peers
<1> QED
  BY <1>1, <1>4, OneConnection

(* A connection one side has closed has no script.                         *)
LEMMA ClosedByHost ==
  ASSUME StepInv, NEW c \in Connections, UNCHANGED player,
         host' = [host EXCEPT ![c] = NoTask], DOMAIN host = Connections,
         open' = [open EXCEPT ![c] = FALSE],
         toHost' = [toHost EXCEPT ![c] = <<>>],
         toPlayer' = toPlayer \/ \E sent : HostWrites(c, sent)
  PROVE  StepInv'
<1>1. Elsewhere(c)
  BY DEF Elsewhere, HostWrites, StepInv
<1>2. Peers(host[c], player[c], open[c], toHost[c], toPlayer[c])'
  BY DEF Peers, StepInv, HostWrites
<1> QED
  BY <1>1, <1>2, OneConnection

LEMMA ClosedByPlayer ==
  ASSUME StepInv, NEW c \in Connections, PlayerLeaves(c)
  PROVE  StepInv'
<1>1. Elsewhere(c)
  BY DEF Elsewhere, PlayerLeaves, StepInv, hostVars
<1>2. Peers(host[c], player[c], open[c], toHost[c], toPlayer[c])'
  BY DEF Peers, StepInv, PlayerLeaves, NoPlayer, PlayerFields
<1> QED
  BY <1>1, <1>2, OneConnection

(* A step of one side that neither reads nor writes.                       *)
LEMMA OneSide ==
  ASSUME StepInv, NEW c \in Connections, UNCHANGED <<open, toHost, toPlayer>>,
         \A d \in Connections \ {c} : host'[d] = host[d] /\ player'[d] = player[d],
         DOMAIN player' = Connections, DOMAIN player'[c] = PlayerFields,
         player'[c] = player[c] \/ player'[c].at # None,
         open[c] => Script(host'[c], player'[c], toHost[c], toPlayer[c])
  PROVE  StepInv'
<1>1. Elsewhere(c)
  BY DEF Elsewhere, StepInv
<1>2. Peers(host[c], player[c], open[c], toHost[c], toPlayer[c])'
  BY DEF Peers, StepInv
<1> QED
  BY <1>1, <1>2, OneConnection

(* A step of the host that writes and reads nothing.                       *)
LEMMA HostSays ==
  ASSUME StepInv, NEW c \in Connections, UNCHANGED <<player, open, toHost>>,
         NEW t, \A d \in Connections : host'[d] = IF d = c THEN t ELSE host[d],
         NEW sent, HostWrites(c, sent),
         open[c] => Script(t, player[c], toHost[c], toPlayer[c] \o sent)
  PROVE  StepInv'
<1>1. Elsewhere(c)
  BY DEF Elsewhere, HostWrites, StepInv
<1>2. /\ host'[c] = t /\ player'[c] = player[c] /\ open'[c] = open[c]
      /\ toPlayer'[c] = IF player[c].at = None THEN <<>> ELSE toPlayer[c] \o sent
  BY DEF HostWrites, StepInv
<1>3. open[c] => player[c].at # None
  BY ScriptNeedsBoth DEF StepInv
<1>4. Peers(host[c], player[c], open[c], toHost[c], toPlayer[c])'
  BY <1>2, <1>3 DEF Peers, StepInv
<1> QED
  BY <1>1, <1>4, OneConnection

-------------------------------------------------------------------------------
(* The place of one side names the part of the script.                     *)
LEMMA HostPart ==
  ASSUME NEW h, NEW p, NEW th, NEW tp, Script(h, p, th, tp)
  PROVE  /\ h.at \in {"delayed", "identity", "credential", "finalization"} =>
              h.seen = 0 /\ Authenticating(h, p, th, tp)
         /\ h.at = "request" => h.seen = 0 /\ Asking(h, p, th, tp)
         /\ h.at \in {"controls", "worker", "selection"} => h.seen = 0 /\ Choosing(h, p, th, tp)
         /\ h.at \in LatencyPlaces =>
              /\ h.chosen = p.chosen
              /\ Pinging(h, p, th, tp) \/ Probing(h, p, th, tp) \/ Opening(h, p, th, tp)
         /\ h.at \in {"probing", "report"} => h.chosen = p.chosen /\ Probing(h, p, th, tp)
         /\ h.at \in {"input", "streaming"} => h.chosen = p.chosen /\ Opening(h, p, th, tp)
BY DEF Script, Authenticating, Asking, Choosing, Pinging, Probing, Opening, LatencyPlaces

LEMMA PlayerPart ==
  ASSUME NEW h, NEW p, NEW th, NEW tp, Script(h, p, th, tp)
  PROVE  /\ p.at \in {"identity", "credential"} => h.seen = 0 /\ Authenticating(h, p, th, tp)
         /\ p.at = "result" =>
              h.seen = 0 /\ (Authenticating(h, p, th, tp) \/ Asking(h, p, th, tp))
         /\ p.at = "hostOffer" => h.seen = 0 /\ (Asking(h, p, th, tp) \/ Choosing(h, p, th, tp))
         /\ p.at = "hostSelection" =>
              \/ h.seen = 0 /\ Choosing(h, p, th, tp)
              \/ h.chosen = p.chosen /\ Pinging(h, p, th, tp)
         /\ p.at \in LatencyPlaces =>
              h.chosen = p.chosen /\ (Pinging(h, p, th, tp) \/ Probing(h, p, th, tp))
         /\ p.at \in {"probeStart", "probing", "grace"} =>
              h.chosen = p.chosen /\ Probing(h, p, th, tp)
         /\ p.at = "diagnostics" => h.chosen = p.chosen /\ Opening(h, p, th, tp)
BY DEF Script, Authenticating, Asking, Choosing, Pinging, Probing, Opening, LatencyPlaces, PlayerReady

-------------------------------------------------------------------------------
(* What a side reads tells where the other side is: one lemma per part of  *)
(* the script, on a task h that becomes g, or a player p that becomes q,   *)
(* and on what is on its way between them.                                 *)

(* A side that went on to another place, and no more.                      *)
Moved(h, g, place) == g.at = place /\ g.seen = h.seen /\ g.chosen = h.chosen

(* What is read next.                                                      *)
HeadIs(way, type) == Head(way).is = type

LEMMA HostAuthenticationTurns ==
  ASSUME NEW h, NEW g, NEW p, NEW th, NEW tp, Script(h, p, th, tp)
  PROVE  /\ h.at = "delayed" /\ Moved(h, g, "identity") => Script(g, p, th, tp)
         /\ h.at = "identity" /\ Moved(h, g, "credential") =>
              Script(g, p, Tail(th), tp \o <<HostIdentityOffer>>)
         /\ h.at = "credential" /\ Moved(h, g, "finalization") /\ th # <<>> =>
              Script(g, p, Tail(th), tp \o <<OpaqueCredentialResponse>>)
         /\ h.at = "finalization" /\ Moved(h, g, "request") /\ th # <<>> =>
              Script(g, p, Tail(th), tp \o <<AuthenticationResult(TRUE)>>)
         /\ h.at = "finalization" /\ Moved(h, g, "refusing") /\ th # <<>> =>
              Script(g, p, Tail(th), tp \o <<>>)
<1>1. h.at \in {"delayed", "identity", "credential", "finalization"} =>
        h.seen = 0 /\ Authenticating(h, p, th, tp)
  BY HostPart
<1>2. ASSUME h.at = "delayed", Moved(h, g, "identity")
      PROVE  Authenticating(g, p, th, tp) /\ g.seen = 0
  BY <1>1, <1>2 DEF Authenticating, Moved
<1>3. ASSUME h.at = "identity", Moved(h, g, "credential")
      PROVE  Authenticating(g, p, Tail(th), tp \o <<HostIdentityOffer>>) /\ g.seen = 0
  <2>1. p.at = "identity" /\ th = <<HostIdentityRequest>> /\ tp = <<>>
    BY <1>1, <1>3 DEF Authenticating
  <2>2. Tail(th) = <<>> /\ tp \o <<HostIdentityOffer>> = <<HostIdentityOffer>>
    BY <2>1, OneMessage
  <2> QED
    BY <1>1, <1>3, <2>1, <2>2 DEF Authenticating, Moved
<1>4. ASSUME h.at = "credential", Moved(h, g, "finalization"), th # <<>>
      PROVE  Authenticating(g, p, Tail(th), tp \o <<OpaqueCredentialResponse>>) /\ g.seen = 0
  <2>1. p.at = "credential" /\ th = <<OpaqueCredentialRequest>> /\ tp = <<>>
    BY <1>1, <1>4 DEF Authenticating
  <2>2. Tail(th) = <<>> /\ tp \o <<OpaqueCredentialResponse>> = <<OpaqueCredentialResponse>>
    BY <2>1, OneMessage
  <2> QED
    BY <1>1, <1>4, <2>1, <2>2 DEF Authenticating, Moved
<1>5. ASSUME h.at = "finalization", th # <<>>
      PROVE  p.at = "result" /\ Tail(th) = <<>> /\ tp = <<>>
  <2>1. p.at = "result" /\ tp = <<>> /\ \E right \in BOOLEAN : th = <<OpaqueCredentialFinalization(right)>>
    BY <1>1, <1>5 DEF Authenticating
  <2> QED
    BY <2>1, OneMessage
<1>6. ASSUME h.at = "finalization", Moved(h, g, "request"), th # <<>>
      PROVE  Asking(g, p, Tail(th), tp \o <<AuthenticationResult(TRUE)>>) /\ g.seen = 0
  <2>1. tp \o <<AuthenticationResult(TRUE)>> = <<AuthenticationResult(TRUE)>>
    BY <1>5, <1>6, OneMessage
  <2> QED
    BY <1>1, <1>5, <1>6, <2>1 DEF Asking, Moved
<1>7. ASSUME h.at = "finalization", Moved(h, g, "refusing"), th # <<>>
      PROVE  Authenticating(g, p, Tail(th), tp \o <<>>) /\ g.seen = 0
  <2>1. tp \o <<>> = <<>>
    BY <1>5, <1>7, OneMessage
  <2> QED
    BY <1>1, <1>5, <1>7, <2>1 DEF Authenticating, Moved
<1> QED
  BY <1>2, <1>3, <1>4, <1>6, <1>7 DEF Script

LEMMA PlayerAuthenticationTurns ==
  ASSUME NEW h, NEW p, NEW q, NEW th, NEW tp, Script(h, p, th, tp), tp # <<>>
  PROVE  /\ p.at = "identity" /\ q.at = "credential" =>
              Script(h, q, th \o <<OpaqueCredentialRequest>>, Tail(tp))
         /\ p.at = "credential" /\ q.at = "result" =>
              \A right \in BOOLEAN :
                Script(h, q, th \o <<OpaqueCredentialFinalization(right)>>, Tail(tp))
         /\ p.at = "result" /\ q.at = "answer" =>
              /\ Script(h, q, th \o <<SessionAvailabilityProbe>>, Tail(tp))
              /\ Script(h, q, th \o <<DisplayCatalogRequest>>, Tail(tp))
         /\ p.at = "result" /\ q.at = "hostOffer" =>
              \A offer : Script(h, q, th \o <<ViewerOffer(offer)>>, Tail(tp))
<1>1. ASSUME p.at = "identity", q.at = "credential"
      PROVE  Authenticating(h, q, th \o <<OpaqueCredentialRequest>>, Tail(tp)) /\ h.seen = 0
  <2>1. Authenticating(h, p, th, tp) /\ h.seen = 0
    BY <1>1, PlayerPart
  <2>2. h.at = "credential" /\ th = <<>> /\ tp = <<HostIdentityOffer>>
    BY <1>1, <2>1 DEF Authenticating
  <2>3. Tail(tp) = <<>> /\ th \o <<OpaqueCredentialRequest>> = <<OpaqueCredentialRequest>>
    BY <2>2, OneMessage
  <2> QED
    BY <1>1, <2>1, <2>2, <2>3 DEF Authenticating
<1>2. ASSUME p.at = "credential", q.at = "result", NEW right \in BOOLEAN
      PROVE  Authenticating(h, q, th \o <<OpaqueCredentialFinalization(right)>>, Tail(tp)) /\ h.seen = 0
  <2>1. Authenticating(h, p, th, tp) /\ h.seen = 0
    BY <1>2, PlayerPart
  <2>2. h.at = "finalization" /\ th = <<>> /\ tp = <<OpaqueCredentialResponse>>
    BY <1>2, <2>1 DEF Authenticating
  <2>3. /\ Tail(tp) = <<>>
        /\ th \o <<OpaqueCredentialFinalization(right)>> = <<OpaqueCredentialFinalization(right)>>
    BY <2>2, OneMessage
  <2> QED
    BY <1>2, <2>1, <2>2, <2>3 DEF Authenticating
<1>3. ASSUME p.at = "result"
      PROVE  /\ h.at = "request" /\ h.seen = 0 /\ th = <<>> /\ Tail(tp) = <<>>
             /\ \A m : th \o <<m>> = <<m>>
  <2>1. h.seen = 0 /\ (Authenticating(h, p, th, tp) \/ Asking(h, p, th, tp))
    BY <1>3, PlayerPart
  <2>2. h.at = "request" /\ th = <<>> /\ tp = <<AuthenticationResult(TRUE)>>
    BY <1>3, <2>1 DEF Authenticating, Asking
  <2> QED
    BY <2>1, <2>2, OneMessage
<1>4. ASSUME p.at = "result", q.at = "answer"
      PROVE  /\ Asking(h, q, th \o <<SessionAvailabilityProbe>>, Tail(tp))
             /\ Asking(h, q, th \o <<DisplayCatalogRequest>>, Tail(tp))
  BY <1>3, <1>4 DEF Asking
<1>5. ASSUME p.at = "result", q.at = "hostOffer", NEW offer
      PROVE  Asking(h, q, th \o <<ViewerOffer(offer)>>, Tail(tp))
  BY <1>3, <1>5 DEF Asking
<1> QED
  BY <1>1, <1>2, <1>3, <1>4, <1>5 DEF Script

LEMMA HostAnswerTurns ==
  ASSUME NEW h, NEW g, NEW p, NEW th, NEW tp, Script(h, p, th, tp),
         h.at = "request", th # <<>>
  PROVE  /\ HeadIs(th, "SessionAvailabilityProbe") /\ Moved(h, g, "stopped") =>
              \A busy \in BOOLEAN : Script(g, p, Tail(th), tp \o <<SessionAvailabilityResult(busy)>>)
         /\ HeadIs(th, "DisplayCatalogRequest") /\ Moved(h, g, "stopped") =>
              Script(g, p, Tail(th), tp \o <<DisplayCatalog>>)
         /\ HeadIs(th, "Av1CapabilityOffer") /\ g.at \in {"controls", "worker"} /\ g.seen = h.seen =>
              Script(g, p, Tail(th), tp \o <<>>)
<1>1. Asking(h, p, th, tp) /\ h.seen = 0
  BY HostPart
<1>2. \/ /\ p.at = "answer" /\ tp = <<>>
         /\ th \in {<<SessionAvailabilityProbe>>, <<DisplayCatalogRequest>>}
      \/ /\ p.at = "hostOffer" /\ tp = <<>>
         /\ \E offer : th = <<ViewerOffer(offer)>>
  BY <1>1 DEF Asking
<1>3. Tail(th) = <<>> /\ tp \o <<>> = <<>> /\ \A m : tp \o <<m>> = <<m>>
  BY <1>2, OneMessage
<1>4. CASE /\ p.at = "answer" /\ th \in {<<SessionAvailabilityProbe>>, <<DisplayCatalogRequest>>}
  <2>1. ASSUME Moved(h, g, "stopped"), NEW busy \in BOOLEAN
        PROVE  Asking(g, p, Tail(th), tp \o <<SessionAvailabilityResult(busy)>>) /\ g.seen = 0
    BY <1>1, <1>3, <1>4, <2>1 DEF Asking, Moved
  <2>2. ASSUME Moved(h, g, "stopped")
        PROVE  Asking(g, p, Tail(th), tp \o <<DisplayCatalog>>) /\ g.seen = 0
    BY <1>1, <1>3, <1>4, <2>2 DEF Asking, Moved
  <2>3. ~HeadIs(th, "Av1CapabilityOffer")
    BY <1>4, OneMessage DEF HeadIs, SessionAvailabilityProbe, DisplayCatalogRequest, Envelope
  <2> QED
    BY <2>1, <2>2, <2>3 DEF Script
<1>5. CASE p.at = "hostOffer" /\ (\E offer : th = <<ViewerOffer(offer)>>)
  <2>1. ASSUME g.at \in {"controls", "worker"}, g.seen = h.seen
        PROVE  Choosing(g, p, Tail(th), tp \o <<>>) /\ g.seen = 0
    BY <1>1, <1>3, <1>5, <2>1 DEF Choosing
  <2>2. PICK offer : th = <<ViewerOffer(offer)>>
    BY <1>5
  <2>3. Head(th).is = "Av1CapabilityOffer"
    BY <2>2, OneMessage DEF ViewerOffer
  <2>4. ~HeadIs(th, "SessionAvailabilityProbe") /\ ~HeadIs(th, "DisplayCatalogRequest")
    BY <2>3 DEF HeadIs
  <2> QED
    BY <2>1, <2>4 DEF Script
<1> QED
  BY <1>2, <1>4, <1>5

LEMMA HostChoiceTurns ==
  ASSUME NEW h, NEW g, NEW p, NEW th, NEW tp, Script(h, p, th, tp)
  PROVE  /\ h.at = "controls" /\ g.at = "worker" /\ g.seen = h.seen => Script(g, p, th, tp)
         /\ h.at = "worker" /\ g.at = "selection" /\ g.seen = h.seen =>
              \A answer : Script(g, p, th, tp \o <<HostOffer(answer)>>)
         /\ h.at = "selection" /\ th # <<>> /\ Head(th).chosen = h.chosen /\ Moved(h, g, "latency1") =>
              Script(g, p, Tail(th), tp \o <<SelectedAv1Configuration(h.chosen)>>)
<1>1. h.at \in {"controls", "worker", "selection"} => h.seen = 0 /\ Choosing(h, p, th, tp)
  BY HostPart
<1>2. ASSUME h.at = "controls", g.at = "worker", g.seen = h.seen
      PROVE  Choosing(g, p, th, tp) /\ g.seen = 0
  BY <1>1, <1>2 DEF Choosing
<1>3. ASSUME h.at = "worker", g.at = "selection", g.seen = h.seen, NEW answer
      PROVE  Choosing(g, p, th, tp \o <<HostOffer(answer)>>) /\ g.seen = 0
  <2>1. p.at = "hostOffer" /\ th = <<>> /\ tp = <<>>
    BY <1>1, <1>3 DEF Choosing
  <2>2. tp \o <<HostOffer(answer)>> = <<HostOffer(answer)>>
    BY <2>1, OneMessage
  <2> QED
    BY <1>1, <1>3, <2>1, <2>2 DEF Choosing
<1>4. ASSUME h.at = "selection", th # <<>>, Head(th).chosen = h.chosen, Moved(h, g, "latency1")
      PROVE  /\ Pinging(g, p, Tail(th), tp \o <<SelectedAv1Configuration(h.chosen)>>)
             /\ g.chosen = p.chosen
  <2>1. /\ p.at = "hostSelection" /\ p.seen = 0
        /\ th = <<SelectedAv1Configuration(p.chosen)>> /\ tp = <<>>
    BY <1>1, <1>4 DEF Choosing
  <2>2. /\ Tail(th) = <<>> /\ Head(th) = SelectedAv1Configuration(p.chosen)
        /\ tp \o <<SelectedAv1Configuration(h.chosen)>> = <<SelectedAv1Configuration(h.chosen)>>
    BY <2>1, OneMessage
  <2>3. g.chosen = p.chosen /\ g.chosen = h.chosen /\ g.seen = 0 /\ g.at = "latency1"
    BY <1>1, <1>4, <2>2 DEF SelectedAv1Configuration, Moved
  <2> QED
    BY <2>1, <2>2, <2>3 DEF Pinging
<1> QED
  BY <1>2, <1>3, <1>4 DEF Script

LEMMA PlayerChoiceTurns ==
  ASSUME NEW h, NEW p, NEW q, NEW th, NEW tp, Script(h, p, th, tp), tp # <<>>
  PROVE  /\ p.at = "hostOffer" /\ q.at = "hostSelection" /\ q.seen = 0 =>
              Script(h, q, th \o <<SelectedAv1Configuration(q.chosen)>>, Tail(tp))
         /\ p.at = "hostSelection" /\ Moved(p, q, "latency1") =>
              Script(h, q, th \o <<ClockPing(1)>>, Tail(tp))
<1>1. ASSUME p.at = "hostOffer", q.at = "hostSelection", q.seen = 0
      PROVE  Choosing(h, q, th \o <<SelectedAv1Configuration(q.chosen)>>, Tail(tp)) /\ h.seen = 0
  <2>1. h.seen = 0 /\ (Asking(h, p, th, tp) \/ Choosing(h, p, th, tp))
    BY <1>1, PlayerPart
  <2>2. h.at = "selection" /\ th = <<>> /\ \E answer : tp = <<HostOffer(answer)>>
    BY <1>1, <2>1 DEF Asking, Choosing
  <2>3. /\ Tail(tp) = <<>>
        /\ th \o <<SelectedAv1Configuration(q.chosen)>> = <<SelectedAv1Configuration(q.chosen)>>
    BY <2>2, OneMessage
  <2> QED
    BY <1>1, <2>1, <2>2, <2>3 DEF Choosing
<1>2. ASSUME p.at = "hostSelection", Moved(p, q, "latency1")
      PROVE  Pinging(h, q, th \o <<ClockPing(1)>>, Tail(tp)) /\ h.chosen = q.chosen
  <2>1. \/ h.seen = 0 /\ Choosing(h, p, th, tp)
        \/ h.chosen = p.chosen /\ Pinging(h, p, th, tp)
    BY <1>2, PlayerPart
  <2>2. ~Choosing(h, p, th, tp)
    BY <1>2 DEF Choosing
  <2>3. /\ h.at = "latency1" /\ h.seen = 0 /\ p.seen = 0 /\ h.chosen = p.chosen
        /\ th = <<>> /\ tp = <<SelectedAv1Configuration(h.chosen)>>
    BY <1>2, <2>1, <2>2 DEF Pinging, LatencyPlaces
  <2>4. Tail(tp) = <<>> /\ th \o <<ClockPing(1)>> = <<ClockPing(1)>>
    BY <2>3, OneMessage
  <2>5. h.seen \in 0..(Samples - 1) /\ h.seen + 1 = 1
    BY <2>3, ConstantsAssumption
  <2> QED
    BY <1>2, <2>3, <2>4, <2>5 DEF Pinging, Moved, LatencyPlaces
<1> QED
  BY <1>1, <1>2 DEF Script

(* The probes: number by number, and the same number on both sides.        *)
LEMMA HostProbeTurns ==
  ASSUME NEW h, NEW g, NEW p, NEW th, NEW tp, Script(h, p, th, tp), g.chosen = h.chosen
  PROVE  /\ /\ h.at \in LatencyPlaces /\ HeadIs(th, "ClockPing") /\ th # <<>>
            /\ g.at = h.at /\ g.seen = h.seen + 1
            => Script(g, p, Tail(th), tp \o <<ClockPong(h.seen + 1)>>)
         /\ h.at = "latency1" /\ HeadIs(th, "LatencyProbeReport") /\ th # <<>> /\ g.at = "probing" =>
              Script(g, p, Tail(th), tp \o <<BandwidthProbeStart>>)
         /\ h.at = "probing" /\ g.at = "report" =>
              \A sent : Script(g, p, th, tp \o <<BandwidthProbeFinish(sent)>>)
         /\ h.at = "report" /\ th # <<>> /\ g.at = "latency2" /\ g.seen = 0 =>
              Script(g, p, Tail(th), tp \o <<>>)
<1>1. ASSUME h.at \in LatencyPlaces, HeadIs(th, "ClockPing"), th # <<>>,
             g.at = h.at, g.seen = h.seen + 1
      PROVE  Script(g, p, Tail(th), tp \o <<ClockPong(h.seen + 1)>>)
  <2>1. /\ h.chosen = p.chosen
        /\ Pinging(h, p, th, tp) \/ Probing(h, p, th, tp) \/ Opening(h, p, th, tp)
    BY <1>1, HostPart
  <2>2. ~Probing(h, p, th, tp)
    BY <1>1, OneMessage DEF Probing, LatencyPlaces, HeadIs, LatencyProbeReport, Envelope
  <2>3. ~Opening(h, p, th, tp)
    <3>1. SUFFICES ASSUME th = <<LatencyProbeReport>> \/ th = <<LatencyProbeReport, InputStream>>
                   PROVE  ~HeadIs(th, "ClockPing")
      BY <1>1 DEF Opening, LatencyPlaces
    <3> QED
      BY <3>1, OneMessage, TwoMessages DEF HeadIs, LatencyProbeReport, Envelope
  <2>4. /\ p.at = h.at /\ h.seen \in 0..(Samples - 1) /\ p.seen = h.seen
        /\ th = <<ClockPing(h.seen + 1)>> /\ tp = <<>>
    BY <1>1, <2>1, <2>2, <2>3 DEF Pinging
  <2>5. Tail(th) = <<>> /\ tp \o <<ClockPong(h.seen + 1)>> = <<ClockPong(h.seen + 1)>>
    BY <2>4, OneMessage
  <2>6. g.seen \in 1..Samples /\ p.seen = g.seen - 1
    BY <1>1, <2>4, ConstantsAssumption
  <2>7. Pinging(g, p, Tail(th), tp \o <<ClockPong(h.seen + 1)>>)
    BY <1>1, <2>4, <2>5, <2>6 DEF Pinging
  <2> QED
    BY <2>1, <2>7 DEF Script
<1>2. ASSUME h.at = "latency1", HeadIs(th, "LatencyProbeReport"), th # <<>>, g.at = "probing"
      PROVE  Script(g, p, Tail(th), tp \o <<BandwidthProbeStart>>)
  <2>1. /\ h.chosen = p.chosen
        /\ Pinging(h, p, th, tp) \/ Probing(h, p, th, tp) \/ Opening(h, p, th, tp)
    BY <1>2, HostPart DEF LatencyPlaces
  <2>2. ~Pinging(h, p, th, tp)
    <3>1. SUFFICES ASSUME th = <<ClockPing(h.seen + 1)>>
                   PROVE  ~HeadIs(th, "LatencyProbeReport")
      BY <1>2 DEF Pinging
    <3> QED
      BY <3>1, OneMessage DEF HeadIs, ClockPing
  <2>3. p.at = "probeStart" /\ th = <<LatencyProbeReport>> /\ tp = <<>>
    BY <1>2, <2>1, <2>2 DEF Probing, Opening
  <2>4. Tail(th) = <<>> /\ tp \o <<BandwidthProbeStart>> = <<BandwidthProbeStart>>
    BY <2>3, OneMessage
  <2>5. Probing(g, p, Tail(th), tp \o <<BandwidthProbeStart>>)
    BY <1>2, <2>3, <2>4 DEF Probing
  <2> QED
    BY <2>1, <2>5 DEF Script
<1>3. ASSUME h.at = "probing", g.at = "report", NEW sent
      PROVE  Script(g, p, th, tp \o <<BandwidthProbeFinish(sent)>>)
  <2>1. h.chosen = p.chosen /\ Probing(h, p, th, tp)
    BY <1>3, HostPart
  <2>2. \/ p.at = "probeStart" /\ th = <<>> /\ tp = <<BandwidthProbeStart>>
        \/ p.at = "probing" /\ th = <<>> /\ tp = <<>>
    BY <1>3, <2>1 DEF Probing
  <2>3. CASE p.at = "probeStart" /\ th = <<>> /\ tp = <<BandwidthProbeStart>>
    <3>1. tp \o <<BandwidthProbeFinish(sent)>> = <<BandwidthProbeStart, BandwidthProbeFinish(sent)>>
      BY <2>3, TwoMessages
    <3> QED
      BY <1>3, <2>1, <2>3, <3>1 DEF Probing, Script
  <2>4. CASE p.at = "probing" /\ th = <<>> /\ tp = <<>>
    <3>1. tp \o <<BandwidthProbeFinish(sent)>> = <<BandwidthProbeFinish(sent)>>
      BY <2>4, OneMessage
    <3> QED
      BY <1>3, <2>1, <2>4, <3>1 DEF Probing, Script
  <2> QED
    BY <2>2, <2>3, <2>4
<1>4. ASSUME h.at = "report", th # <<>>, g.at = "latency2", g.seen = 0
      PROVE  Script(g, p, Tail(th), tp \o <<>>)
  <2>1. h.chosen = p.chosen /\ Probing(h, p, th, tp)
    BY <1>4, HostPart
  <2>2. /\ p.at = "latency2" /\ p.seen = 0 /\ tp = <<>>
        /\ \E received : th = <<BandwidthProbeReport(received), ClockPing(1)>>
    BY <1>4, <2>1 DEF Probing
  <2>3. Tail(th) = <<ClockPing(1)>> /\ tp \o <<>> = <<>>
    BY <2>2, OneMessage, TwoMessages
  <2>4. g.seen \in 0..(Samples - 1) /\ g.seen + 1 = 1
    BY <1>4, ConstantsAssumption
  <2>5. Pinging(g, p, Tail(th), tp \o <<>>)
    BY <1>4, <2>2, <2>3, <2>4 DEF Pinging, LatencyPlaces
  <2> QED
    BY <2>1, <2>5 DEF Script
<1> QED
  BY <1>1, <1>2, <1>3, <1>4

LEMMA PlayerPingTurns ==
  ASSUME NEW h, NEW p, NEW q, NEW th, NEW tp, Script(h, p, th, tp), tp # <<>>,
         p.at \in LatencyPlaces, q.chosen = p.chosen
  PROVE  /\ p.seen + 1 # Samples /\ q.at = p.at /\ q.seen = p.seen + 1 =>
              Script(h, q, th \o <<ClockPing(p.seen + 2)>>, Tail(tp))
         /\ p.seen + 1 = Samples /\ p.at = "latency1" /\ q.at = "probeStart" =>
              Script(h, q, th \o <<LatencyProbeReport>>, Tail(tp))
         /\ p.seen + 1 = Samples /\ p.at = "latency2" /\ q.at = PlayerReady(p) =>
              /\ ~p.chosen.input => Script(h, q, th \o <<LatencyProbeReport>>, Tail(tp))
              /\ p.chosen.input => Script(h, q, th \o <<LatencyProbeReport, InputStream>>, Tail(tp))
<1>1. h.chosen = p.chosen /\ (Pinging(h, p, th, tp) \/ Probing(h, p, th, tp))
  BY PlayerPart
<1>2. /\ h.at = p.at /\ h.seen \in 1..Samples /\ p.seen = h.seen - 1
      /\ th = <<>> /\ tp = <<ClockPong(h.seen)>>
  BY <1>1 DEF Pinging, Probing, LatencyPlaces
<1>3. Tail(tp) = <<>> /\ \A m : th \o <<m>> = <<m>>
  BY <1>2, OneMessage
<1>4. h.chosen = q.chosen
  BY <1>1
<1>5. Samples \in Nat \ {0} /\ h.seen \in Int /\ p.seen \in Int /\ p.seen + 1 = h.seen
  BY <1>2, ConstantsAssumption
<1>6. ASSUME p.seen + 1 # Samples, q.at = p.at, q.seen = p.seen + 1
      PROVE  Script(h, q, th \o <<ClockPing(p.seen + 2)>>, Tail(tp))
  <2>1. p.seen + 2 = h.seen + 1 /\ h.seen \in 0..(Samples - 1) /\ q.seen = h.seen
    BY <1>2, <1>5, <1>6
  <2>2. th \o <<ClockPing(p.seen + 2)>> = <<ClockPing(h.seen + 1)>>
    BY <1>3, <2>1
  <2>3. Pinging(h, q, th \o <<ClockPing(p.seen + 2)>>, Tail(tp))
    BY <1>2, <1>3, <1>6, <2>1, <2>2 DEF Pinging
  <2> QED
    BY <1>4, <2>3 DEF Script
<1>7. ASSUME p.seen + 1 = Samples, p.at = "latency1", q.at = "probeStart"
      PROVE  Script(h, q, th \o <<LatencyProbeReport>>, Tail(tp))
  <2>1. h.seen = Samples /\ h.at = "latency1"
    BY <1>2, <1>5, <1>7
  <2>2. Probing(h, q, th \o <<LatencyProbeReport>>, Tail(tp))
    BY <1>3, <1>7, <2>1 DEF Probing
  <2> QED
    BY <1>4, <2>2 DEF Script
<1>8. ASSUME p.seen + 1 = Samples, p.at = "latency2", q.at = PlayerReady(p)
      PROVE  /\ ~p.chosen.input => Script(h, q, th \o <<LatencyProbeReport>>, Tail(tp))
             /\ p.chosen.input => Script(h, q, th \o <<LatencyProbeReport, InputStream>>, Tail(tp))
  <2>1. h.seen = Samples /\ h.at = "latency2"
    BY <1>2, <1>5, <1>8
  <2>2. q.at = PlayerReady(q)
    BY <1>8 DEF PlayerReady
  <2>3. th \o <<LatencyProbeReport, InputStream>> = <<LatencyProbeReport, InputStream>>
    BY <1>2, TwoMessages
  <2>4. ASSUME ~p.chosen.input
        PROVE  Opening(h, q, th \o <<LatencyProbeReport>>, Tail(tp))
    BY <1>3, <2>1, <2>2, <2>4 DEF Opening
  <2>5. ASSUME p.chosen.input
        PROVE  Opening(h, q, th \o <<LatencyProbeReport, InputStream>>, Tail(tp))
    BY <1>3, <2>1, <2>2, <2>3, <2>5 DEF Opening
  <2> QED
    BY <1>4, <2>4, <2>5 DEF Script
<1> QED
  BY <1>6, <1>7, <1>8

LEMMA PlayerProbeTurns ==
  ASSUME NEW h, NEW p, NEW q, NEW th, NEW tp, Script(h, p, th, tp), q.chosen = p.chosen
  PROVE  /\ p.at = "probeStart" /\ tp # <<>> /\ q.at = "probing" =>
              Script(h, q, th \o <<>>, Tail(tp))
         /\ p.at = "probing" /\ tp # <<>> /\ q.at = "grace" => Script(h, q, th \o <<>>, Tail(tp))
         /\ p.at \in {"probing", "grace"} /\ q.at = p.at => Script(h, q, th, tp)
         /\ p.at = "grace" /\ q.at = "latency2" /\ q.seen = 0 =>
              \A received : Script(h, q, th \o <<BandwidthProbeReport(received), ClockPing(1)>>, tp)
<1>1. p.at \in {"probeStart", "probing", "grace"} => h.chosen = q.chosen /\ Probing(h, p, th, tp)
  BY PlayerPart
<1>2. ASSUME p.at = "probeStart", tp # <<>>, q.at = "probing"
      PROVE  Script(h, q, th \o <<>>, Tail(tp))
  <2>1. /\ th = <<>>
        /\ \/ h.at = "probing" /\ tp = <<BandwidthProbeStart>>
           \/ h.at = "report" /\ \E sent : tp = <<BandwidthProbeStart, BandwidthProbeFinish(sent)>>
    BY <1>1, <1>2 DEF Probing
  <2>2. th \o <<>> = <<>>
    BY <2>1, OneMessage
  <2>3. CASE h.at = "probing" /\ tp = <<BandwidthProbeStart>>
    <3>1. Tail(tp) = <<>>
      BY <2>3, OneMessage
    <3> QED
      BY <1>1, <1>2, <2>2, <2>3, <3>1 DEF Probing, Script
  <2>4. CASE h.at = "report" /\ \E sent : tp = <<BandwidthProbeStart, BandwidthProbeFinish(sent)>>
    <3>1. PICK sent : tp = <<BandwidthProbeStart, BandwidthProbeFinish(sent)>>
      BY <2>4
    <3>2. Tail(tp) = <<BandwidthProbeFinish(sent)>>
      BY <3>1, TwoMessages
    <3> QED
      BY <1>1, <1>2, <2>2, <2>4, <3>2 DEF Probing, Script
  <2> QED
    BY <2>1, <2>3, <2>4
<1>3. ASSUME p.at = "probing", tp # <<>>, q.at = "grace"
      PROVE  Script(h, q, th \o <<>>, Tail(tp))
  <2>1. th = <<>> /\ h.at = "report" /\ \E sent : tp = <<BandwidthProbeFinish(sent)>>
    BY <1>1, <1>3 DEF Probing
  <2>2. th \o <<>> = <<>> /\ Tail(tp) = <<>>
    BY <2>1, OneMessage
  <2> QED
    BY <1>1, <1>3, <2>1, <2>2 DEF Probing, Script
<1>4. ASSUME p.at \in {"probing", "grace"}, q.at = p.at
      PROVE  Script(h, q, th, tp)
  BY <1>1, <1>4 DEF Probing, Script
<1>5. ASSUME p.at = "grace", q.at = "latency2", q.seen = 0, NEW received
      PROVE  Script(h, q, th \o <<BandwidthProbeReport(received), ClockPing(1)>>, tp)
  <2>1. h.at = "report" /\ th = <<>> /\ tp = <<>>
    BY <1>1, <1>5 DEF Probing
  <2>2. th \o <<BandwidthProbeReport(received), ClockPing(1)>>
          = <<BandwidthProbeReport(received), ClockPing(1)>>
    BY <2>1, TwoMessages
  <2> QED
    BY <1>1, <1>5, <2>1, <2>2 DEF Probing, Script
<1> QED
  BY <1>2, <1>3, <1>4, <1>5

(* The second report: what follows is what both have chosen.               *)
LEMMA OpeningTurns ==
  ASSUME NEW h, NEW g, NEW p, NEW th, NEW tp, Script(h, p, th, tp), g.chosen = h.chosen
  PROVE  /\ /\ h.at = "latency2" /\ HeadIs(th, "LatencyProbeReport") /\ th # <<>>
            /\ g.at = (IF h.chosen.input THEN "input" ELSE "streaming")
            => Script(g, p, Tail(th), tp \o (IF h.chosen.full /\ ~h.chosen.input
                                             THEN <<DiagnosticStream>> ELSE <<>>))
         /\ h.at = "input" /\ g.at = "streaming" =>
              Script(g, p, Tail(th), tp \o (IF h.chosen.full THEN <<DiagnosticStream>> ELSE <<>>))
         /\ h.at = "streaming" /\ g.at = "ending" => Script(g, p, th, tp)
<1>1. ASSUME h.at = "latency2", HeadIs(th, "LatencyProbeReport"), th # <<>>,
             g.at = (IF h.chosen.input THEN "input" ELSE "streaming")
      PROVE  Script(g, p, Tail(th), tp \o (IF h.chosen.full /\ ~h.chosen.input
                                           THEN <<DiagnosticStream>> ELSE <<>>))
  <2>1. /\ h.chosen = p.chosen
        /\ Pinging(h, p, th, tp) \/ Probing(h, p, th, tp) \/ Opening(h, p, th, tp)
    BY <1>1, HostPart DEF LatencyPlaces
  <2>2. ~Pinging(h, p, th, tp)
    <3>1. SUFFICES ASSUME th = <<ClockPing(h.seen + 1)>>
                   PROVE  ~HeadIs(th, "LatencyProbeReport")
      BY <1>1 DEF Pinging
    <3> QED
      BY <3>1, OneMessage DEF HeadIs, ClockPing
  <2>3. /\ p.at = PlayerReady(p) /\ tp = <<>>
        /\ th = IF p.chosen.input THEN <<LatencyProbeReport, InputStream>> ELSE <<LatencyProbeReport>>
    BY <1>1, <2>1, <2>2 DEF Probing, Opening
  <2>4. tp \o <<>> = <<>> /\ tp \o <<DiagnosticStream>> = <<DiagnosticStream>>
    BY <2>3, OneMessage
  <2>5. CASE h.chosen.input
    <3>1. Tail(th) = <<InputStream>> /\ g.at = "input" /\ p.chosen.input
      BY <1>1, <2>1, <2>3, <2>5, TwoMessages
    <3>2. Opening(g, p, Tail(th), <<>>)
      BY <2>3, <3>1 DEF Opening
    <3> QED
      BY <2>1, <2>4, <2>5, <3>2 DEF Script
  <2>6. CASE ~h.chosen.input
    <3>1. Tail(th) = <<>> /\ g.at = "streaming"
      BY <1>1, <2>1, <2>3, <2>6, OneMessage
    <3>2. CASE h.chosen.full
      <4>1. Opening(g, p, Tail(th), <<DiagnosticStream>>)
        BY <2>1, <2>3, <3>1, <3>2 DEF Opening, PlayerReady
      <4> QED
        BY <2>1, <2>4, <2>6, <3>2, <4>1 DEF Script
    <3>3. CASE ~h.chosen.full
      <4>1. Opening(g, p, Tail(th), <<>>)
        BY <2>1, <2>3, <3>1, <3>3 DEF Opening, PlayerReady
      <4> QED
        BY <2>1, <2>4, <2>6, <3>3, <4>1 DEF Script
    <3> QED
      BY <3>2, <3>3
  <2> QED
    BY <2>5, <2>6
<1>2. ASSUME h.at = "input", g.at = "streaming"
      PROVE  Script(g, p, Tail(th), tp \o (IF h.chosen.full THEN <<DiagnosticStream>> ELSE <<>>))
  <2>1. h.chosen = p.chosen /\ Opening(h, p, th, tp)
    BY <1>2, HostPart
  <2>2. p.at = PlayerReady(p) /\ tp = <<>> /\ th = <<InputStream>>
    BY <1>2, <2>1 DEF Opening
  <2>3. Tail(th) = <<>> /\ tp \o <<>> = <<>> /\ tp \o <<DiagnosticStream>> = <<DiagnosticStream>>
    BY <2>2, OneMessage
  <2>4. CASE h.chosen.full
    <3>1. Opening(g, p, Tail(th), <<DiagnosticStream>>)
      BY <1>2, <2>1, <2>2, <2>3, <2>4 DEF Opening, PlayerReady
    <3> QED
      BY <2>1, <2>3, <2>4, <3>1 DEF Script
  <2>5. CASE ~h.chosen.full
    <3>1. Opening(g, p, Tail(th), <<>>)
      BY <1>2, <2>1, <2>2, <2>3, <2>5 DEF Opening, PlayerReady
    <3> QED
      BY <2>1, <2>3, <2>5, <3>1 DEF Script
  <2> QED
    BY <2>4, <2>5
<1>3. ASSUME h.at = "streaming", g.at = "ending"
      PROVE  Script(g, p, th, tp)
  <2>1. h.chosen = p.chosen /\ Opening(h, p, th, tp)
    BY <1>3, HostPart
  <2>2. Opening(g, p, th, tp)
    BY <1>3, <2>1 DEF Opening
  <2> QED
    BY <2>1, <2>2 DEF Script
<1> QED
  BY <1>1, <1>2, <1>3

LEMMA PlayerOpens ==
  ASSUME NEW h, NEW p, NEW q, NEW th, NEW tp, Script(h, p, th, tp), tp # <<>>,
         p.at = "diagnostics", Moved(p, q, "streaming")
  PROVE  Script(h, q, th \o <<>>, Tail(tp))
<1>1. h.chosen = p.chosen /\ Opening(h, p, th, tp)
  BY PlayerPart
<1>2. h.at \in {"streaming", "ending"} /\ th = <<>> /\ tp = <<DiagnosticStream>>
  BY <1>1 DEF Opening
<1>3. Tail(tp) = <<>> /\ th \o <<>> = <<>>
  BY <1>2, OneMessage
<1>4. Opening(h, q, th \o <<>>, Tail(tp)) /\ h.chosen = q.chosen
  BY <1>1, <1>2, <1>3 DEF Opening, Moved
<1> QED
  BY <1>4 DEF Script

-------------------------------------------------------------------------------
(* One lemma per group of steps of the host.                               *)

LEMMA TaskMoves ==
  ASSUME SlotInv, NEW c \in Connections, NEW place
  PROVE  Moved(host[c], [host[c] EXCEPT !.at = place], place)
<1>1. DOMAIN host[c] = TaskFields
  BY DEF SlotInv, Tasks, Task
<1> QED
  BY <1>1 DEF TaskFields, Moved

(* A task that moves, reads what is on its way first and writes.           *)
LEMMA HostMoves ==
  ASSUME SlotInv, StepInv, NEW c \in Connections, UNCHANGED <<player, open>>,
         NEW place, HostAt(c, place), NEW sent, HostAnswers(c, sent),
         open[c] => \A g : Moved(host[c], g, place)
                             => Script(g, player[c], Tail(toHost[c]), toPlayer[c] \o sent)
  PROVE  StepInv'
<1> DEFINE t == [host[c] EXCEPT !.at = place]
           rest == Tail(toHost[c])
<1>1. DOMAIN host = Connections /\ Moved(host[c], t, place)
  BY TaskMoves DEF SlotInv, Tasks
<1>2. host' = [host EXCEPT ![c] = t]
  BY DEF HostAt
<1>3. toHost' = [toHost EXCEPT ![c] = rest] /\ HostWrites(c, sent)
  BY DEF HostAnswers
<1>4. open[c] => Script(t, player[c], rest, toPlayer[c] \o sent)
  BY <1>1
<1> HIDE DEF t, rest
<1> QED
  BY <1>1, <1>2, <1>3, <1>4, HostTurn

LEMMA HostMovesAlone ==
  ASSUME SlotInv, StepInv, NEW c \in Connections, UNCHANGED <<player, open, toHost, toPlayer>>,
         NEW place, HostAt(c, place),
         open[c] => \A g : Moved(host[c], g, place) => Script(g, player[c], toHost[c], toPlayer[c])
  PROVE  StepInv'
<1> DEFINE t == [host[c] EXCEPT !.at = place]
<1>1. DOMAIN host = Connections /\ Moved(host[c], t, place)
  BY TaskMoves DEF SlotInv, Tasks
<1>2. host' = [host EXCEPT ![c] = t]
  BY DEF HostAt
<1> HIDE DEF t
<1>3. host'[c] = t /\ \A d \in Connections \ {c} : host'[d] = host[d]
  BY <1>1, <1>2
<1> QED
  BY <1>1, <1>3, OneSide DEF StepInv

LEMMA ReturnInStep ==
  ASSUME SlotInv, StepInv, NEW c \in Connections, TaskReturns(c), UNCHANGED player
  PROVE  StepInv'
BY ClosedByHost DEF TaskReturns, SlotInv, Tasks

LEMMA HostAuthenticationInStep ==
  ASSUME SlotInv, StepInv, NEW c \in Connections,
         \/ DelayEnds(c) \/ HostIdentifies(c) \/ HostChallenges(c) \/ HostAuthenticates(c)
         \/ HostRefuses(c)
  PROVE  StepInv'
<1> USE DEF HostReads
<1>1. open[c] => Script(host[c], player[c], toHost[c], toPlayer[c])
  BY DEF StepInv
<1>2. CASE DelayEnds(c)
  <2>1. /\ host[c].at = "delayed" /\ HostAt(c, "identity")
        /\ UNCHANGED <<player, open, toHost, toPlayer>>
    BY <1>2 DEF DelayEnds, linkVars
  <2> QED
    BY <1>1, <2>1, HostAuthenticationTurns, HostMovesAlone
<1>3. CASE HostIdentifies(c)
  <2>1. /\ host[c].at = "identity" /\ HostAt(c, "credential") /\ UNCHANGED <<player, open>>
        /\ HostAnswers(c, <<HostIdentityOffer>>)
    BY <1>3 DEF HostIdentifies
  <2> QED
    BY <1>1, <2>1, HostAuthenticationTurns, HostMoves
<1>4. CASE HostChallenges(c)
  <2>1. /\ host[c].at = "credential" /\ HostAt(c, "finalization") /\ UNCHANGED <<player, open>>
        /\ HostAnswers(c, <<OpaqueCredentialResponse>>) /\ toHost[c] # <<>>
    BY <1>4 DEF HostChallenges
  <2> QED
    BY <1>1, <2>1, HostAuthenticationTurns, HostMoves
<1>5. CASE HostAuthenticates(c)
  <2>1. /\ host[c].at = "finalization" /\ toHost[c] # <<>> /\ UNCHANGED <<player, open>>
        /\ \/ HostAt(c, "request") /\ HostAnswers(c, <<AuthenticationResult(TRUE)>>)
           \/ HostAt(c, "refusing") /\ HostAnswers(c, <<>>)
    BY <1>5 DEF HostAuthenticates
  <2> QED
    BY <1>1, <2>1, HostAuthenticationTurns, HostMoves
<1>6. CASE HostRefuses(c)
  BY <1>6, ClosedByHost DEF HostRefuses, SlotInv, Tasks
<1> QED
  BY <1>2, <1>3, <1>4, <1>5, <1>6

LEMMA HostAnswersInStep ==
  ASSUME SlotInv, StepInv, NEW c \in Connections,
         HostInforms(c) \/ HostInformed(c) \/ HostTakesOffer(c)
  PROVE  StepInv'
<1>1. open[c] => Script(host[c], player[c], toHost[c], toPlayer[c])
  BY DEF StepInv
<1>2. CASE HostInforms(c)
  <2>1. CASE HostReads(c, "SessionAvailabilityProbe")
             /\ HostAnswers(c, <<SessionAvailabilityResult(active)>>)
    <3>1. active \in BOOLEAN
      BY DEF SlotInv
    <3>2. /\ host[c].at = "request" /\ HostAt(c, "stopped") /\ UNCHANGED <<player, open>>
          /\ toHost[c] # <<>> /\ HeadIs(toHost[c], "SessionAvailabilityProbe")
      BY <1>2, <2>1 DEF HostInforms, HostReads, HeadIs
    <3> QED
      BY <1>1, <2>1, <3>1, <3>2, HostAnswerTurns, HostMoves
  <2>2. CASE HostReads(c, "DisplayCatalogRequest") /\ HostAnswers(c, <<DisplayCatalog>>)
    <3>1. /\ host[c].at = "request" /\ HostAt(c, "stopped") /\ UNCHANGED <<player, open>>
          /\ toHost[c] # <<>> /\ HeadIs(toHost[c], "DisplayCatalogRequest")
      BY <1>2, <2>2 DEF HostInforms, HostReads, HeadIs
    <3> QED
      BY <1>1, <2>2, <3>1, HostAnswerTurns, HostMoves
  <2> QED
    BY <1>2, <2>1, <2>2 DEF HostInforms
<1>3. CASE HostInformed(c)
  BY <1>3, ReturnInStep DEF HostInformed
<1>4. CASE HostTakesOffer(c)
  <2>1. CASE TaskReturns(c)
    BY <1>4, <2>1, ReturnInStep DEF HostTakesOffer
  <2>2. CASE ~TaskReturns(c)
    <3> DEFINE offer == Head(toHost[c]).offer
               place == IF offer.pointer THEN "controls" ELSE "worker"
               t == [host[c] EXCEPT !.at = place, !.offer = offer, !.guard = TRUE]
               rest == Tail(toHost[c])
    <3>1. /\ host[c].at = "request" /\ toHost[c] # <<>> /\ HeadIs(toHost[c], "Av1CapabilityOffer")
          /\ UNCHANGED <<player, open>>
          /\ host' = [host EXCEPT ![c].at = place, ![c].offer = offer, ![c].guard = TRUE]
          /\ HostAnswers(c, <<>>)
      BY <1>4, <2>2 DEF HostTakesOffer, HostReads, HeadIs
    <3>2. toHost' = [toHost EXCEPT ![c] = rest] /\ HostWrites(c, <<>>)
      BY <3>1 DEF HostAnswers
    <3>3. DOMAIN host = Connections /\ DOMAIN host[c] = TaskFields
      BY DEF SlotInv, Tasks, Task
    <3>4. place \in {"controls", "worker"}
      OBVIOUS
    <3> HIDE DEF offer, place
    <3>5. t.at = place /\ t.seen = host[c].seen
      BY <3>3 DEF TaskFields
    <3>6. host' = [host EXCEPT ![c] = t]
      BY <3>1, <3>3
    <3> HIDE DEF t
    <3>7. open[c] => Script(t, player[c], rest, toPlayer[c] \o <<>>)
      BY <1>1, <3>1, <3>4, <3>5, HostAnswerTurns
    <3> HIDE DEF rest
    <3> QED
      BY <3>1, <3>2, <3>3, <3>6, <3>7, HostTurn
  <2> QED
    BY <2>1, <2>2
<1> QED
  BY <1>2, <1>3, <1>4

LEMMA HostChoiceInStep ==
  ASSUME SlotInv, StepInv, NEW c \in Connections,
         HostLaunchesControls(c) \/ HostPreparesWorker(c) \/ HostConfirms(c)
  PROVE  StepInv'
<1>1. open[c] => Script(host[c], player[c], toHost[c], toPlayer[c])
  BY DEF StepInv
<1>2. DOMAIN host = Connections /\ DOMAIN host[c] = TaskFields
  BY DEF SlotInv, Tasks, Task
<1>3. UNCHANGED player
  BY DEF HostLaunchesControls, HostPreparesWorker, HostConfirms
<1>4. CASE TaskReturns(c)
  BY <1>3, <1>4, ReturnInStep
<1>5. CASE HostLaunchesControls(c) /\ ~TaskReturns(c)
  <2>1. PICK launched \in BOOLEAN :
          host' = [host EXCEPT ![c].at = "worker", ![c].offer.pointer = launched]
    BY <1>5 DEF HostLaunchesControls
  <2>2. host[c].at = "controls" /\ UNCHANGED <<open, toHost, toPlayer>>
    BY <1>5 DEF HostLaunchesControls, linkVars
  <2>3. /\ \A d \in Connections \ {c} : host'[d] = host[d]
        /\ host'[c].at = "worker" /\ host'[c].seen = host[c].seen
    BY <1>2, <2>1 DEF TaskFields
  <2>4. open[c] => Script(host'[c], player[c], toHost[c], toPlayer[c])
    BY <1>1, <2>2, <2>3, HostChoiceTurns
  <2>5. /\ DOMAIN player' = Connections /\ DOMAIN player'[c] = PlayerFields
        /\ player'[c] = player[c]
    BY <1>3 DEF StepInv
  <2> QED
    BY <1>3, <2>2, <2>3, <2>4, <2>5, OneSide
<1>6. CASE HostPreparesWorker(c) /\ ~TaskReturns(c)
  <2>1. PICK desktop \in Displays :
          LET offer == host[c].offer
              depth == Negotiated({desktop}, offer.decoders, offer.size, offer.prefs)
              answer == AnswerTo(offer, desktop, offer.pointer)
          IN  /\ host' = [host EXCEPT ![c].at = "selection", ![c].offer = None,
                                      ![c].chosen = HostSelection(offer, answer, depth)]
              /\ HostWrites(c, <<HostOffer(answer)>>)
              /\ UNCHANGED <<open, toHost>>
    BY <1>6 DEF HostPreparesWorker
  <2>2. PICK answer, chosen :
          /\ host' = [host EXCEPT ![c].at = "selection", ![c].offer = None, ![c].chosen = chosen]
          /\ HostWrites(c, <<HostOffer(answer)>>)
    BY <2>1
  <2> DEFINE t == [host[c] EXCEPT !.at = "selection", !.offer = None, !.chosen = chosen]
  <2>3. host[c].at = "worker" /\ UNCHANGED <<open, toHost>>
    BY <1>6, <2>1 DEF HostPreparesWorker
  <2>4. t.at = "selection" /\ t.seen = host[c].seen
    BY <1>2 DEF TaskFields
  <2>5. \A d \in Connections : host'[d] = IF d = c THEN t ELSE host[d]
    BY <1>2, <2>2
  <2> HIDE DEF t
  <2>6. open[c] => Script(t, player[c], toHost[c], toPlayer[c] \o <<HostOffer(answer)>>)
    BY <1>1, <2>3, <2>4, HostChoiceTurns
  <2> QED
    BY <1>2, <1>3, <2>2, <2>3, <2>5, <2>6, HostSays
<1>7. CASE HostConfirms(c) /\ ~TaskReturns(c)
  <2>1. /\ host[c].at = "selection" /\ toHost[c] # <<>> /\ Head(toHost[c]).chosen = host[c].chosen
        /\ HostAt(c, "latency1") /\ UNCHANGED <<player, open>>
        /\ HostAnswers(c, <<SelectedAv1Configuration(host[c].chosen)>>)
    BY <1>7 DEF HostConfirms, HostReads
  <2> QED
    BY <1>1, <2>1, HostChoiceTurns, HostMoves
<1> QED
  BY <1>4, <1>5, <1>6, <1>7

(* A task that goes on to another measurement.                             *)
HostResets(c, place) == host' = [host EXCEPT ![c].at = place, ![c].seen = 0]
Reset(h, g, place) == g.at = place /\ g.seen = 0 /\ g.chosen = h.chosen

LEMMA HostMovesOn ==
  ASSUME SlotInv, StepInv, NEW c \in Connections, UNCHANGED <<player, open>>,
         NEW place, HostResets(c, place), NEW sent, HostAnswers(c, sent),
         open[c] => \A g : Reset(host[c], g, place)
                             => Script(g, player[c], Tail(toHost[c]), toPlayer[c] \o sent)
  PROVE  StepInv'
<1> DEFINE t == [host[c] EXCEPT !.at = place, !.seen = 0]
           rest == Tail(toHost[c])
<1>1. DOMAIN host = Connections /\ DOMAIN host[c] = TaskFields
  BY DEF SlotInv, Tasks, Task
<1>2. Reset(host[c], t, place)
  BY <1>1 DEF TaskFields, Reset
<1>3. host' = [host EXCEPT ![c] = t]
  BY <1>1 DEF HostResets
<1>4. toHost' = [toHost EXCEPT ![c] = rest] /\ HostWrites(c, sent)
  BY DEF HostAnswers
<1> HIDE DEF t
<1>5. open[c] => Script(t, player[c], rest, toPlayer[c] \o sent)
  BY <1>2
<1> HIDE DEF rest
<1> QED
  BY <1>1, <1>3, <1>4, <1>5, HostTurn

LEMMA HostProbesInStep ==
  ASSUME SlotInv, StepInv, NEW c \in Connections,
         HostPongs(c) \/ HostMeasured(c) \/ HostProbes(c) \/ HostTakesReport(c)
  PROVE  StepInv'
<1>1. open[c] => Script(host[c], player[c], toHost[c], toPlayer[c])
  BY DEF StepInv
<1>2. DOMAIN host = Connections /\ DOMAIN host[c] = TaskFields
  BY DEF SlotInv, Tasks, Task
<1>5. CASE HostPongs(c)
  <2> DEFINE t == [host[c] EXCEPT !.seen = host[c].seen + 1]
             rest == Tail(toHost[c])
             sent == <<ClockPong(host[c].seen + 1)>>
  <2>1. /\ host[c].at \in LatencyPlaces /\ toHost[c] # <<>> /\ HeadIs(toHost[c], "ClockPing")
        /\ UNCHANGED <<player, open>> /\ HostAnswers(c, sent)
        /\ host' = [host EXCEPT ![c] = t]
    BY <1>5, <1>2 DEF HostPongs, HostReads, HeadIs
  <2>2. t.at = host[c].at /\ t.seen = host[c].seen + 1 /\ t.chosen = host[c].chosen
    BY <1>2 DEF TaskFields
  <2>3. toHost' = [toHost EXCEPT ![c] = rest] /\ HostWrites(c, sent)
    BY <2>1 DEF HostAnswers
  <2> HIDE DEF t
  <2>4. open[c] => Script(t, player[c], rest, toPlayer[c] \o sent)
    BY <1>1, <2>1, <2>2, HostProbeTurns
  <2> HIDE DEF rest, sent
  <2> QED
    BY <1>2, <2>1, <2>3, <2>4, HostTurn
<1>6. CASE HostMeasured(c)
  <2>0. /\ toHost[c] # <<>> /\ HeadIs(toHost[c], "LatencyProbeReport") /\ UNCHANGED <<player, open>>
    BY <1>6 DEF HostMeasured, HostReads, HeadIs
  <2>1. CASE host[c].at = "latency1"
    <3>1. HostResets(c, "probing") /\ HostAnswers(c, <<BandwidthProbeStart>>)
      BY <1>6, <2>1 DEF HostMeasured, HostResets
    <3>2. open[c] => \A g : Reset(host[c], g, "probing")
            => Script(g, player[c], Tail(toHost[c]), toPlayer[c] \o <<BandwidthProbeStart>>)
      BY <1>1, <2>0, <2>1, HostProbeTurns DEF Reset
    <3> QED
      BY <2>0, <3>1, <3>2, HostMovesOn
  <2>2. CASE host[c].at = "latency2"
    <3> DEFINE place == IF host[c].chosen.input THEN "input" ELSE "streaming"
               sent == IF host[c].chosen.full /\ ~host[c].chosen.input
                       THEN <<DiagnosticStream>> ELSE <<>>
    <3>1. HostResets(c, place) /\ HostAnswers(c, sent)
      BY <1>6, <2>2 DEF HostMeasured, HostResets
    <3>2. open[c] => \A g : Reset(host[c], g, place)
            => Script(g, player[c], Tail(toHost[c]), toPlayer[c] \o sent)
      BY <1>1, <2>0, <2>2, OpeningTurns DEF Reset
    <3> HIDE DEF place, sent
    <3> QED
      BY <2>0, <3>1, <3>2, HostMovesOn
  <2> QED
    BY <1>6, <2>1, <2>2 DEF HostMeasured
<1>7. CASE HostProbes(c)
  <2>1. PICK sent \in SUBSET {1} :
          /\ HostWrites(c, <<BandwidthProbeFinish(Cardinality(sent))>>)
          /\ host' = [host EXCEPT ![c].at = "report", ![c].seen = Cardinality(sent)]
    BY <1>7 DEF HostProbes
  <2>2. PICK n : /\ HostWrites(c, <<BandwidthProbeFinish(n)>>)
                 /\ host' = [host EXCEPT ![c].at = "report", ![c].seen = n]
    BY <2>1
  <2>3. host[c].at = "probing" /\ UNCHANGED <<player, open, toHost>>
    BY <1>7 DEF HostProbes
  <2> DEFINE t == [host[c] EXCEPT !.at = "report", !.seen = n]
  <2>4. t.at = "report" /\ t.chosen = host[c].chosen
    BY <1>2 DEF TaskFields
  <2>5. \A d \in Connections : host'[d] = IF d = c THEN t ELSE host[d]
    BY <1>2, <2>2
  <2> HIDE DEF t
  <2>6. open[c] => Script(t, player[c], toHost[c], toPlayer[c] \o <<BandwidthProbeFinish(n)>>)
    BY <1>1, <2>3, <2>4, HostProbeTurns
  <2> QED
    BY <2>2, <2>3, <2>5, <2>6, HostSays
<1>8. CASE HostTakesReport(c)
  <2>1. CASE TaskReturns(c)
    BY <1>8, <2>1, ReturnInStep DEF HostTakesReport
  <2>2. CASE ~TaskReturns(c)
    <3>1. /\ host[c].at = "report" /\ toHost[c] # <<>> /\ UNCHANGED <<player, open>>
          /\ HostResets(c, "latency2") /\ HostAnswers(c, <<>>)
      BY <1>8, <2>2 DEF HostTakesReport, HostReads, HostResets
    <3>2. open[c] => \A g : Reset(host[c], g, "latency2")
            => Script(g, player[c], Tail(toHost[c]), toPlayer[c] \o <<>>)
      BY <1>1, <3>1, HostProbeTurns DEF Reset
    <3> QED
      BY <3>1, <3>2, HostMovesOn
  <2> QED
    BY <2>1, <2>2
<1> QED
  BY <1>5, <1>6, <1>7, <1>8

LEMMA HostStreamInStep ==
  ASSUME SlotInv, StepInv, NEW c \in Connections,
         \/ HostStreams(c) \/ HostEndsStream(c) \/ HostJoinsMedia(c) \/ HostSeesClosed(c)
         \/ HostTimesOut(c)
  PROVE  StepInv'
<1>1. open[c] => Script(host[c], player[c], toHost[c], toPlayer[c])
  BY DEF StepInv
<1>2. CASE HostStreams(c)
  <2> DEFINE sent == IF host[c].chosen.full THEN <<DiagnosticStream>> ELSE <<>>
  <2>1. /\ host[c].at = "input" /\ HostAt(c, "streaming") /\ UNCHANGED <<player, open>>
        /\ HostAnswers(c, sent)
    BY <1>2 DEF HostStreams
  <2>2. open[c] => \A g : Moved(host[c], g, "streaming")
                            => Script(g, player[c], Tail(toHost[c]), toPlayer[c] \o sent)
    BY <1>1, <2>1, OpeningTurns DEF Moved
  <2> HIDE DEF sent
  <2> QED
    BY <2>1, <2>2, HostMoves
<1>3. CASE HostEndsStream(c)
  <2>1. /\ host[c].at = "streaming" /\ HostAt(c, "ending")
        /\ UNCHANGED <<player, open, toHost, toPlayer>>
    BY <1>3 DEF HostEndsStream, linkVars
  <2> QED
    BY <1>1, <2>1, OpeningTurns, HostMovesAlone DEF Moved
<1>4. CASE HostJoinsMedia(c) \/ HostTimesOut(c)
  BY <1>4, ReturnInStep DEF HostJoinsMedia, HostTimesOut
<1>5. CASE HostSeesClosed(c)
  <2>1. CASE TaskReturns(c)
    BY <1>5, <2>1, ReturnInStep DEF HostSeesClosed
  <2>2. CASE ~TaskReturns(c)
    <3>1. /\ ~open[c] /\ HostAt(c, "ending") /\ UNCHANGED <<player, open, toHost, toPlayer>>
      BY <1>5, <2>2 DEF HostSeesClosed, HostNotices, linkVars
    <3> QED
      BY <3>1, HostMovesAlone
  <2> QED
    BY <2>1, <2>2
<1> QED
  BY <1>2, <1>3, <1>4, <1>5

-------------------------------------------------------------------------------
(* One lemma per group of steps of the player.                             *)

(* A player that becomes t, has read what was on its way first and writes. *)
LEMMA PlayerActs ==
  ASSUME SlotInv, StepInv, NEW c \in Connections, UNCHANGED <<hostVars, open>>,
         NEW t, player' = [player EXCEPT ![c] = t], DOMAIN t = PlayerFields, t.at # None,
         NEW sent, PlayerSends(c, sent),
         open[c] => Script(host[c], t, toHost[c] \o sent, Tail(toPlayer[c]))
  PROVE  StepInv'
<1> DEFINE rest == Tail(toPlayer[c])
<1>1. DOMAIN host = Connections /\ UNCHANGED <<host, open>>
  BY DEF SlotInv, Tasks, hostVars
<1>2. toPlayer' = [toPlayer EXCEPT ![c] = rest] /\ PlayerWrites(c, sent)
  BY DEF PlayerSends
<1>3. open[c] => Script(host[c], t, toHost[c] \o sent, rest)
  OBVIOUS
<1> HIDE DEF rest
<1> QED
  BY <1>1, <1>2, <1>3, PlayerTurn

LEMMA PlayerShape ==
  ASSUME StepInv, NEW c \in Connections, NEW place
  PROVE  LET t == [player[c] EXCEPT !.at = place]
         IN  DOMAIN t = PlayerFields /\ Moved(player[c], t, place)
<1>1. DOMAIN player[c] = PlayerFields
  BY DEF StepInv
<1> QED
  BY <1>1 DEF PlayerFields, Moved

LEMMA PlayerMoves ==
  ASSUME SlotInv, StepInv, NEW c \in Connections, UNCHANGED <<hostVars, open>>,
         NEW place, PlayerAt(c, place), place # None, NEW sent, PlayerSends(c, sent),
         open[c] => \A q : Moved(player[c], q, place)
                             => Script(host[c], q, toHost[c] \o sent, Tail(toPlayer[c]))
  PROVE  StepInv'
<1> DEFINE t == [player[c] EXCEPT !.at = place]
<1>1. DOMAIN t = PlayerFields /\ Moved(player[c], t, place)
  BY PlayerShape
<1>2. player' = [player EXCEPT ![c] = t]
  BY DEF PlayerAt
<1> HIDE DEF t
<1>3. t.at # None /\ (open[c] => Script(host[c], t, toHost[c] \o sent, Tail(toPlayer[c])))
  BY <1>1 DEF Moved
<1> QED
  BY <1>1, <1>2, <1>3, PlayerActs

LEMMA PlayerAsksInStep ==
  ASSUME SlotInv, StepInv, NEW c \in Connections,
         PlayerIdentifies(c) \/ PlayerProves(c) \/ PlayerRequests(c) \/ PlayerInformed(c)
  PROVE  StepInv'
<1>1. open[c] => Script(host[c], player[c], toHost[c], toPlayer[c])
  BY DEF StepInv
<1>2. CASE PlayerLeaves(c)
  BY <1>2, ClosedByPlayer
<1>3. CASE PlayerIdentifies(c) /\ ~PlayerLeaves(c)
  <2>1. /\ player[c].at = "identity" /\ PlayerAt(c, "credential") /\ toPlayer[c] # <<>>
        /\ PlayerSends(c, <<OpaqueCredentialRequest>>) /\ UNCHANGED <<hostVars, open>>
    BY <1>3 DEF PlayerIdentifies, PlayerReads
  <2> QED
    BY <1>1, <2>1, PlayerAuthenticationTurns, PlayerMoves DEF Moved, None
<1>4. CASE PlayerProves(c)
  <2>1. PICK right \in BOOLEAN : PlayerSends(c, <<OpaqueCredentialFinalization(right)>>)
    BY <1>4 DEF PlayerProves
  <2>2. /\ player[c].at = "credential" /\ PlayerAt(c, "result") /\ toPlayer[c] # <<>>
        /\ UNCHANGED <<hostVars, open>>
    BY <1>4 DEF PlayerProves, PlayerReads
  <2>3. open[c] => \A q : Moved(player[c], q, "result")
          => Script(host[c], q, toHost[c] \o <<OpaqueCredentialFinalization(right)>>, Tail(toPlayer[c]))
    BY <1>1, <2>2, PlayerAuthenticationTurns DEF Moved
  <2> QED
    BY <2>1, <2>2, <2>3, PlayerMoves DEF None
<1>5. CASE PlayerRequests(c) /\ ~PlayerLeaves(c)
  <2>0. /\ player[c].at = "result" /\ toPlayer[c] # <<>> /\ UNCHANGED <<hostVars, open>>
    BY <1>5 DEF PlayerRequests, PlayerReads
  <2>1. CASE /\ PlayerAt(c, "answer")
             /\ \/ PlayerSends(c, <<SessionAvailabilityProbe>>)
                \/ PlayerSends(c, <<DisplayCatalogRequest>>)
    <3>1. open[c] => \A q : Moved(player[c], q, "answer")
            => /\ Script(host[c], q, toHost[c] \o <<SessionAvailabilityProbe>>, Tail(toPlayer[c]))
               /\ Script(host[c], q, toHost[c] \o <<DisplayCatalogRequest>>, Tail(toPlayer[c]))
      BY <1>1, <2>0, PlayerAuthenticationTurns DEF Moved
    <3>2. CASE PlayerSends(c, <<SessionAvailabilityProbe>>)
      BY <2>0, <2>1, <3>1, <3>2, PlayerMoves DEF None
    <3>3. CASE PlayerSends(c, <<DisplayCatalogRequest>>)
      BY <2>0, <2>1, <3>1, <3>3, PlayerMoves DEF None
    <3> QED
      BY <2>1, <3>2, <3>3
  <2>2. CASE \E offer \in Offers :
               /\ player' = [player EXCEPT ![c].at = "hostOffer", ![c].offer = offer]
               /\ PlayerSends(c, <<ViewerOffer(offer)>>)
    <3>1. PICK offer \in Offers :
            /\ player' = [player EXCEPT ![c].at = "hostOffer", ![c].offer = offer]
            /\ PlayerSends(c, <<ViewerOffer(offer)>>)
      BY <2>2
    <3> DEFINE t == [player[c] EXCEPT !.at = "hostOffer", !.offer = offer]
    <3>2. DOMAIN player = Connections /\ DOMAIN player[c] = PlayerFields
      BY DEF StepInv
    <3>3. DOMAIN t = PlayerFields /\ t.at = "hostOffer"
      BY <3>2 DEF PlayerFields
    <3>4. player' = [player EXCEPT ![c] = t]
      BY <3>1, <3>2
    <3> HIDE DEF t
    <3>5. open[c] => Script(host[c], t, toHost[c] \o <<ViewerOffer(offer)>>, Tail(toPlayer[c]))
      BY <1>1, <2>0, <3>3, PlayerAuthenticationTurns
    <3> QED
      BY <2>0, <3>1, <3>3, <3>4, <3>5, PlayerActs DEF None
  <2> QED
    BY <1>5, <2>1, <2>2 DEF PlayerRequests
<1>6. CASE PlayerInformed(c)
  BY <1>6, ClosedByPlayer DEF PlayerInformed
<1> QED
  BY <1>2, <1>3, <1>4, <1>5, <1>6

LEMMA PlayerChoosesInStep ==
  ASSUME SlotInv, StepInv, NEW c \in Connections, PlayerSelects(c) \/ PlayerConfirms(c)
  PROVE  StepInv'
<1>1. open[c] => Script(host[c], player[c], toHost[c], toPlayer[c])
  BY DEF StepInv
<1>2. CASE PlayerLeaves(c)
  BY <1>2, ClosedByPlayer
<1>3. CASE PlayerSelects(c) /\ ~PlayerLeaves(c)
  <2> DEFINE chosen == PlayerSelection(player[c].offer, Head(toPlayer[c]).answer)
             t == [NoPlayer EXCEPT !.at = "hostSelection", !.chosen = chosen]
  <2>1. /\ player[c].at = "hostOffer" /\ toPlayer[c] # <<>> /\ UNCHANGED <<hostVars, open>>
        /\ player' = [player EXCEPT ![c] = t]
        /\ PlayerSends(c, <<SelectedAv1Configuration(chosen)>>)
    BY <1>3 DEF PlayerSelects, PlayerReads
  <2> HIDE DEF chosen
  <2>2. DOMAIN t = PlayerFields /\ t.at = "hostSelection" /\ t.seen = 0 /\ t.chosen = chosen
    BY DEF PlayerFields, NoPlayer
  <2> HIDE DEF t
  <2>3. open[c] => Script(host[c], t, toHost[c] \o <<SelectedAv1Configuration(chosen)>>,
                          Tail(toPlayer[c]))
    BY <1>1, <2>1, <2>2, PlayerChoiceTurns
  <2> QED
    BY <2>1, <2>2, <2>3, PlayerActs DEF None
<1>4. CASE PlayerConfirms(c) /\ ~PlayerLeaves(c)
  <2>1. /\ player[c].at = "hostSelection" /\ toPlayer[c] # <<>> /\ PlayerAt(c, "latency1")
        /\ PlayerSends(c, <<ClockPing(1)>>) /\ UNCHANGED <<hostVars, open>>
    BY <1>4 DEF PlayerConfirms, PlayerReads
  <2> QED
    BY <1>1, <2>1, PlayerChoiceTurns, PlayerMoves DEF None
<1> QED
  BY <1>2, <1>3, <1>4

LEMMA PlayerPingsInStep ==
  ASSUME SlotInv, StepInv, NEW c \in Connections, PlayerMeasures(c)
  PROVE  StepInv'
<1> DEFINE p == player[c]
           last == p.seen + 1 = Samples
           next == IF ~last THEN p.at ELSE IF p.at = "latency1" THEN "probeStart" ELSE PlayerReady(p)
           input == p.at = "latency2" /\ p.chosen.input
           count == IF last THEN 0 ELSE p.seen + 1
           t == [p EXCEPT !.at = next, !.seen = count]
           sent == IF ~last THEN <<ClockPing(p.seen + 2)>>
                   ELSE <<LatencyProbeReport>> \o (IF input THEN <<InputStream>> ELSE <<>>)
<1>1. open[c] => Script(host[c], p, toHost[c], toPlayer[c])
  BY DEF StepInv
<1>2. DOMAIN player = Connections /\ DOMAIN p = PlayerFields
  BY DEF StepInv
<1>3. /\ p.at \in LatencyPlaces /\ toPlayer[c] # <<>> /\ UNCHANGED <<hostVars, open>>
      /\ player' = [player EXCEPT ![c] = t]
      /\ PlayerSends(c, sent)
  BY <1>2 DEF PlayerMeasures, PlayerReads
<1>4. DOMAIN t = PlayerFields /\ t.at = next /\ t.seen = count /\ t.chosen = p.chosen
  BY <1>2 DEF PlayerFields
<1>5. next # None
  BY <1>3 DEF LatencyPlaces, PlayerReady, None
<1> HIDE DEF t
<1>6. open[c] => Script(host[c], t, toHost[c] \o sent, Tail(toPlayer[c]))
  <2> SUFFICES ASSUME open[c] PROVE Script(host[c], t, toHost[c] \o sent, Tail(toPlayer[c]))
    OBVIOUS
  <2>1. CASE ~last
    BY <1>1, <1>3, <1>4, <2>1, PlayerPingTurns
  <2>2. CASE last /\ p.at = "latency1"
    <3>1. sent = <<LatencyProbeReport>>
      BY <2>2, OneMessage
    <3> QED
      BY <1>1, <1>3, <1>4, <2>2, <3>1, PlayerPingTurns
  <2>3. CASE last /\ p.at = "latency2" /\ p.chosen.input
    <3>1. sent = <<LatencyProbeReport, InputStream>>
      BY <2>3, TwoMessages
    <3> QED
      BY <1>1, <1>3, <1>4, <2>3, <3>1, PlayerPingTurns
  <2>4. CASE last /\ p.at = "latency2" /\ ~p.chosen.input
    <3>1. sent = <<LatencyProbeReport>>
      BY <2>4, OneMessage
    <3> QED
      BY <1>1, <1>3, <1>4, <2>4, <3>1, PlayerPingTurns
  <2> QED
    BY <1>3, <2>1, <2>2, <2>3, <2>4 DEF LatencyPlaces
<1> HIDE DEF sent, next
<1> QED
  BY <1>3, <1>4, <1>5, <1>6, PlayerActs

LEMMA PlayerProbesInStep ==
  ASSUME SlotInv, StepInv, NEW c \in Connections,
         PlayerProbes(c) \/ PlayerCounts(c) \/ PlayerReports(c) \/ PlayerStreams(c)
  PROVE  StepInv'
<1>1. open[c] => Script(host[c], player[c], toHost[c], toPlayer[c])
  BY DEF StepInv
<1>2. DOMAIN player = Connections /\ DOMAIN player[c] = PlayerFields
  BY DEF StepInv
<1>3. CASE PlayerProbes(c)
  <2>1. toPlayer[c] # <<>> /\ PlayerSends(c, <<>>) /\ UNCHANGED <<hostVars, open>>
    BY <1>3 DEF PlayerProbes, PlayerReads
  <2>2. CASE player[c].at = "probeStart" /\ PlayerAt(c, "probing")
    <3>1. open[c] => \A q : Moved(player[c], q, "probing")
                               => Script(host[c], q, toHost[c] \o <<>>, Tail(toPlayer[c]))
      BY <1>1, <2>1, <2>2, PlayerProbeTurns DEF Moved
    <3> QED
      BY <2>1, <2>2, <3>1, PlayerMoves DEF None
  <2>3. CASE player[c].at = "probing" /\ PlayerAt(c, "grace")
    <3>1. open[c] => \A q : Moved(player[c], q, "grace")
                               => Script(host[c], q, toHost[c] \o <<>>, Tail(toPlayer[c]))
      BY <1>1, <2>1, <2>3, PlayerProbeTurns DEF Moved
    <3> QED
      BY <2>1, <2>3, <3>1, PlayerMoves DEF None
  <2> QED
    BY <1>3, <2>2, <2>3 DEF PlayerProbes
<1>4. CASE PlayerCounts(c)
  <2> DEFINE t == [player[c] EXCEPT !.seen = 1]
  <2>1. /\ player[c].at \in {"probing", "grace"} /\ UNCHANGED <<host, open, toHost, toPlayer>>
        /\ player' = [player EXCEPT ![c] = t]
    BY <1>2, <1>4 DEF PlayerCounts, hostVars
  <2>2. DOMAIN t = PlayerFields /\ t.at = player[c].at /\ t.chosen = player[c].chosen
    BY <1>2 DEF PlayerFields
  <2> HIDE DEF t
  <2>3. player'[c] = t /\ DOMAIN player' = Connections /\ \A d \in Connections \ {c} : player'[d] = player[d]
    BY <1>2, <2>1
  <2>4. open[c] => Script(host[c], t, toHost[c], toPlayer[c])
    BY <1>1, <2>1, <2>2, PlayerProbeTurns
  <2> QED
    BY <2>1, <2>2, <2>3, <2>4, OneSide DEF None
<1>5. CASE PlayerReports(c)
  <2> DEFINE t == [player[c] EXCEPT !.at = "latency2", !.seen = 0]
             sent == <<BandwidthProbeReport(player[c].seen), ClockPing(1)>>
  <2>1. /\ player[c].at = "grace" /\ UNCHANGED <<host, open, toPlayer>> /\ PlayerWrites(c, sent)
        /\ player' = [player EXCEPT ![c] = t]
    BY <1>2, <1>5 DEF PlayerReports, hostVars
  <2>2. DOMAIN t = PlayerFields /\ t.at = "latency2" /\ t.seen = 0 /\ t.chosen = player[c].chosen
    BY <1>2 DEF PlayerFields
  <2> HIDE DEF t
  <2>3. open[c] => Script(host[c], t, toHost[c] \o sent, toPlayer[c])
    BY <1>1, <2>1, <2>2, PlayerProbeTurns
  <2> HIDE DEF sent
  <2>4. Elsewhere(c)
    BY <2>1 DEF Elsewhere, PlayerWrites, StepInv
  <2>5. /\ player'[c] = t /\ toPlayer'[c] = toPlayer[c] /\ host'[c] = host[c] /\ open'[c] = open[c]
        /\ toHost'[c] = IF host[c].at = None THEN <<>> ELSE toHost[c] \o sent
    BY <1>2, <2>1 DEF PlayerWrites, StepInv
  <2>6. open[c] => host[c].at # None
    BY <1>1, ScriptNeedsBoth
  <2>7. Peers(host[c], player[c], open[c], toHost[c], toPlayer[c])'
    BY <2>2, <2>3, <2>5, <2>6 DEF Peers, None
  <2> QED
    BY <2>4, <2>7, OneConnection
<1>6. CASE PlayerStreams(c)
  <2>1. /\ player[c].at = "diagnostics" /\ toPlayer[c] # <<>> /\ PlayerAt(c, "streaming")
        /\ PlayerSends(c, <<>>) /\ UNCHANGED <<hostVars, open>>
    BY <1>6 DEF PlayerStreams, PlayerReads
  <2> QED
    BY <1>1, <2>1, PlayerOpens, PlayerMoves DEF None
<1> QED
  BY <1>3, <1>4, <1>5, <1>6

-------------------------------------------------------------------------------
(* A new connection starts the script, and all that the service does ends  *)
(* scripts.                                                                *)
LEMMA ConnectInStep ==
  ASSUME SlotInv, StepInv, NEW c \in Connections, Connect(c)
  PROVE  StepInv'
<1>1. PICK address \in Addresses :
        host' = [host EXCEPT ![c] = [NoTask EXCEPT
                   !.from = address, !.at = IF Tracks(address) THEN "delayed" ELSE "identity"]]
  BY DEF Connect
<1>2. DOMAIN host = Connections
  BY DEF SlotInv, Tasks
<1>3. /\ host'[c].at \in {"delayed", "identity"} /\ host'[c].seen = 0
      /\ \A d \in Connections \ {c} : host'[d] = host[d]
  BY <1>1, <1>2 DEF NoTask
<1>4. player[c] = NoPlayer /\ toPlayer[c] = <<>> /\ DOMAIN player = Connections
  BY DEF Connect, StepInv
<1>5. /\ player' = [player EXCEPT ![c].at = "identity"]
      /\ open' = [open EXCEPT ![c] = TRUE]
      /\ toHost' = [toHost EXCEPT ![c] = <<HostIdentityRequest>>]
      /\ toPlayer' = toPlayer
  BY DEF Connect, PlayerAt
<1>6. DOMAIN player'[c] = PlayerFields /\ player'[c].at = "identity"
  BY <1>4, <1>5 DEF NoPlayer, PlayerFields
<1>7. Elsewhere(c)
  BY <1>3, <1>4, <1>5 DEF Elsewhere, StepInv
<1>8. toHost'[c] = <<HostIdentityRequest>> /\ toPlayer'[c] = <<>>
  BY <1>4, <1>5 DEF StepInv
<1>9. Authenticating(host'[c], player'[c], toHost'[c], toPlayer'[c])
  BY <1>3, <1>6, <1>8 DEF Authenticating
<1>10. Peers(host[c], player[c], open[c], toHost[c], toPlayer[c])'
  BY <1>3, <1>6, <1>9 DEF Peers, Script, None
<1> QED
  BY <1>7, <1>10, OneConnection

LEMMA ServiceInStep ==
  ASSUME StepInv, StopService \/ ServiceGone
  PROVE  StepInv'
<1>1. /\ UNCHANGED <<player, toPlayer>> /\ DOMAIN toHost' = Connections
      /\ DOMAIN open' = Connections /\ \A c \in Connections : ~open'[c]
  BY DEF StopService, ServiceGone, StepInv
<1> QED
  BY <1>1 DEF StepInv

LEMMA UntouchedInStep ==
  ASSUME StepInv, UNCHANGED <<host, player, open, toHost, toPlayer>>
  PROVE  StepInv'
BY DEF StepInv

LEMMA StepAtFirst == Init => StepInv
<1> SUFFICES ASSUME Init PROVE StepInv
  OBVIOUS
<1>1. \A c \in Connections : player[c] = NoPlayer /\ toPlayer[c] = <<>> /\ ~open[c]
  BY DEF Init
<1>2. /\ DOMAIN player = Connections /\ DOMAIN open = Connections
      /\ DOMAIN toHost = Connections /\ DOMAIN toPlayer = Connections
  BY DEF Init
<1>3. DOMAIN NoPlayer = PlayerFields
  BY DEF NoPlayer, PlayerFields
<1> QED
  BY <1>1, <1>2, <1>3 DEF StepInv

LEMMA StepInductive == SlotInv /\ StepInv /\ [Next]_vars => StepInv'
<1> SUFFICES ASSUME SlotInv, StepInv, [Next]_vars PROVE StepInv'
  OBVIOUS
<1>1. ASSUME NEW c \in Connections, HostStep(c) \/ HostTimesOut(c) \/ HostEndsStream(c)
      PROVE  StepInv'
  <2>1. CASE \/ DelayEnds(c) \/ HostIdentifies(c) \/ HostChallenges(c) \/ HostAuthenticates(c)
             \/ HostRefuses(c)
    BY <2>1, HostAuthenticationInStep
  <2>2. CASE HostInforms(c) \/ HostInformed(c) \/ HostTakesOffer(c)
    BY <2>2, HostAnswersInStep
  <2>3. CASE HostLaunchesControls(c) \/ HostPreparesWorker(c) \/ HostConfirms(c)
    BY <2>3, HostChoiceInStep
  <2>4. CASE HostPongs(c) \/ HostMeasured(c) \/ HostProbes(c) \/ HostTakesReport(c)
    BY <2>4, HostProbesInStep
  <2>5. CASE \/ HostStreams(c) \/ HostEndsStream(c) \/ HostJoinsMedia(c) \/ HostSeesClosed(c)
             \/ HostTimesOut(c)
    BY <2>5, HostStreamInStep
  <2> QED
    BY <1>1, <2>1, <2>2, <2>3, <2>4, <2>5 DEF HostStep
<1>2. ASSUME NEW c \in Connections, PlayerStep(c) \/ PlayerGivesUp(c)
      PROVE  StepInv'
  <2>1. CASE PlayerIdentifies(c) \/ PlayerProves(c) \/ PlayerRequests(c) \/ PlayerInformed(c)
    BY <2>1, PlayerAsksInStep
  <2>2. CASE PlayerSelects(c) \/ PlayerConfirms(c)
    BY <2>2, PlayerChoosesInStep
  <2>3. CASE PlayerMeasures(c)
    BY <2>3, PlayerPingsInStep
  <2>4. CASE PlayerProbes(c) \/ PlayerCounts(c) \/ PlayerReports(c) \/ PlayerStreams(c)
    BY <2>4, PlayerProbesInStep
  <2>5. CASE PlayerMeetsLateProbe(c) \/ PlayerSeesClosed(c) \/ PlayerGivesUp(c)
    BY <2>5, ClosedByPlayer DEF PlayerMeetsLateProbe, PlayerSeesClosed, PlayerGivesUp
  <2> QED
    BY <1>2, <2>1, <2>2, <2>3, <2>4, <2>5 DEF PlayerStep
<1>3. CASE \E c \in Connections : Connect(c)
  BY <1>3, ConnectInStep
<1>4. CASE \E c \in Connections : LoseProbe(c)
  BY <1>4, UntouchedInStep DEF LoseProbe, hostVars
<1>5. CASE StopService \/ ServiceGone
  BY <1>5, ServiceInStep
<1>6. CASE StartService \/ UNCHANGED vars
  BY <1>6, UntouchedInStep DEF StartService, vars, hostVars, linkVars
<1> QED
  BY <1>1, <1>2, <1>3, <1>4, <1>5, <1>6 DEF Next

-------------------------------------------------------------------------------
(* The script says what InStep asks of each message that is read next.     *)
LEMMA HostExpects ==
  ASSUME NEW c \in Connections, NEW p, NEW tp,
         Script(host[c], p, toHost[c], tp), toHost[c] # <<>>
  PROVE  ExpectedByHost(c, Head(toHost[c]))
<1> DEFINE h == host[c]
           th == toHost[c]
<1> USE DEF ExpectedByHost, Envelope
<1>1. CASE Authenticating(h, p, th, tp)
  <2>1. CASE h.at \in {"delayed", "identity"} /\ th = <<HostIdentityRequest>>
    BY <2>1, OneMessage DEF HostIdentityRequest
  <2>2. CASE h.at = "credential" /\ th = <<OpaqueCredentialRequest>>
    BY <2>2, OneMessage DEF OpaqueCredentialRequest
  <2>3. CASE h.at = "finalization" /\ \E right \in BOOLEAN : th = <<OpaqueCredentialFinalization(right)>>
    <3>1. PICK right \in BOOLEAN : th = <<OpaqueCredentialFinalization(right)>>
      BY <2>3
    <3> QED
      BY <2>3, <3>1, OneMessage DEF OpaqueCredentialFinalization
  <2> QED
    BY <1>1, <2>1, <2>2, <2>3 DEF Authenticating
<1>2. CASE Asking(h, p, th, tp)
  <2>1. CASE th = <<SessionAvailabilityProbe>> /\ h.at = "request"
    BY <2>1, OneMessage DEF SessionAvailabilityProbe
  <2>2. CASE th = <<DisplayCatalogRequest>> /\ h.at = "request"
    BY <2>2, OneMessage DEF DisplayCatalogRequest
  <2>3. CASE h.at = "request" /\ \E offer : th = <<ViewerOffer(offer)>>
    <3>1. PICK offer : th = <<ViewerOffer(offer)>>
      BY <2>3
    <3>2. Head(th).is = "Av1CapabilityOffer"
      BY <3>1, OneMessage DEF ViewerOffer
    <3> QED
      BY <2>3, <3>2
  <2> QED
    BY <1>2, <2>1, <2>2, <2>3 DEF Asking
<1>3. CASE Choosing(h, p, th, tp)
  <2>1. h.at = "selection" /\ th = <<SelectedAv1Configuration(p.chosen)>>
    BY <1>3 DEF Choosing
  <2>2. Head(th).is = "SelectedAv1Configuration"
    BY <2>1, OneMessage DEF SelectedAv1Configuration
  <2> QED
    BY <2>1, <2>2
<1>4. CASE Pinging(h, p, th, tp)
  <2>1. h.at \in LatencyPlaces /\ th = <<ClockPing(h.seen + 1)>>
    BY <1>4 DEF Pinging
  <2>2. Head(th).is = "ClockPing" /\ Head(th).sequence = h.seen + 1
    BY <2>1, OneMessage DEF ClockPing
  <2> QED
    BY <2>1, <2>2
<1>5. CASE Probing(h, p, th, tp)
  <2>1. CASE h.at = "latency1" /\ h.seen = Samples /\ th = <<LatencyProbeReport>>
    BY <2>1, OneMessage DEF LatencyProbeReport, LatencyPlaces
  <2>2. CASE h.at = "report" /\ \E received : th = <<BandwidthProbeReport(received), ClockPing(1)>>
    <3>1. PICK received : th = <<BandwidthProbeReport(received), ClockPing(1)>>
      BY <2>2
    <3>2. Head(th).is = "BandwidthProbeReport"
      BY <3>1, TwoMessages DEF BandwidthProbeReport
    <3> QED
      BY <2>2, <3>2
  <2> QED
    BY <1>5, <2>1, <2>2 DEF Probing
<1>6. CASE Opening(h, p, th, tp)
  <2>1. CASE /\ h.at = "latency2" /\ h.seen = Samples
             /\ th = <<LatencyProbeReport, InputStream>> \/ th = <<LatencyProbeReport>>
    <3>1. Head(th).is = "LatencyProbeReport"
      BY <2>1, OneMessage, TwoMessages DEF LatencyProbeReport
    <3> QED
      BY <2>1, <3>1 DEF LatencyPlaces
  <2>2. CASE h.at = "input" /\ th = <<InputStream>>
    BY <2>2, OneMessage DEF InputStream
  <2> QED
    BY <1>6, <2>1, <2>2 DEF Opening
<1> QED
  BY <1>1, <1>2, <1>3, <1>4, <1>5, <1>6 DEF Script

LEMMA PlayerExpects ==
  ASSUME NEW c \in Connections, NEW h, NEW th,
         Script(h, player[c], th, toPlayer[c]), toPlayer[c] # <<>>
  PROVE  ExpectedByPlayer(c, Head(toPlayer[c]))
<1> DEFINE p == player[c]
           tp == toPlayer[c]
<1> USE DEF ExpectedByPlayer, Envelope
<1>1. CASE Authenticating(h, p, th, tp)
  <2>1. CASE p.at = "identity" /\ tp = <<HostIdentityOffer>>
    BY <2>1, OneMessage DEF HostIdentityOffer
  <2>2. CASE p.at = "credential" /\ tp = <<OpaqueCredentialResponse>>
    BY <2>2, OneMessage DEF OpaqueCredentialResponse
  <2> QED
    BY <1>1, <2>1, <2>2 DEF Authenticating
<1>2. CASE Asking(h, p, th, tp)
  <2>1. CASE p.at = "result" /\ tp = <<AuthenticationResult(TRUE)>>
    BY <2>1, OneMessage DEF AuthenticationResult
  <2>2. CASE p.at = "answer" /\ tp = <<DisplayCatalog>>
    BY <2>2, OneMessage DEF DisplayCatalog
  <2>3. CASE p.at = "answer" /\ \E busy \in BOOLEAN : tp = <<SessionAvailabilityResult(busy)>>
    <3>1. PICK busy \in BOOLEAN : tp = <<SessionAvailabilityResult(busy)>>
      BY <2>3
    <3>2. Head(tp).is = "SessionAvailabilityResult"
      BY <3>1, OneMessage DEF SessionAvailabilityResult
    <3> QED
      BY <2>3, <3>2
  <2> QED
    BY <1>2, <2>1, <2>2, <2>3 DEF Asking
<1>3. CASE Choosing(h, p, th, tp)
  <2>1. p.at = "hostOffer" /\ \E answer : tp = <<HostOffer(answer)>>
    BY <1>3 DEF Choosing
  <2>2. PICK answer : tp = <<HostOffer(answer)>>
    BY <2>1
  <2>3. Head(tp).is = "Av1CapabilityOffer"
    BY <2>2, OneMessage DEF HostOffer
  <2> QED
    BY <2>1, <2>3
<1>4. CASE Pinging(h, p, th, tp)
  <2>1. CASE p.at = "hostSelection" /\ tp = <<SelectedAv1Configuration(h.chosen)>>
    <3>1. Head(tp).is = "SelectedAv1Configuration"
      BY <2>1, OneMessage DEF SelectedAv1Configuration
    <3> QED
      BY <2>1, <3>1
  <2>2. CASE /\ p.at \in LatencyPlaces /\ h.seen \in 1..Samples /\ p.seen = h.seen - 1
             /\ tp = <<ClockPong(h.seen)>>
    <3>1. Head(tp).is = "ClockPong" /\ Head(tp).sequence = h.seen
      BY <2>2, OneMessage DEF ClockPong
    <3>2. h.seen = p.seen + 1
      BY <2>2, ConstantsAssumption
    <3> QED
      BY <2>2, <3>1, <3>2
  <2> QED
    BY <1>4, <2>1, <2>2 DEF Pinging
<1>5. CASE Probing(h, p, th, tp)
  <2>1. CASE p.at = "probeStart" /\ tp = <<BandwidthProbeStart>>
    BY <2>1, OneMessage DEF BandwidthProbeStart
  <2>2. CASE p.at = "probeStart" /\ \E sent : tp = <<BandwidthProbeStart, BandwidthProbeFinish(sent)>>
    BY <2>2, TwoMessages DEF BandwidthProbeStart
  <2>3. CASE p.at = "probing" /\ \E sent : tp = <<BandwidthProbeFinish(sent)>>
    <3>1. PICK sent : tp = <<BandwidthProbeFinish(sent)>>
      BY <2>3
    <3>2. Head(tp).is = "BandwidthProbeFinish"
      BY <3>1, OneMessage DEF BandwidthProbeFinish
    <3> QED
      BY <2>3, <3>2
  <2> QED
    BY <1>5, <2>1, <2>2, <2>3 DEF Probing
<1>6. CASE Opening(h, p, th, tp)
  <2>1. p.at = "diagnostics" /\ tp = <<DiagnosticStream>>
    BY <1>6 DEF Opening
  <2> QED
    BY <2>1, OneMessage DEF DiagnosticStream
<1> QED
  BY <1>1, <1>2, <1>3, <1>4, <1>5, <1>6 DEF Script

(* The two scripts stay in step, whatever either side does when: what a    *)
(* side reads next on an open connection is what it waits for, number by   *)
(* number (the read_envelope matches of service.rs, lib.rs, quic.rs and    *)
(* the probes).                                                            *)
THEOREM InStepAlways == Spec => []InStep
<1>1. StepInv => InStep
  BY HostExpects, PlayerExpects DEF StepInv, InStep
<1> QED
  BY <1>1, SlotAtFirst, SlotInductive, StepAtFirst, StepInductive, PTL DEF Spec

(* The two sides choose for themselves, from an offer and an answer that   *)
(* crossed; from its own confirmation on, the player streams what the host *)
(* streams (HostSelection and PlayerSelection, service.rs and lib.rs).     *)
Measured == {"latency1", "probeStart", "probing", "grace", "latency2", "diagnostics", "streaming"}
Agreement ==
  \A c \in Connections :
    open[c] /\ player[c].at \in Measured => host[c].chosen = player[c].chosen
THEOREM AgreementAlways == Spec => []Agreement
<1>1. StepInv => Agreement
  BY DEF StepInv, Agreement, Measured, Script, Authenticating, Asking, Choosing
<1> QED
  BY <1>1, SlotAtFirst, SlotInductive, StepAtFirst, StepInductive, PTL DEF Spec
=============================================================================
