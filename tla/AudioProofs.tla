------------------------------ MODULE AudioProofs ------------------------------
(***************************************************************************)
(* Proofs about the two ends of the audio path, for every capacity.        *)
(* HostAudio: the user's default devices can always be put back, for any   *)
(* number of roles and devices, whoever chooses, fails or dies at whatever *)
(* point; and a packet is true to its samples.  AudioPlayout: packets are  *)
(* decoded in order and only from their predecessor's state, and what is   *)
(* played never overlaps.                                                  *)
(***************************************************************************)
EXTENDS HostAudio, AudioPlayout, FiniteSetTheorems, SequenceTheorems, TLAPS

-----------------------------------------------------------------------------
(* HostAudio: the default devices, and the encoder. *)

(* The defaults that can be on record.                                     *)
Known == [Roles -> Devices \union {Cable}]

JobFields == {"at", "role", "old", "tries", "ok"}
Changing == {"set", "set wait", "unset", "unset wait"}
Undoing == {"undo", "unset", "unset wait"}
Applying == {"apply", "set", "set wait"}

Job(j) ==
  /\ DOMAIN j = JobFields /\ j.role \in Nat /\ j.ok \in BOOLEAN
  /\ j.at \in Changing => j.role \in Roles
  /\ j.at = "save" => j.old \in Known

Captured(c) ==
  /\ DOMAIN c = {"opened", "stream", "route", "broken", "last"}
  /\ c.route \in BOOLEAN /\ c.stream \in BOOLEAN

Thread(t) == DOMAIN t = {"at", "then", "stop", "over", "why"} /\ t.then # "read"

Typed ==
  /\ defaults \in Known /\ wish \in Known /\ (record = NoRecord \/ record \in Known)
  /\ leftover \in BOOLEAN
  /\ Job(job) /\ Captured(capture) /\ Thread(thread)

(* What the cable is the default of is on record, and the record is true.  *)
OnRecord ==
  ~leftover =>
    /\ \A r \in Roles : defaults[r] = Cable /\ wish[r] # Cable => record # NoRecord
    /\ record # NoRecord => \A r \in Roles : record[r] = Cable => wish[r] = Cable
    /\ job.at = "save" /\ record = NoRecord => \A r \in Roles : job.old[r] = Cable => wish[r] = Cable

(* Defaults are only changed by a job that works on the record.            *)
JobOnRecord == job.at \in Applying \union Undoing => job.old = record /\ record # NoRecord

(* So does the route that the capture thread holds, or is about to hold.   *)
RouteOnRecord ==
  /\ thread.at # "gone" /\ capture.route =>
       /\ job.at = "done" /\ job.old = record /\ record # NoRecord
       /\ thread.at \notin {"routing", "activate"}
  /\ thread.at = "routing" /\ thread.then = "open" =>
       /\ job.at \in Undoing => ~job.ok
       /\ job.at = "done" /\ job.ok => job.old = record /\ record # NoRecord

(* The service works on the defaults when there is no worker; a worker     *)
(* that hears something has a route.                                       *)
Ending(t) == t.at \in {"final", "ended"} \/ (t.at = "routing" /\ t.then = "final")
Hears == thread.at = "read" \/ (capture.stream /\ ~Ending(thread))
Apart ==
  /\ service \in {"starting", "cleaning", "ending"} => thread.at = "gone"
  /\ thread.at # "gone" /\ Hears => capture.route

RouteInv == Typed /\ OnRecord /\ JobOnRecord /\ RouteOnRecord /\ Apart

-------------------------------------------------------------------------------
(* Lemmas on jobs, captures and threads.                                   *)

LEMMA RolesThere == 1 \in Roles /\ Roles \subseteq Nat
BY RouteAssumption DEF Roles

LEMMA KnownIsRecord == \A k \in Known : k # NoRecord
<1> SUFFICES ASSUME NEW k \in Known PROVE k # NoRecord
  OBVIOUS
<1>1. DOMAIN k = Roles /\ DOMAIN NoRecord = {}
  BY DEF Known, NoRecord
<1> QED
  BY <1>1, RolesThere

LEMMA JobMoved ==
  ASSUME NEW j, Job(j), NEW at, at \notin Changing, at # "save"
  PROVE  LET k == [j EXCEPT !.at = at]
         IN  Job(k) /\ k.at = at /\ k.old = j.old /\ k.role = j.role /\ k.ok = j.ok
BY DEF Job, JobFields

LEMMA JobWrites ==
  ASSUME NEW j, Job(j), j.role \in Roles, NEW at \in Changing
  PROVE  LET k == [j EXCEPT !.at = at]
         IN  Job(k) /\ k.at = at /\ k.old = j.old /\ k.role = j.role /\ k.ok = j.ok
BY DEF Job, JobFields, Changing

LEMMA JobNextRole ==
  ASSUME NEW j, Job(j), NEW at \in {"undo", "apply"}
  PROVE  LET k == [j EXCEPT !.at = at, !.role = @ + 1]
         IN  Job(k) /\ k.at = at /\ k.old = j.old /\ k.ok = j.ok
<1> DEFINE n == j.role + 1
<1>1. n \in Nat
  BY DEF Job
<1> HIDE DEF n
<1>2. LET k == [j EXCEPT !.at = at, !.role = n]
      IN  Job(k) /\ k.at = at /\ k.old = j.old /\ k.ok = j.ok
  BY <1>1 DEF Job, JobFields, Changing
<1> QED
  BY <1>2 DEF n

LEMMA JobSkipsRole ==
  ASSUME NEW j, Job(j), j.at \in {"undo", "apply"}
  PROVE  LET k == [j EXCEPT !.role = @ + 1]
         IN  Job(k) /\ k.at = j.at /\ k.old = j.old /\ k.ok = j.ok
<1> DEFINE n == j.role + 1
<1>1. n \in Nat
  BY DEF Job
<1> HIDE DEF n
<1>2. LET k == [j EXCEPT !.role = n]
      IN  Job(k) /\ k.at = j.at /\ k.old = j.old /\ k.ok = j.ok
  BY <1>1 DEF Job, JobFields, Changing
<1> QED
  BY <1>2 DEF n

LEMMA JobEnds ==
  ASSUME NEW j, Job(j), NEW ok \in BOOLEAN
  PROVE  LET k == [j EXCEPT !.at = "done", !.ok = ok]
         IN  Job(k) /\ k.at = "done" /\ k.old = j.old /\ k.ok = ok
BY DEF Job, JobFields, Changing

LEMMA UndoJob ==
  ASSUME NEW old, NEW tries, NEW ok \in BOOLEAN
  PROVE  LET k == Undo(old, tries, ok)
         IN  Job(k) /\ k.at = "undo" /\ k.old = old /\ k.ok = ok
BY RolesThere DEF Undo, Job, JobFields, Changing

LEMMA IdleJob == Job(Idle) /\ Idle.at = "idle"
BY RolesThere DEF Idle, Job, JobFields, Changing

(* An undo that fails ends, or begins again; it never counts as done.      *)
LEMMA FailedUndo ==
  ASSUME Job(job)
  PROVE  /\ Job(UndoFailed) /\ UndoFailed.at \in {"undo", "done"}
         /\ UndoFailed.old = job.old /\ ~UndoFailed.ok
<1>1. CASE job.tries > 1
  BY <1>1, UndoJob DEF UndoFailed
<1>2. CASE ~(job.tries > 1)
  BY <1>2, JobEnds DEF UndoFailed
<1> QED
  BY <1>1, <1>2

LEMMA FailedApply ==
  /\ Job(ApplyFailed) /\ ApplyFailed.at = "undo"
  /\ ApplyFailed.old = job.old /\ ~ApplyFailed.ok
BY UndoJob DEF ApplyFailed

-------------------------------------------------------------------------------
(* The places of a job.                                                    *)

(* A job goes on, and nothing else changes.                                *)
LEMMA JobGoesOn ==
  ASSUME RouteInv, Job(job'), job'.old = job.old,
         job.at \in Applying \union Undoing,
         job'.at \in Applying \union Undoing \union {"done"},
         job'.at \in Undoing => job.at \in Undoing \/ ~job'.ok,
         job'.ok => job.ok,
         UNCHANGED <<record, wish, leftover, thread, capture, service>>,
         defaults' \in Known,
         \A r \in Roles : defaults'[r] = Cable => defaults[r] = Cable \/ record # NoRecord
  PROVE  RouteInv'
<1> USE DEF RouteInv
<1>1. Typed'
  BY DEF Typed
<1>2. OnRecord'
  BY DEF OnRecord, Typed, Applying, Undoing
<1>3. JobOnRecord'
  BY DEF JobOnRecord
<1>4. RouteOnRecord'
  BY DEF RouteOnRecord, JobOnRecord, Applying, Undoing, Typed, Job
<1>5. Apart'
  BY DEF Apart, Hears, Ending
<1> QED
  BY <1>1, <1>2, <1>3, <1>4, <1>5

LEMMA UndoReadsKeeps ==
  ASSUME RouteInv, UndoReads, UNCHANGED <<thread, capture, service>>
  PROVE  RouteInv'
<1>1. Job(job) /\ job.at = "undo" /\ job.role \in Roles /\ defaults' = defaults
      /\ UNCHANGED <<record, wish, leftover>> /\ defaults \in Known
  BY DEF UndoReads, Kept, RouteInv, Typed
<1>2. CASE MustRestore
  <2>1. job' = [job EXCEPT !.at = "unset"]
    BY <1>2 DEF UndoReads, Does
  <2>2. Job(job') /\ job'.at = "unset" /\ job'.old = job.old /\ job'.ok = job.ok
    BY <2>1, <1>1, JobWrites DEF Changing
  <2> QED
    BY <1>1, <2>2, JobGoesOn DEF Undoing
<1>3. CASE ~MustRestore
  <2>1. job' = [job EXCEPT !.role = @ + 1]
    BY <1>3 DEF UndoReads, Does
  <2>2. Job(job') /\ job'.at = "undo" /\ job'.old = job.old /\ job'.ok = job.ok
    BY <2>1, <1>1, JobSkipsRole
  <2> QED
    BY <1>1, <2>2, JobGoesOn DEF Undoing
<1> QED
  BY <1>2, <1>3

(* What is written back is on record, and so is the cable if it is that.   *)
LEMMA UndoWritesKeeps ==
  ASSUME RouteInv, UndoWrites, UNCHANGED <<thread, capture, service>>
  PROVE  RouteInv'
<1>1. Job(job) /\ job.at = "unset" /\ job.role \in Roles /\ defaults \in Known
      /\ UNCHANGED <<record, wish, leftover>> /\ job.old = record /\ record \in Known
      /\ record # NoRecord
  BY DEF UndoWrites, Kept, RouteInv, Typed, Job, Changing, JobOnRecord, Undoing, Applying
<1>2. job' = [job EXCEPT !.at = "unset wait"] /\ defaults' = [defaults EXCEPT ![job.role] = job.old[job.role]]
  BY DEF UndoWrites, Does
<1>3. Job(job') /\ job'.at = "unset wait" /\ job'.old = job.old /\ job'.ok = job.ok
  BY <1>1, <1>2, JobWrites DEF Changing
<1>4. defaults' \in Known
  BY <1>1, <1>2 DEF Known
<1> QED
  BY <1>1, <1>3, <1>4, JobGoesOn DEF Undoing

LEMMA UndoWaitsKeeps ==
  ASSUME RouteInv, UndoWaits, UNCHANGED <<thread, capture, service>>
  PROVE  RouteInv'
<1>1. Job(job) /\ job.at = "unset wait" /\ defaults' = defaults /\ defaults \in Known
      /\ UNCHANGED <<record, wish, leftover>>
  BY DEF UndoWaits, Kept, RouteInv, Typed
<1>2. CASE defaults[job.role] = job.old[job.role]
  <2>1. job' = [job EXCEPT !.at = "undo", !.role = @ + 1]
    BY <1>2 DEF UndoWaits, Does, RoleDone
  <2>2. Job(job') /\ job'.at = "undo" /\ job'.old = job.old /\ job'.ok = job.ok
    BY <2>1, <1>1, JobNextRole
  <2> QED
    BY <1>1, <2>2, JobGoesOn DEF Undoing
<1>3. CASE ~(defaults[job.role] = job.old[job.role])
  <2>1. job' = UndoFailed
    BY <1>3 DEF UndoWaits, Does
  <2> QED
    BY <1>1, <2>1, FailedUndo, JobGoesOn DEF Undoing
<1> QED
  BY <1>2, <1>3

(* The record goes when the cable is left only where the record has it.    *)
LEMMA UndoSettlesKeeps ==
  ASSUME RouteInv, UndoSettles, UNCHANGED <<thread, capture, service>>
  PROVE  RouteInv'
<1>1. /\ Job(job) /\ job.at = "undo" /\ job.old = record /\ record # NoRecord /\ record \in Known
      /\ defaults \in Known /\ UNCHANGED <<defaults, wish, leftover>>
  BY DEF UndoSettles, Kept, RouteInv, Typed, JobOnRecord, Undoing, Applying
<1>5. Job(job') /\ job'.at = "done" /\ job'.old = job.old /\ (job'.ok => job.ok)
  <2>1. job' = [job EXCEPT !.at = "done", !.ok = @ /\ Recovered]
    BY DEF UndoSettles, Does
  <2>2. CASE Recovered
    <3>1. job' = [job EXCEPT !.at = "done", !.ok = job.ok]
      BY <1>1, <2>1, <2>2 DEF Job
    <3> QED
      BY <1>1, <3>1 DEF Job, JobFields, Changing
  <2>3. CASE ~Recovered
    <3>1. job' = [job EXCEPT !.at = "done", !.ok = FALSE]
      BY <1>1, <2>1, <2>3 DEF Job
    <3> QED
      BY <1>1, <3>1 DEF Job, JobFields, Changing
  <2> QED
    BY <2>2, <2>3
<1>6. Typed'
  BY <1>1, <1>5 DEF RouteInv, Typed, UndoSettles
<1>7. CASE Recovered
  <2>1. record' = NoRecord /\ \A r \in Roles : defaults[r] = Cable => record[r] = Cable
    BY <1>1, <1>7 DEF UndoSettles, Recovered
  <2>2. OnRecord'
    BY <1>1, <1>5, <2>1 DEF RouteInv, OnRecord
  <2> QED
    BY <1>1, <1>5, <1>6, <2>2 DEF RouteInv, JobOnRecord, RouteOnRecord, Apart, Hears, Ending, Applying, Undoing
<1>8. CASE ~Recovered
  <2>1. record' = record
    BY <1>8 DEF UndoSettles
  <2>2. OnRecord'
    BY <1>1, <1>5, <2>1 DEF RouteInv, OnRecord
  <2> QED
    BY <1>1, <1>5, <1>6, <2>1, <2>2 DEF RouteInv, JobOnRecord, RouteOnRecord, Apart, Hears, Ending, Applying, Undoing
<1> QED
  BY <1>7, <1>8

(* What is saved is what was found, before anything is changed.            *)
LEMMA SavesKeeps ==
  ASSUME RouteInv, Saves \/ SaveFails, UNCHANGED <<thread, capture, service>>
  PROVE  RouteInv'
<1>1. /\ Job(job) /\ job.at = "save" /\ job.old \in Known /\ job.old # NoRecord
      /\ record = NoRecord \/ record \in Known
      /\ UNCHANGED <<defaults, wish>>
      /\ leftover' = (leftover \/ record # NoRecord)
      /\ record' \in {record, job.old}
  BY KnownIsRecord DEF Saves, SaveFails, RouteInv, Typed, Job
<1>2. /\ Job(job') /\ job'.old = job.old /\ job'.at \in {"apply", "done"}
      /\ job'.at = "apply" => record' = job.old
      /\ job'.at = "done" => ~job'.ok
  <2>1. CASE Saves
    <3>1. job' = [job EXCEPT !.at = "apply"] /\ record' = job.old
      BY <2>1 DEF Saves, Does
    <3>2. Job(job') /\ job'.at = "apply" /\ job'.old = job.old
      BY <3>1, <1>1, JobMoved DEF Changing
    <3> QED
      BY <3>1, <3>2
  <2>2. CASE SaveFails
    <3>1. job' = [job EXCEPT !.at = "done", !.ok = FALSE]
      BY <2>2 DEF SaveFails, Does
    <3>2. Job(job') /\ job'.at = "done" /\ job'.old = job.old /\ job'.ok = FALSE
      BY <3>1, <1>1, JobEnds, Zenon
    <3> QED
      BY <3>2
  <2> QED
    BY <2>1, <2>2
<1>3. Typed'
  BY <1>1, <1>2 DEF RouteInv, Typed
<1>4. OnRecord'
  BY <1>1, <1>2 DEF RouteInv, OnRecord
<1>5. JobOnRecord'
  BY <1>1, <1>2 DEF JobOnRecord, Applying, Undoing
<1>6. RouteOnRecord' /\ Apart'
  BY <1>1, <1>2 DEF RouteInv, RouteOnRecord, Apart, Hears, Ending, Undoing
<1> QED
  BY <1>3, <1>4, <1>5, <1>6 DEF RouteInv

LEMMA ApplyReadsKeeps ==
  ASSUME RouteInv, ApplyReads, UNCHANGED <<thread, capture, service>>
  PROVE  RouteInv'
<1>1. Job(job) /\ job.at = "apply" /\ job.role \in Roles /\ defaults' = defaults
      /\ UNCHANGED <<record, wish, leftover>> /\ defaults \in Known
  BY DEF ApplyReads, Kept, RouteInv, Typed
<1>2. CASE job' = ApplyFailed
  BY <1>1, <1>2, FailedApply, JobGoesOn DEF Applying, Undoing
<1>3. CASE job' = [job EXCEPT !.role = @ + 1]
  <2>1. Job(job') /\ job'.at = "apply" /\ job'.old = job.old /\ job'.ok = job.ok
    BY <1>1, <1>3, JobSkipsRole
  <2> QED
    BY <1>1, <2>1, JobGoesOn DEF Applying, Undoing
<1>4. CASE job' = [job EXCEPT !.at = "set"]
  <2>1. Job(job') /\ job'.at = "set" /\ job'.old = job.old /\ job'.ok = job.ok
    BY <1>1, <1>4, JobWrites DEF Changing
  <2> QED
    BY <1>1, <2>1, JobGoesOn DEF Applying, Undoing
<1> QED
  BY <1>2, <1>3, <1>4 DEF ApplyReads, Does

(* The cable becomes a default with a record in place.                     *)
LEMMA ApplyWritesKeeps ==
  ASSUME RouteInv, ApplyWrites, UNCHANGED <<thread, capture, service>>
  PROVE  RouteInv'
<1>1. Job(job) /\ job.at = "set" /\ job.role \in Roles /\ defaults \in Known
      /\ UNCHANGED <<record, wish, leftover>> /\ record # NoRecord
  BY DEF ApplyWrites, Kept, RouteInv, Typed, Job, Changing, JobOnRecord, Undoing, Applying
<1>2. CASE cable # 0
  <2>1. job' = [job EXCEPT !.at = "set wait"] /\ defaults' = [defaults EXCEPT ![job.role] = Cable]
    BY <1>2 DEF ApplyWrites, Does
  <2>2. Job(job') /\ job'.at = "set wait" /\ job'.old = job.old /\ job'.ok = job.ok
    BY <1>1, <2>1, JobWrites DEF Changing
  <2>3. defaults' \in Known
    BY <1>1, <2>1 DEF Known
  <2> QED
    BY <1>1, <2>2, <2>3, JobGoesOn DEF Applying, Undoing
<1>3. CASE ~(cable # 0)
  BY <1>1, <1>3, FailedApply, JobGoesOn DEF ApplyWrites, Does, Applying, Undoing
<1> QED
  BY <1>2, <1>3

LEMMA ApplyWaitsKeeps ==
  ASSUME RouteInv, ApplyWaits, UNCHANGED <<thread, capture, service>>
  PROVE  RouteInv'
<1>1. Job(job) /\ job.at = "set wait" /\ defaults' = defaults /\ defaults \in Known
      /\ UNCHANGED <<record, wish, leftover>>
  BY DEF ApplyWaits, Kept, RouteInv, Typed
<1>2. CASE defaults[job.role] = Cable
  <2>1. job' = [job EXCEPT !.at = "apply", !.role = @ + 1]
    BY <1>2 DEF ApplyWaits, Does, RoleDone
  <2>2. Job(job') /\ job'.at = "apply" /\ job'.old = job.old /\ job'.ok = job.ok
    BY <1>1, <2>1, JobNextRole
  <2> QED
    BY <1>1, <2>2, JobGoesOn DEF Applying, Undoing
<1>3. CASE ~(defaults[job.role] = Cable)
  <2>1. job' = ApplyFailed
    BY <1>3 DEF ApplyWaits, Does
  <2> QED
    BY <1>1, <2>1, FailedApply, JobGoesOn DEF Applying, Undoing
<1> QED
  BY <1>2, <1>3

LEMMA ApplyChecksKeeps ==
  ASSUME RouteInv, ApplyChecks, UNCHANGED <<thread, capture, service>>
  PROVE  RouteInv'
<1>1. Job(job) /\ job.at = "apply" /\ defaults' = defaults /\ defaults \in Known
      /\ UNCHANGED <<record, wish, leftover>>
  BY DEF ApplyChecks, Kept, RouteInv, Typed
<1>2. CASE job' = [job EXCEPT !.at = "done"]
  <2>1. Job(job') /\ job'.at = "done" /\ job'.old = job.old /\ job'.ok = job.ok
    BY <1>1, <1>2, JobMoved DEF Changing
  <2> QED
    BY <1>1, <2>1, JobGoesOn DEF Applying, Undoing
<1>3. CASE job' = ApplyFailed
  BY <1>1, <1>3, FailedApply, JobGoesOn DEF Applying, Undoing
<1> QED
  BY <1>2, <1>3 DEF ApplyChecks, Does

LEMMA CallFailsKeeps ==
  ASSUME RouteInv, CallFails, UNCHANGED <<thread, capture, service>>
  PROVE  RouteInv'
<1>1. Job(job) /\ job.at \in Changing /\ defaults' = defaults /\ defaults \in Known
      /\ UNCHANGED <<record, wish, leftover>>
  BY DEF CallFails, RouteInv, Typed, Changing
<1>2. CASE job.at \in {"set", "set wait"}
  <2>1. job' = ApplyFailed
    BY <1>2 DEF CallFails, Does
  <2> QED
    BY <1>1, <1>2, <2>1, FailedApply, JobGoesOn DEF Applying, Undoing
<1>3. CASE job.at \in {"unset", "unset wait"}
  <2>1. job' = UndoFailed
    BY <1>3 DEF CallFails, Does
  <2> QED
    BY <1>1, <1>3, <2>1, FailedUndo, JobGoesOn DEF Applying, Undoing
<1> QED
  BY <1>1, <1>2, <1>3 DEF Changing

LEMMA RouteStepKeeps ==
  ASSUME RouteInv, RouteStep, UNCHANGED <<thread, capture, service>>
  PROVE  RouteInv'
BY UndoReadsKeeps, UndoWritesKeeps, UndoWaitsKeeps, UndoSettlesKeeps, SavesKeeps,
   ApplyReadsKeeps, ApplyWritesKeeps, ApplyWaitsKeeps, ApplyChecksKeeps, CallFailsKeeps
   DEF RouteStep

(* What the user and Windows do makes the cable nobody's default.          *)
LEMMA ChoicesKeep ==
  ASSUME RouteInv, UserChooses \/ Unplugged, UNCHANGED <<thread, capture, service>>
  PROVE  RouteInv'
<1>1. /\ defaults' \in Known
      /\ \A r \in Roles : defaults'[r] = Cable => defaults[r] = Cable
      /\ UNCHANGED <<record, job, wish, leftover>>
  <2>1. CASE UserChooses
    BY <2>1, RouteAssumption DEF UserChooses, RouteInv, Typed, Known
  <2>2. CASE Unplugged
    BY <2>2, RouteAssumption DEF Unplugged, RouteInv, Typed, Known
  <2> QED
    BY <2>1, <2>2
<1>2. Typed'
  BY <1>1 DEF RouteInv, Typed
<1>3. OnRecord'
  BY <1>1 DEF RouteInv, OnRecord
<1>4. JobOnRecord' /\ RouteOnRecord' /\ Apart'
  BY <1>1 DEF RouteInv, JobOnRecord, RouteOnRecord, Apart, Hears, Ending
<1> QED
  BY <1>2, <1>3, <1>4 DEF RouteInv

LEMMA EnvironmentKeeps ==
  ASSUME RouteInv, Environment
  PROVE  RouteInv'
<1>1. UNCHANGED <<thread, capture, service>>
  BY DEF Environment, captureVars
<1>2. CASE Plugged(capture.opened + 1)
  BY <1>1, <1>2 DEF Plugged, RouteInv, Typed, OnRecord, JobOnRecord, RouteOnRecord, Apart, Hears, Ending
<1> QED
  BY <1>1, <1>2, ChoicesKeep, RouteStepKeeps DEF Environment

-------------------------------------------------------------------------------
(* The places of the service and of the capture thread.                    *)

LEMMA JobKept ==
  ASSUME RouteInv, UNCHANGED <<defaults, record, wish, leftover, job>>,
         Captured(capture'), Thread(thread'), RouteOnRecord', Apart'
  PROVE  RouteInv'
BY DEF RouteInv, Typed, OnRecord, JobOnRecord

LEMMA JobGiven ==
  ASSUME RouteInv, UNCHANGED <<defaults, record, wish, leftover>>,
         Job(job'), Captured(capture'), Thread(thread'),
         job'.at = "save" => job'.old = defaults,
         job'.at \in Applying \union Undoing => job'.old = record /\ record # NoRecord,
         RouteOnRecord', Apart'
  PROVE  RouteInv'
<1>1. Typed'
  BY DEF RouteInv, Typed
<1>2. OnRecord'
  BY DEF RouteInv, OnRecord
<1>3. JobOnRecord'
  BY DEF JobOnRecord
<1> QED
  BY <1>1, <1>2, <1>3 DEF RouteInv

LEMMA RecoveryJob ==
  /\ Job(Recovery) /\ Recovery.at \in {"undo", "done"}
  /\ Recovery.at = "undo" => Recovery.old = record /\ record # NoRecord
<1>1. CASE record = NoRecord \/ away
  <2>1. Recovery = [Idle EXCEPT !.at = "done"]
    BY <1>1 DEF Recovery
  <2> QED
    BY <2>1, IdleJob, JobMoved DEF Changing
<1>2. CASE ~(record = NoRecord \/ away)
  <2>1. Recovery = Undo(record, 1, TRUE)
    BY <1>2 DEF Recovery
  <2>2. Job(Recovery) /\ Recovery.at = "undo" /\ Recovery.old = record
    BY <2>1, UndoJob, Zenon
  <2> QED
    BY <1>2, <2>2
<1> QED
  BY <1>1, <1>2

LEMMA ThreadGone == Thread(Over("gone")) /\ Over("gone").at = "gone"
BY DEF Over, Thread

LEMMA ThreadGoes ==
  ASSUME NEW t, Thread(t), NEW at
  PROVE  LET u == [t EXCEPT !.at = at] IN Thread(u) /\ u.at = at /\ u.then = t.then
BY DEF Thread

LEMMA ThreadRoutes ==
  ASSUME NEW t, Thread(t), NEW then \in {"open", "activate", "unavailable", "final"}
  PROVE  LET u == [t EXCEPT !.at = "routing", !.then = then]
         IN  Thread(u) /\ u.at = "routing" /\ u.then = then
BY DEF Thread

LEMMA ThreadStops ==
  ASSUME NEW t, Thread(t)
  PROVE  /\ LET u == [t EXCEPT !.stop = TRUE, !.over = TRUE] IN Thread(u) /\ u.at = t.at /\ u.then = t.then
         /\ LET u == [t EXCEPT !.stop = TRUE] IN Thread(u) /\ u.at = t.at /\ u.then = t.then
BY DEF Thread

LEMMA CaptureNew == Captured(NewCapture) /\ ~NewCapture.route /\ ~NewCapture.stream
BY DEF Captured, NewCapture

LEMMA CaptureLost ==
  ASSUME NEW c, Captured(c)
  PROVE  Captured(Lost(c)) /\ ~Lost(c).stream /\ (Lost(c).route <=> c.route)
<1>1. Lost(c) = [c EXCEPT !.stream = FALSE, !.opened = 0, !.broken = TRUE]
  BY DEF Lost
<1> QED
  BY <1>1 DEF Captured

LEMMA RouteLeft ==
  ASSUME NEW c, Captured(c), ~c.stream
  PROVE  LET d == [c EXCEPT !.route = FALSE] IN Captured(d) /\ ~d.route /\ ~d.stream
BY DEF Captured

(* Without a worker, the service may give itself any job on the record.    *)
LEMMA ServiceWorks ==
  ASSUME RouteInv, UNCHANGED <<defaults, record, wish, leftover, capture>>,
         thread' = Over("gone") \/ (thread' = thread /\ thread.at = "gone"),
         job' = Idle \/ job' = Recovery
  PROVE  RouteInv'
<1>1. /\ Job(job') /\ job'.at \in {"idle", "undo", "done"}
      /\ job'.at = "undo" => job'.old = record /\ record # NoRecord
  BY IdleJob, RecoveryJob
<1>2. Thread(thread') /\ thread'.at = "gone"
  BY ThreadGone DEF RouteInv, Typed
<1>3. Captured(capture')
  BY DEF RouteInv, Typed
<1>4. RouteOnRecord' /\ Apart'
  BY <1>2 DEF RouteOnRecord, Apart, Hears, Ending
<1> QED
  BY <1>1, <1>2, <1>3, <1>4, JobGiven DEF Applying, Undoing

LEMMA ServiceKeeps ==
  ASSUME RouteInv,
         ServiceStarts \/ ServiceReady \/ ServiceStops \/ WorkerDies \/ WorkerGone
  PROVE  RouteInv'
<1>1. CASE ServiceStarts \/ ServiceReady \/ ServiceStops
  <2>1. thread.at = "gone"
    BY <1>1 DEF ServiceStarts, ServiceReady, ServiceStops, RouteInv, Apart, Hears, Ending
  <2> QED
    BY <1>1, <2>1, ServiceWorks
       DEF ServiceStarts, ServiceReady, ServiceStops, Does, captureVars
<1>2. CASE WorkerDies \/ WorkerGone
  BY <1>2, ServiceWorks DEF WorkerDies, WorkerGone, Gone, Cleans, Does, captureVars
<1> QED
  BY <1>1, <1>2

(* A thread that is told to stop is where it was.                          *)
LEMMA StopKeeps ==
  ASSUME RouteInv, UNCHANGED <<defaults, record, wish, leftover, job, capture>>,
         thread.at # "gone", service' \in {service, "down"},
         \/ thread' = thread
         \/ thread' = [thread EXCEPT !.stop = TRUE, !.over = TRUE]
         \/ thread' = [thread EXCEPT !.stop = TRUE]
  PROVE  RouteInv'
<1>1. Captured(capture') /\ Thread(thread') /\ thread'.at = thread.at /\ thread'.then = thread.then
  BY ThreadStops DEF RouteInv, Typed
<1>2. RouteOnRecord'
  BY <1>1 DEF RouteInv, RouteOnRecord
<1>3. Apart'
  BY <1>1 DEF RouteInv, Apart, Hears, Ending
<1> QED
  BY <1>1, <1>2, <1>3, JobKept

LEMMA ThreadMoves ==
  ASSUME RouteInv, UNCHANGED <<defaults, record, wish, leftover, job, service>>,
         thread.at # "gone", Thread(thread'), Captured(capture'),
         thread'.at # "routing",
         thread'.at = "activate" => ~capture'.route,
         capture'.route => capture.route,
         Hears' => capture'.route
  PROVE  RouteInv'
<1>1. RouteOnRecord'
  BY DEF RouteInv, RouteOnRecord
<1>2. Apart'
  BY DEF RouteInv, Apart, Hears, Ending
<1> QED
  BY <1>1, <1>2, JobKept

(* The thread gives its route up, and begins to undo it.                   *)
LEMMA RouteUndone ==
  ASSUME RouteInv, UNCHANGED <<defaults, record, wish, leftover, service>>,
         thread.at # "gone", Thread(thread'), Captured(capture'),
         thread'.at = "routing", thread'.then # "open",
         ~capture'.route, capture'.stream => thread'.then = "final",
         job.old = record, record # NoRecord,
         NEW tries, job' = Undo(job.old, tries, TRUE)
  PROVE  RouteInv'
<1>1. Job(job') /\ job'.at = "undo" /\ job'.old = record
  BY RolesThere DEF Undo, Job, JobFields, Changing
<1>2. RouteOnRecord'
  BY DEF RouteOnRecord
<1>3. Apart'
  BY DEF RouteInv, Apart, Hears, Ending
<1> QED
  BY <1>1, <1>2, <1>3, JobGiven

LEMMA RouteHeld ==
  ASSUME RouteInv, thread.at # "gone", capture.route \/ Hears
  PROVE  /\ capture.route /\ job.at = "done" /\ job.old = record /\ record # NoRecord
         /\ thread.at \notin {"routing", "activate"}
BY DEF RouteInv, RouteOnRecord, Apart, Hears, Ending

(* Whatever the thread does next, its route is undone before.              *)
LEMMA RouteDrops ==
  ASSUME RouteInv, UNCHANGED <<defaults, record, wish, leftover, service>>,
         thread.at \notin {"gone", "routing"}, Captured(capture'),
         ~capture'.route, ~capture'.stream,
         NEW tries, NEW then \in {"activate", "unavailable", "final"}, DropRoute(tries, then)
  PROVE  RouteInv'
<1>1. Thread(thread)
  BY DEF RouteInv, Typed
<1>2. CASE capture.route
  <2>1. /\ job' = Undo(job.old, tries, TRUE)
        /\ thread' = [thread EXCEPT !.at = "routing", !.then = then]
    BY <1>2 DEF DropRoute, Routes, Does
  <2>2. Thread(thread') /\ thread'.at = "routing" /\ thread'.then = then
    BY <1>1, <2>1 DEF Thread
  <2> QED
    BY <1>2, <2>1, <2>2, RouteHeld, RouteUndone
<1>3. CASE ~capture.route
  <2>1. job' = job /\ thread' = [thread EXCEPT !.at = then]
    BY <1>3 DEF DropRoute, Goes
  <2>2. Thread(thread') /\ thread'.at = then
    BY <1>1, <2>1, ThreadGoes
  <2> QED
    BY <2>1, <2>2, ThreadMoves DEF Hears
<1> QED
  BY <1>2, <1>3

LEMMA FindsCableKeeps ==
  ASSUME RouteInv, FindsCable
  PROVE  RouteInv'
<1>1. capture' = [capture EXCEPT !.stream = FALSE, !.route = FALSE, !.opened = 0, !.broken = TRUE]
  BY DEF FindsCable
<1>2. Captured(capture') /\ ~capture'.route /\ ~capture'.stream
  BY <1>1 DEF RouteInv, Typed, Captured
<1>3. PICK then \in {"activate", "unavailable"} : DropRoute(1, then)
  BY DEF FindsCable
<1> QED
  BY <1>2, <1>3, RouteDrops DEF FindsCable

LEMMA StopsKeeps ==
  ASSUME RouteInv, Stops
  PROVE  RouteInv'
<1>1. Captured(Lost(capture)) /\ ~Lost(capture).stream
  BY CaptureLost DEF RouteInv, Typed
<1>2. Captured(capture') /\ ~capture'.route /\ ~capture'.stream
  BY <1>1, RouteLeft DEF Stops
<1> QED
  BY <1>2, RouteDrops DEF Stops

LEMMA ActivatesKeeps ==
  ASSUME RouteInv, Activates
  PROVE  RouteInv'
<1>1. /\ Thread(thread) /\ Captured(capture) /\ thread.at = "activate"
      /\ ~capture.route /\ ~capture.stream
  BY RouteHeld DEF Activates, RouteInv, Typed, Hears, Ending
<1>2. UNCHANGED <<defaults, record, wish, leftover, service>>
  BY DEF Activates
<1>3. CASE cable # 0
  <2>1. /\ job' = Activation /\ capture' = capture
        /\ thread' = [thread EXCEPT !.at = "routing", !.then = "open"]
    <3>1. Routes(Activation, "open") /\ UNCHANGED capture
      BY <1>3, Zenon DEF Activates
    <3> QED
      BY <3>1, Zenon DEF Routes, Does
  <2>2. Thread(thread') /\ thread'.at = "routing" /\ thread'.then = "open"
    BY <1>1, <2>1, ThreadRoutes
  <2>3. Job(job') /\ job'.at = "save" /\ job'.old = defaults
    BY <2>1, RolesThere DEF Activation, Job, JobFields, Changing, RouteInv, Typed
  <2>4. RouteOnRecord'
    BY <1>1, <2>1, <2>2, <2>3 DEF RouteOnRecord, Undoing
  <2>5. Apart'
    BY <1>1, <1>2, <2>1, <2>2 DEF RouteInv, Apart, Hears
  <2> QED
    BY <1>1, <1>2, <2>1, <2>2, <2>3, <2>4, <2>5, JobGiven DEF Applying, Undoing
<1>4. CASE ~(cable # 0)
  <2>1. job' = job /\ capture' = Lost(capture) /\ thread' = [thread EXCEPT !.at = "unavailable"]
    BY <1>4 DEF Activates, Goes
  <2>2. Captured(capture') /\ ~capture'.route /\ ~capture'.stream
    BY <1>1, <2>1, CaptureLost
  <2>3. Thread(thread') /\ thread'.at = "unavailable"
    BY <1>1, <2>1, ThreadGoes
  <2> QED
    BY <1>1, <1>2, <2>1, <2>2, <2>3, ThreadMoves DEF Hears
<1> QED
  BY <1>3, <1>4

(* A route that was activated holds, or is undone; one that was not has    *)
(* been undone as far as that was possible.                                *)
LEMMA OpensKeeps ==
  ASSUME RouteInv, Opens
  PROVE  RouteInv'
<1>1. /\ Thread(thread) /\ Captured(capture) /\ thread.at = "routing" /\ job.at = "done"
      /\ ~capture.route /\ ~capture.stream
      /\ job.ok => job.old = record /\ record # NoRecord
  BY RouteHeld DEF Opens, RouteInv, Typed, RouteOnRecord, Hears, Ending
<1>2. UNCHANGED <<defaults, record, wish, leftover, service>>
  BY DEF Opens
<1>3. ASSUME job.ok, job' = job, thread' = [thread EXCEPT !.at = "read"],
             capture' = [capture EXCEPT !.stream = TRUE, !.route = TRUE, !.opened = cable, !.last = None]
      PROVE  RouteInv'
  <2>1. Captured(capture') /\ capture'.route
    BY <1>1, <1>3 DEF Captured
  <2>2. Thread(thread') /\ thread'.at = "read"
    BY <1>1, <1>3, ThreadGoes
  <2>3. RouteOnRecord'
    BY <1>1, <1>2, <1>3, <2>2 DEF RouteOnRecord
  <2>4. Apart'
    BY <1>1, <1>2, <2>1, <2>2 DEF RouteInv, Apart, Hears, Ending
  <2> QED
    BY <1>2, <1>3, <2>1, <2>2, <2>3, <2>4, JobKept
<1>4. ASSUME job.ok, capture' = Lost(capture), Routes(Undo(job.old, 1, TRUE), "unavailable")
      PROVE  RouteInv'
  <2>1. Captured(capture') /\ ~capture'.route /\ ~capture'.stream
    BY <1>1, <1>4, CaptureLost
  <2>2. /\ job' = Undo(job.old, 1, TRUE)
        /\ thread' = [thread EXCEPT !.at = "routing", !.then = "unavailable"]
    BY <1>4 DEF Routes, Does
  <2>3. Thread(thread') /\ thread'.at = "routing" /\ thread'.then = "unavailable"
    BY <1>1, <2>2, ThreadRoutes
  <2> QED
    BY <1>1, <1>2, <1>4, <2>1, <2>2, <2>3, RouteUndone
<1>5. ASSUME job' = Idle,
             \/ thread' = [thread EXCEPT !.at = "final", !.why = "failed"]
             \/ thread' = [thread EXCEPT !.at = "unavailable"],
             capture' \in {capture, Lost(capture)}
      PROVE  RouteInv'
  <2>1. Captured(capture') /\ ~capture'.route /\ ~capture'.stream
    BY <1>1, <1>5, CaptureLost
  <2>2. Thread(thread') /\ thread'.at \in {"final", "unavailable"}
    BY <1>1, <1>5 DEF Thread
  <2>3. RouteOnRecord' /\ Apart'
    BY <1>1, <1>2, <2>1, <2>2 DEF RouteInv, RouteOnRecord, Apart, Hears
  <2> QED
    BY <1>2, <1>5, <2>1, <2>2, <2>3, IdleJob, JobGiven DEF Applying, Undoing
<1> QED
  BY <1>3, <1>4, <1>5 DEF Opens, Goes, Does

LEMMA RouteDroppedKeeps ==
  ASSUME RouteInv, RouteDropped
  PROVE  RouteInv'
<1>1. /\ Thread(thread) /\ Captured(capture) /\ thread.at = "routing" /\ thread.then # "open"
      /\ ~capture.route /\ (capture.stream => Ending(thread)) /\ capture' = capture
      /\ UNCHANGED <<defaults, record, wish, leftover, service>> /\ job' = Idle
  BY RouteHeld DEF RouteDropped, RouteInv, Typed, captureVars, Does, Hears
<1>2. Thread(thread') /\ thread'.at = thread.then /\ thread'.then = thread.then
  BY <1>1 DEF RouteDropped, Thread
<1>3. thread'.at # "read"
  BY <1>1, <1>2 DEF Thread
<1>4. RouteOnRecord' /\ Apart'
  BY <1>1, <1>2, <1>3 DEF RouteInv, RouteOnRecord, Apart, Hears, Ending
<1> QED
  BY <1>1, <1>2, <1>4, IdleJob, JobGiven DEF Applying, Undoing

LEMMA ReadFailsKeeps ==
  ASSUME RouteInv, ReadFails
  PROVE  RouteInv'
<1>1. Thread(thread) /\ Captured(capture) /\ thread.at = "read"
      /\ UNCHANGED <<defaults, record, wish, leftover, service>>
  BY DEF ReadFails, RouteInv, Typed
<1>2. Captured(Lost(capture)) /\ ~Lost(capture).stream /\ (Lost(capture).route <=> capture.route)
  BY <1>1, CaptureLost
<1>3. CASE capture' = Lost(capture) /\ Goes("unavailable") /\ job' = job
  <2>1. Thread(thread') /\ thread'.at = "unavailable"
    BY <1>1, <1>3, ThreadGoes DEF Goes
  <2> QED
    BY <1>1, <1>2, <1>3, <2>1, ThreadMoves DEF Hears
<1>4. ASSUME capture' = [Lost(capture) EXCEPT !.route = FALSE],
             job' = Undo(job.old, 1, TRUE),
             thread' = [thread EXCEPT !.at = "routing", !.then = "final", !.why = "failed"]
      PROVE  RouteInv'
  <2>1. Captured(capture') /\ ~capture'.route /\ ~capture'.stream
    BY <1>2, <1>4, RouteLeft
  <2>2. Thread(thread') /\ thread'.at = "routing" /\ thread'.then = "final"
    BY <1>1, <1>4 DEF Thread
  <2> QED
    BY <1>1, <1>4, <2>1, <2>2, RouteHeld, RouteUndone DEF Hears
<1> QED
  BY <1>3, <1>4 DEF ReadFails, Does

LEMMA ReadsBufferKeeps ==
  ASSUME RouteInv, ReadsBuffer
  PROVE  RouteInv'
<1>1. Thread(thread) /\ Captured(capture) /\ thread.at = "read" /\ capture.route
      /\ UNCHANGED <<defaults, record, wish, leftover, service>>
  BY RouteHeld DEF ReadsBuffer, RouteInv, Typed, Hears
<1>2. ASSUME job' = job, Goes("poll"),
             capture'.route = capture.route, Captured(capture')
      PROVE  RouteInv'
  <2>1. Thread(thread') /\ thread'.at = "poll"
    BY <1>1, <1>2, ThreadGoes DEF Goes
  <2> QED
    BY <1>1, <1>2, <2>1, ThreadMoves DEF Hears
<1>3. ASSUME job' = Undo(job.old, 1, TRUE), capture' = [capture EXCEPT !.route = FALSE],
             thread' = [thread EXCEPT !.at = "routing", !.then = "final", !.why = "encoder"]
      PROVE  RouteInv'
  <2>1. Captured(capture') /\ ~capture'.route
    BY <1>1, <1>3 DEF Captured
  <2>2. Thread(thread') /\ thread'.at = "routing" /\ thread'.then = "final"
    BY <1>1, <1>3 DEF Thread
  <2> QED
    BY <1>1, <1>3, <2>1, <2>2, RouteHeld, RouteUndone DEF Hears
<1>4. CASE Invalid
  <2>1. capture' = [capture EXCEPT !.broken = TRUE] /\ Goes("poll") /\ job' = job
    BY <1>4 DEF Invalid
  <2> QED
    BY <1>1, <1>2, <2>1 DEF Captured
<1>5. ASSUME NEW time, NEW buffer, NEW flag, Encodes(time, buffer, flag)
      PROVE  RouteInv'
  <2>1. CASE Refuses(IF Resets(flag) THEN NewEncoder ELSE encoder, time)
    BY <1>3, <1>5, <2>1 DEF Encodes, Does
  <2>2. CASE ~Refuses(IF Resets(flag) THEN NewEncoder ELSE encoder, time)
    <3>1. capture' = [capture EXCEPT !.broken = FALSE, !.last = time] /\ Goes("poll") /\ job' = job
      BY <1>5, <2>2 DEF Encodes
    <3>2. capture'.route = capture.route /\ Captured(capture')
      BY <1>1, <3>1 DEF Captured
    <3> QED
      BY <1>2, <3>1, <3>2
  <2> QED
    BY <2>1, <2>2
<1>6. Invalid \/ \E time, buffer, flag : Encodes(time, buffer, flag)
  BY DEF ReadsBuffer
<1> QED
  BY <1>4, <1>5, <1>6

LEMMA WorkerKeeps ==
  ASSUME RouteInv,
         Unavailable \/ Looks \/ Idles \/ Finishes \/ Writes \/ WriterEnds \/ StreamStops
  PROVE  RouteInv'
<1>1. Thread(thread) /\ Captured(capture)
  BY DEF RouteInv, Typed
<1>2. CASE Unavailable \/ Looks \/ Idles
  <2>1. /\ UNCHANGED <<defaults, record, wish, leftover, job, service, capture>>
        /\ thread.at \in {"unavailable", "poll", "read"}
        /\ Goes("poll") \/ (Goes("read") /\ capture.stream)
    BY <1>2 DEF Unavailable, Looks, Idles, routeVars, captureVars
  <2>2. /\ Thread(thread')
        /\ thread'.at = "poll" \/ (thread'.at = "read" /\ capture.stream)
    BY <1>1, <2>1 DEF Goes, Thread
  <2>3. Hears' => Hears
    BY <2>1, <2>2 DEF Hears, Ending
  <2> QED
    BY <1>1, <2>1, <2>2, <2>3, RouteHeld, ThreadMoves
<1>3. CASE Finishes
  <2>1. /\ UNCHANGED <<defaults, record, wish, leftover, job, service, capture>>
        /\ thread.at = "final" /\ thread' = [thread EXCEPT !.at = "ended"]
    BY <1>3 DEF Finishes, routeVars, captureVars, Goes
  <2>2. Thread(thread') /\ thread'.at = "ended"
    BY <1>1, <2>1, ThreadGoes
  <2> QED
    BY <1>1, <2>1, <2>2, ThreadMoves DEF Hears, Ending
<1>4. CASE StreamStops
  BY <1>4, StopKeeps DEF StreamStops, routeVars, captureVars
<1>5. CASE Writes \/ WriterEnds
  <2>1. /\ UNCHANGED <<defaults, record, wish, leftover, job, service, capture>>
        /\ thread' = thread \/ thread' = [thread EXCEPT !.stop = TRUE]
    BY <1>5 DEF Writes, WriterEnds, routeVars, captureVars
  <2>2. Thread(thread') /\ thread'.at = thread.at /\ thread'.then = thread.then
    BY <1>1, <2>1, ThreadStops
  <2>3. RouteOnRecord' /\ Apart'
    BY <2>1, <2>2 DEF RouteInv, RouteOnRecord, Apart, Hears, Ending
  <2> QED
    BY <1>1, <2>1, <2>2, <2>3, JobKept
<1> QED
  BY <1>2, <1>3, <1>4, <1>5

LEMMA WorkerStartsKeeps ==
  ASSUME RouteInv, WorkerStarts
  PROVE  RouteInv'
<1>1. /\ UNCHANGED <<defaults, record, wish, leftover, job, service>>
      /\ service = "running" /\ thread' = Over("poll") /\ capture' = NewCapture
  BY DEF WorkerStarts, routeVars
<1>2. Thread(thread') /\ thread'.at = "poll"
  BY <1>1 DEF Over, Thread
<1>3. Captured(capture') /\ ~capture'.route /\ ~capture'.stream
  BY <1>1, CaptureNew
<1>4. RouteOnRecord' /\ Apart'
  BY <1>1, <1>2, <1>3 DEF RouteOnRecord, Apart, Hears
<1> QED
  BY <1>1, <1>2, <1>3, <1>4, JobKept

(* The service dies with its worker, or before it.                         *)
LEMMA ServiceDiesKeeps ==
  ASSUME RouteInv, ServiceDies
  PROVE  RouteInv'
<1>1. CASE Gone /\ Does(Idle)
  BY <1>1, ServiceWorks DEF ServiceDies, Gone, Does, captureVars
<1>2. CASE /\ thread.at # "gone" /\ job' = job
           /\ thread' = [thread EXCEPT !.stop = TRUE, !.over = TRUE]
  BY <1>2, StopKeeps DEF ServiceDies, captureVars
<1> QED
  BY <1>1, <1>2 DEF ServiceDies

LEMMA RestKeeps ==
  ASSUME RouteInv,
         \/ SwitchUser \/ ServiceTakes \/ UNCHANGED vars
  PROVE  RouteInv'
<1>1. UNCHANGED <<defaults, record, wish, leftover, job, service, capture, thread>>
  BY DEF SwitchUser, ServiceTakes, vars, routeVars, captureVars
<1> QED
  BY <1>1 DEF RouteInv, Typed, OnRecord, JobOnRecord, RouteOnRecord, Apart, Hears, Ending

-------------------------------------------------------------------------------

LEMMA RouteAtFirst == Init => RouteInv
<1> SUFFICES ASSUME Init PROVE RouteInv
  OBVIOUS
<1>1. /\ wish \in Known /\ defaults = wish /\ record = NoRecord /\ leftover = FALSE
      /\ job = Idle /\ thread = Over("gone") /\ capture = NewCapture /\ service = "down"
  BY RouteAssumption DEF Init, RouteInit, Known
<1>2. Typed
  BY <1>1, IdleJob, ThreadGone, CaptureNew DEF Typed
<1>3. OnRecord /\ JobOnRecord
  BY <1>1, IdleJob DEF OnRecord, JobOnRecord, Applying, Undoing
<1>4. RouteOnRecord /\ Apart
  BY <1>1, ThreadGone DEF RouteOnRecord, Apart
<1> QED
  BY <1>2, <1>3, <1>4 DEF RouteInv

LEMMA RouteKept == RouteInv /\ [Next]_vars => RouteInv'
<1> SUFFICES ASSUME RouteInv, [Next]_vars PROVE RouteInv'
  OBVIOUS
<1> QED
  BY EnvironmentKeeps, ServiceKeeps, ServiceDiesKeeps, RestKeeps, WorkerStartsKeeps,
     WorkerKeeps, FindsCableKeeps, ActivatesKeeps, OpensKeeps, RouteDroppedKeeps,
     ReadFailsKeeps, ReadsBufferKeeps, StopsKeeps
     DEF Next

(* A default that is the cable against the user's wish is on record, and   *)
(* the record has what was before: the route can be undone at every point, *)
(* as long as no route was activated over a record that nobody could undo. *)
THEOREM UndoableAlways == Spec => []Undoable
<1>1. RouteInv => Undoable
  BY DEF RouteInv, OnRecord, Undoable
<1> QED
  BY <1>1, RouteAtFirst, RouteKept, PTL DEF Spec
-------------------------------------------------------------------------------
(* That a packet tells the truth about its samples.                        *)

Sample == [at : Int, epoch : Nat]
Statuses == {"waiting", "active", "unavailable", "stopped", "failed"}
Events ==
  [is : {"packet"}, gen : Nat, seq : Nat, at : Int, samples : Seq(Sample)]
    \union [is : {"state"}, gen : Nat, status : Statuses]
TrueEvents == {e \in Events : e.is = "packet" => True(e)}

(* The position of the next packet of an encoder.                          *)
NextOf(e) == IF e.submitted = 0 THEN 0 ELSE e.submitted - Delay

Entries == Nat \X Int   \* position and time

(* Every entry of a timeline gives the times of the samples from its       *)
(* position up to that of the next entry.                                  *)
Timed(timeline, said) ==
  /\ timeline \in Seq(Entries) /\ timeline # <<>>
  /\ \A i \in DOMAIN timeline : timeline[i][1] < Len(said)
  /\ \A i \in DOMAIN timeline : i > 1 => timeline[i - 1][1] < timeline[i][1]
  /\ \A i \in DOMAIN timeline : \A k \in timeline[i][1] .. Len(said) - 1 :
       (i < Len(timeline) => k < timeline[i + 1][1]) =>
         said[k + 1].at = timeline[i][2] + k - timeline[i][1]

(* It begins with the entry that a position belongs to.                    *)
BeginsAt(timeline, position) ==
  /\ timeline[1][1] <= position
  /\ Len(timeline) > 1 => position < timeline[2][1]

EncoderTyped(e) ==
  /\ DOMAIN e = {"pending", "submitted", "timeline", "last", "said"}
  /\ e.pending \in Nat /\ e.submitted \in Nat /\ e.last \in Int
  /\ e.said \in Seq(Sample) /\ Len(e.said) = e.submitted + e.pending

(* An encoder within a buffer, and between two.                            *)
Coherent(e) ==
  EncoderTyped(e) /\ Timed(e.timeline, e.said) /\ BeginsAt(e.timeline, NextOf(e))
Sounding(e) == Coherent(e) /\ e.pending < Frame

FlowTyped(f) ==
  /\ DOMAIN f = {"input", "reset", "gen", "seq", "status"}
  /\ f.input \in BOOLEAN /\ f.reset \in BOOLEAN /\ f.gen \in Nat /\ f.seq \in Nat

SoundTyped ==
  /\ sound \in [time : Nat \ {0}, epoch : Nat]
  /\ FlowTyped(flow)
  /\ queue \in Seq(TrueEvents)
  /\ capture.last \in Int

Uninterrupted ==
  /\ ~flow.input => encoder = NewEncoder
  /\ flow.input /\ ~capture.broken =>
       /\ Sounding(encoder) /\ encoder.last = capture.last
       /\ \A i \in DOMAIN encoder.said : encoder.said[i].epoch = sound.epoch

(* A device is opened only where the capture has begun anew.               *)
OpensAnew ==
  thread.at = "activate" \/ (thread.at = "routing" /\ thread.then \in {"open", "activate"})
    => capture.broken

SoundInv == SoundTyped /\ Uninterrupted /\ OpensAnew /\ thread.why # "encoder"
-------------------------------------------------------------------------------
(* Lemmas on timelines and encoders.                                       *)

LEMMA TailOf ==
  ASSUME NEW timeline \in Seq(Entries), Len(timeline) > 1
  PROVE  /\ Tail(timeline) \in Seq(Entries) /\ Tail(timeline) # <<>>
         /\ Len(Tail(timeline)) = Len(timeline) - 1
         /\ \A i \in 1 .. Len(timeline) - 1 : Tail(timeline)[i] = timeline[i + 1]
<1>1. timeline # <<>> /\ Len(timeline) \in Nat
  OBVIOUS
<1>2. /\ Tail(timeline) \in Seq(Entries) /\ Len(Tail(timeline)) = Len(timeline) - 1
      /\ \A i \in 1 .. Len(Tail(timeline)) : Tail(timeline)[i] = timeline[i + 1]
  BY <1>1, HeadTailProperties
<1>3. Len(<<>>) = 0 /\ Len(Tail(timeline)) # 0
  BY <1>1, <1>2
<1>4. Tail(timeline) # <<>>
  BY <1>3, Zenon
<1> QED
  BY <1>2, <1>4

LEMMA TimedTail ==
  ASSUME NEW timeline, NEW said, Timed(timeline, said), Len(timeline) > 1
  PROVE  Timed(Tail(timeline), said)
<1> DEFINE rest == Tail(timeline)
<1>1. /\ timeline \in Seq(Entries) /\ rest \in Seq(Entries) /\ rest # <<>>
      /\ Len(rest) = Len(timeline) - 1 /\ DOMAIN rest = 1 .. Len(rest)
      /\ DOMAIN timeline = 1 .. Len(timeline) /\ Len(timeline) \in Nat
      /\ \A i \in 1 .. Len(timeline) - 1 : rest[i] = timeline[i + 1]
  <2>1. timeline \in Seq(Entries) /\ Len(timeline) \in Nat /\ DOMAIN timeline = 1 .. Len(timeline)
    BY DEF Timed
  <2>2. /\ rest \in Seq(Entries) /\ rest # <<>> /\ Len(rest) = Len(timeline) - 1
        /\ \A i \in 1 .. Len(timeline) - 1 : rest[i] = timeline[i + 1]
    BY <2>1, TailOf
  <2>3. DOMAIN rest = 1 .. Len(rest)
    BY <2>2
  <2> QED
    BY <2>1, <2>2, <2>3
<1> HIDE DEF rest
<1>2. \A i \in DOMAIN rest : i + 1 \in DOMAIN timeline /\ rest[i] = timeline[i + 1] /\ i \in Nat /\ i >= 1
  BY <1>1
<1>3. \A i \in DOMAIN rest : rest[i][1] < Len(said)
  BY <1>2 DEF Timed
<1>4. \A i \in DOMAIN rest : i > 1 => rest[i - 1][1] < rest[i][1]
  <2> SUFFICES ASSUME NEW i \in DOMAIN rest, i > 1 PROVE rest[i - 1][1] < rest[i][1]
    OBVIOUS
  <2>1. rest[i] = timeline[i + 1] /\ i + 1 \in DOMAIN timeline /\ rest[i - 1] = timeline[i]
    BY <1>1, <1>2
  <2>2. i + 1 > 1 /\ (i + 1) - 1 = i
    BY <1>2
  <2>3. timeline[(i + 1) - 1][1] < timeline[i + 1][1]
    BY <2>1, <2>2 DEF Timed
  <2> QED
    BY <2>1, <2>2, <2>3
<1>5. ASSUME NEW i \in DOMAIN rest, NEW k \in rest[i][1] .. Len(said) - 1,
             i < Len(rest) => k < rest[i + 1][1]
      PROVE  said[k + 1].at = rest[i][2] + k - rest[i][1]
  <2>1. i + 1 \in DOMAIN timeline /\ rest[i] = timeline[i + 1] /\ i \in Nat
    BY <1>2
  <2>2. i + 1 < Len(timeline) => k < timeline[(i + 1) + 1][1]
    <3> SUFFICES ASSUME i + 1 < Len(timeline) PROVE k < timeline[(i + 1) + 1][1]
      OBVIOUS
    <3>1. i < Len(rest) /\ i + 1 \in DOMAIN rest
      BY <1>1, <1>2, <2>1
    <3> QED
      BY <1>2, <1>5, <3>1
  <2>3. k \in timeline[i + 1][1] .. Len(said) - 1
    BY <2>1
  <2> QED
    BY <2>1, <2>2, <2>3 DEF Timed
<1> QED
  BY <1>1, <1>3, <1>4, <1>5 DEF Timed, rest

LEMMA TimedNeeded ==
  ASSUME NEW timeline, NEW said, Timed(timeline, said), NEW position
  PROVE  Timed(StillNeeded(timeline, position), said)
<1>1. CASE Len(timeline) > 1 /\ timeline[2][1] <= position
  BY <1>1, TimedTail DEF StillNeeded
<1>2. CASE ~(Len(timeline) > 1 /\ timeline[2][1] <= position)
  BY <1>2 DEF StillNeeded
<1> QED
  BY <1>1, <1>2

LEMMA Places ==
  ASSUME NEW timeline, NEW said, Timed(timeline, said)
  PROVE  /\ Len(timeline) \in Nat /\ Len(timeline) >= 1 /\ DOMAIN timeline = 1 .. Len(timeline)
         /\ timeline[1][1] \in Nat /\ timeline[1][2] \in Int
         /\ Len(timeline) > 1 => timeline[2][1] \in Nat /\ timeline[1][1] < timeline[2][1]
         /\ Len(timeline) > 2 => timeline[3][1] \in Nat /\ timeline[2][1] < timeline[3][1]
         /\ Len(timeline) > 3 => timeline[4][1] \in Nat /\ timeline[3][1] < timeline[4][1]
<1>1. /\ timeline \in Seq(Entries) /\ Len(timeline) \in Nat /\ Len(timeline) >= 1
      /\ DOMAIN timeline = 1 .. Len(timeline)
  BY DEF Timed
<1>2. \A i \in 1 .. Len(timeline) : timeline[i] \in Nat \X Int
  BY <1>1 DEF Entries
<1>3. \A i \in 1 .. Len(timeline) : timeline[i][1] \in Nat /\ timeline[i][2] \in Int
  BY <1>2
<1>4. \A i \in 1 .. Len(timeline) : i > 1 => timeline[i - 1][1] < timeline[i][1]
  BY <1>1 DEF Timed
<1>5. Len(timeline) > 1 => timeline[2][1] \in Nat /\ timeline[1][1] < timeline[2][1]
  BY <1>1, <1>3, <1>4
<1>6. Len(timeline) > 2 => timeline[3][1] \in Nat /\ timeline[2][1] < timeline[3][1]
  BY <1>1, <1>3, <1>4
<1>7. Len(timeline) > 3 => timeline[4][1] \in Nat /\ timeline[3][1] < timeline[4][1]
  BY <1>1, <1>3, <1>4
<1> QED
  BY <1>1, <1>3, <1>5, <1>6, <1>7

(* A packet moves the encoder on by two positions at most, over which two  *)
(* entries can have passed.                                                *)
LEMMA NeededBegins ==
  ASSUME NEW timeline, NEW said, Timed(timeline, said),
         NEW from \in Nat, NEW to \in from .. from + Frame, BeginsAt(timeline, from)
  PROVE  BeginsAt(StillNeeded(StillNeeded(timeline, to), to), to)
<1>1. CASE ~(Len(timeline) > 1 /\ timeline[2][1] <= to)
  <2>1. StillNeeded(StillNeeded(timeline, to), to) = timeline
    BY <1>1 DEF StillNeeded
  <2> QED
    BY <1>1, <2>1, Places DEF BeginsAt
<1>2. CASE Len(timeline) > 1 /\ timeline[2][1] <= to
  <2> DEFINE rest == Tail(timeline)
  <2>1. /\ StillNeeded(timeline, to) = rest /\ Timed(rest, said) /\ Len(rest) = Len(timeline) - 1
        /\ \A i \in 1 .. Len(timeline) - 1 : rest[i] = timeline[i + 1]
    <3>1. timeline \in Seq(Entries) /\ Timed(rest, said)
      BY <1>2, TimedTail DEF Timed
    <3> QED
      BY <1>2, <3>1, TailOf DEF StillNeeded
  <2> HIDE DEF rest
  <2>2. rest[1] = timeline[2]
    BY <1>2, <2>1, Places
  <2>3. Len(rest) > 1 => rest[2] = timeline[3] /\ Len(timeline) > 2
    BY <2>1, Places
  <2>4. from < timeline[2][1]
    BY <1>2 DEF BeginsAt
  <2>5. CASE ~(Len(rest) > 1 /\ rest[2][1] <= to)
    <3>1. StillNeeded(rest, to) = rest
      BY <2>5 DEF StillNeeded
    <3>2. rest[1][1] <= to
      BY <1>2, <2>2
    <3>3. Len(rest) > 1 => to < rest[2][1]
      BY <2>1, <2>5, Places
    <3> QED
      BY <2>1, <3>1, <3>2, <3>3 DEF BeginsAt
  <2>6. CASE Len(rest) > 1 /\ rest[2][1] <= to
    <3> DEFINE last == Tail(rest)
    <3>1. /\ StillNeeded(rest, to) = last /\ Len(last) = Len(rest) - 1
          /\ \A i \in 1 .. Len(rest) - 1 : last[i] = rest[i + 1]
      <4>1. rest \in Seq(Entries)
        BY <2>1 DEF Timed
      <4> QED
        BY <2>6, <4>1, TailOf DEF StillNeeded
    <3> HIDE DEF last
    <3>2. last[1] = rest[2]
      BY <2>6, <3>1, <2>1, Places
    <3>3. Len(last) > 1 => to < last[2][1]
      <4> SUFFICES ASSUME Len(last) > 1 PROVE to < last[2][1]
        OBVIOUS
      <4>1. last[2] = rest[3] /\ Len(rest) > 2
        BY <2>1, <3>1, Places
      <4>2. rest[3] = timeline[4] /\ Len(timeline) > 3
        BY <2>1, <4>1, Places
      <4>3. from < timeline[2][1] /\ timeline[2][1] < timeline[3][1] /\ timeline[3][1] < timeline[4][1]
            /\ timeline[2][1] \in Nat /\ timeline[3][1] \in Nat /\ timeline[4][1] \in Nat
        BY <1>2, <2>4, <4>2, Places
      <4> QED
        BY <4>1, <4>2, <4>3 DEF Frame
    <3> QED
      BY <2>1, <2>6, <3>1, <3>2, <3>3 DEF BeginsAt
  <2> QED
    BY <2>5, <2>6
<1> QED
  BY <1>1, <1>2

(* What is needed already stays as it is.                                  *)
LEMMA NeededIdle ==
  ASSUME NEW timeline, NEW said, Timed(timeline, said), NEW position \in Nat, BeginsAt(timeline, position)
  PROVE  StillNeeded(StillNeeded(timeline, position), position) = timeline
<1>1. ~(Len(timeline) > 1 /\ timeline[2][1] <= position)
  BY Places DEF BeginsAt
<1> QED
  BY <1>1 DEF StillNeeded

(* The times of a buffer that follows what was heard are those of its      *)
(* entry.                                                                  *)
LEMMA BufferHeard ==
  ASSUME NEW n \in 1..Frame, NEW time \in Int, NEW epoch \in Nat
  PROVE  /\ Buffer(n, time, epoch) \in Seq(Sample) /\ Len(Buffer(n, time, epoch)) = n
         /\ \A i \in 1..n : /\ Buffer(n, time, epoch)[i].at = time + i - 1
                            /\ Buffer(n, time, epoch)[i].epoch = epoch
<1>1. n \in Nat
  BY DEF Frame
<1>2. \A i \in 1..n : [at |-> time + i - 1, epoch |-> epoch] \in Sample
  BY <1>1 DEF Sample
<1>3. /\ Buffer(n, time, epoch) \in [1..n -> Sample]
      /\ \A i \in 1..n : Buffer(n, time, epoch)[i] = [at |-> time + i - 1, epoch |-> epoch]
  BY <1>2 DEF Buffer
<1>4. Buffer(n, time, epoch) \in Seq(Sample)
  BY <1>1, <1>3
<1>5. Len(Buffer(n, time, epoch)) = n
  BY <1>1, <1>3, <1>4
<1> QED
  BY <1>3, <1>4, <1>5

(* What is heard next.                                                     *)
Longer(said, time, buffer, all) ==
  /\ said \in Seq(Sample) /\ all \in Seq(Sample)
  /\ Len(buffer) \in 1..Frame /\ Len(all) = Len(said) + Len(buffer)
  /\ \A i \in 1 .. Len(said) : all[i] = said[i]
  /\ \A i \in 1 .. Len(buffer) : all[Len(said) + i].at = time + i - 1

LEMMA LongerThen ==
  ASSUME NEW said \in Seq(Sample), NEW n \in 1..Frame, NEW time \in Int, NEW epoch \in Nat
  PROVE  LET all == said \o Buffer(n, time, epoch)
         IN  /\ Longer(said, time, Buffer(n, time, epoch), all)
             /\ Len(Buffer(n, time, epoch)) = n
             /\ (\A i \in DOMAIN said : said[i].epoch = epoch) => \A i \in DOMAIN all : all[i].epoch = epoch
<1> DEFINE buffer == Buffer(n, time, epoch)
           all == said \o buffer
<1>1. n \in Nat
  BY DEF Frame
<1>2. /\ buffer \in Seq(Sample) /\ Len(buffer) = n
      /\ \A i \in 1..n : buffer[i].at = time + i - 1 /\ buffer[i].epoch = epoch
  BY BufferHeard
<1> HIDE DEF buffer
<1>3. Len(said) \in Nat /\ DOMAIN said = 1 .. Len(said)
  OBVIOUS
<1>4. /\ all \in Seq(Sample) /\ Len(all) = Len(said) + n
      /\ \A i \in 1 .. Len(said) + n : all[i] = IF i <= Len(said) THEN said[i] ELSE buffer[i - Len(said)]
  BY <1>2, ConcatProperties
<1> HIDE DEF all
<1>5. DOMAIN all = 1 .. Len(said) + n
  BY <1>1, <1>3, <1>4
<1>6. \A i \in 1 .. Len(said) : all[i] = said[i]
  BY <1>1, <1>3, <1>4
<1>7. \A i \in 1 .. n : all[Len(said) + i] = buffer[i]
  <2> SUFFICES ASSUME NEW i \in 1..n PROVE all[Len(said) + i] = buffer[i]
    OBVIOUS
  <2>1. Len(said) + i \in 1 .. Len(said) + n /\ ~(Len(said) + i <= Len(said)) /\ (Len(said) + i) - Len(said) = i
    BY <1>1, <1>3
  <2> QED
    BY <1>4, <2>1
<1>8. Longer(said, time, buffer, all)
  BY <1>2, <1>3, <1>4, <1>6, <1>7 DEF Longer
<1>9. ASSUME \A i \in DOMAIN said : said[i].epoch = epoch, NEW i \in DOMAIN all
      PROVE  all[i].epoch = epoch
  <2>1. i \in 1 .. Len(said) + n /\ DOMAIN said = 1 .. Len(said)
    BY <1>3, <1>5
  <2>2. CASE i <= Len(said)
    BY <1>4, <1>9, <2>1, <2>2
  <2>3. CASE ~(i <= Len(said))
    <3>1. i - Len(said) \in 1..n /\ all[i] = buffer[i - Len(said)]
      BY <1>1, <1>3, <1>4, <2>1, <2>3
    <3> QED
      BY <1>2, <3>1
  <2> QED
    BY <2>2, <2>3
<1> QED
  BY <1>2, <1>8, <1>9 DEF buffer, all

LEMMA TimedFirst ==
  ASSUME NEW time \in Int, NEW buffer, NEW all, Longer(<<>>, time, buffer, all)
  PROVE  LET timeline == Append(<<>>, <<0, time>>)
         IN  Timed(timeline, all) /\ BeginsAt(timeline, 0)
<1> DEFINE timeline == Append(<<>>, <<0, time>>)
<1>1. <<0, time>> \in Entries /\ <<>> \in Seq(Entries)
  BY DEF Entries
<1>2. /\ timeline \in Seq(Entries) /\ timeline # <<>> /\ Len(timeline) = 1
      /\ timeline[1] = <<0, time>> /\ DOMAIN timeline = {1}
  BY <1>1
<1> HIDE DEF timeline
<1>3. timeline[1][1] = 0 /\ timeline[1][2] = time
  BY <1>2
<1>4. /\ Len(all) = Len(buffer) /\ Len(buffer) \in 1..Frame
      /\ \A i \in 1 .. Len(buffer) : all[i].at = time + i - 1
  BY DEF Longer, Frame
<1>5. ASSUME NEW k \in 0 .. Len(all) - 1
      PROVE  all[k + 1].at = time + k
  <2>1. k + 1 \in 1 .. Len(buffer) /\ (k + 1) - 1 = k /\ time + (k + 1) - 1 = time + k
    BY <1>4 DEF Frame
  <2> QED
    BY <1>4, <2>1
<1>6. \A i \in DOMAIN timeline : timeline[i][1] < Len(all)
  BY <1>2, <1>3, <1>4 DEF Frame
<1>7. \A i \in DOMAIN timeline : \A k \in timeline[i][1] .. Len(all) - 1 :
        all[k + 1].at = timeline[i][2] + k - timeline[i][1]
  BY <1>2, <1>3, <1>5
<1>8. Timed(timeline, all)
  BY <1>2, <1>6, <1>7 DEF Timed
<1>9. BeginsAt(timeline, 0)
  BY <1>2, <1>3 DEF BeginsAt
<1> QED
  BY <1>8, <1>9 DEF timeline

LEMMA TimedNext ==
  ASSUME NEW timeline, NEW said, NEW time \in Int, NEW buffer, NEW all,
         Timed(timeline, said), Longer(said, time, buffer, all),
         NEW position \in Nat, position < Len(said), BeginsAt(timeline, position)
  PROVE  LET longer == Append(timeline, <<Len(said), time>>)
         IN  Timed(longer, all) /\ BeginsAt(longer, position)
<1> DEFINE longer == Append(timeline, <<Len(said), time>>)
           m == Len(timeline)
<1>1. /\ timeline \in Seq(Entries) /\ m \in Nat /\ m >= 1 /\ DOMAIN timeline = 1..m
      /\ Len(said) \in Nat /\ <<Len(said), time>> \in Entries
  BY Places DEF Timed, Longer, Entries
<1>2. /\ longer \in Seq(Entries) /\ longer # <<>> /\ Len(longer) = m + 1
      /\ \A i \in 1..m : longer[i] = timeline[i]
      /\ longer[m + 1] = <<Len(said), time>>
  BY <1>1, AppendProperties
<1>3. DOMAIN longer = 1 .. m + 1
  BY <1>2
<1> HIDE DEF longer, m
<1>4. longer[m + 1][1] = Len(said) /\ longer[m + 1][2] = time
  BY <1>2
<1>5. /\ Len(buffer) \in 1..Frame /\ Len(all) = Len(said) + Len(buffer)
      /\ \A i \in 1 .. Len(said) : all[i] = said[i]
      /\ \A i \in 1 .. Len(buffer) : all[Len(said) + i].at = time + i - 1
  BY DEF Longer
<1>6. Len(buffer) \in Nat /\ Len(buffer) >= 1 /\ Len(all) \in Nat /\ Len(all) > Len(said)
  <2>1. Len(buffer) \in 1..2 /\ Len(all) = Len(said) + Len(buffer) /\ Len(said) \in Nat
    BY <1>1, <1>5 DEF Frame
  <2>2. \A b \in 1..2, s \in Nat : b \in Nat /\ b >= 1 /\ s + b \in Nat /\ s + b > s
    OBVIOUS
  <2> HIDE DEF m
  <2> QED
    BY ONLY <2>1, <2>2
<1>7. \A i \in 1..m : timeline[i][1] \in Nat /\ timeline[i][2] \in Int /\ timeline[i][1] < Len(said)
  <2>1. \A i \in 1..m : timeline[i] \in Nat \X Int
    BY <1>1 DEF Entries, m
  <2> QED
    BY <1>1, <2>1 DEF Timed
<1>8. \A i \in DOMAIN longer : longer[i][1] < Len(all)
  <2> SUFFICES ASSUME NEW i \in 1 .. m + 1 PROVE longer[i][1] < Len(all)
    BY <1>3
  <2>1. CASE i = m + 1
    BY <1>4, <1>6, <2>1
  <2>2. CASE i # m + 1
    <3>1. i \in 1..m
      BY <1>1, <2>2
    <3> QED
      BY <1>1, <1>2, <1>6, <1>7, <3>1
  <2> QED
    BY <2>1, <2>2
<1>9. \A i \in DOMAIN longer : i > 1 => longer[i - 1][1] < longer[i][1]
  <2> SUFFICES ASSUME NEW i \in 1 .. m + 1, i > 1 PROVE longer[i - 1][1] < longer[i][1]
    BY <1>3
  <2>1. i - 1 \in 1..m /\ longer[i - 1] = timeline[i - 1]
    BY <1>1, <1>2
  <2>2. CASE i = m + 1
    BY <1>4, <1>7, <2>1, <2>2
  <2>3. CASE i # m + 1
    <3>1. i \in 1..m /\ longer[i] = timeline[i]
      BY <1>1, <1>2, <2>3
    <3>2. timeline[i - 1][1] < timeline[i][1]
      BY <1>1, <3>1 DEF Timed
    <3> QED
      BY <2>1, <3>1, <3>2
  <2> QED
    BY <2>2, <2>3
<1>10. ASSUME NEW i \in DOMAIN longer, NEW k \in longer[i][1] .. Len(all) - 1,
              i < Len(longer) => k < longer[i + 1][1]
       PROVE  all[k + 1].at = longer[i][2] + k - longer[i][1]
  <2>1. i \in 1 .. m + 1
    BY <1>3
  <2>2. CASE i = m + 1
    <3>1. k \in Len(said) .. Len(all) - 1
      BY <1>4, <1>10, <2>2
    <3> DEFINE j == k + 1 - Len(said)
    <3>2. j \in 1 .. Len(buffer) /\ Len(said) + j = k + 1 /\ time + j - 1 = time + k - Len(said)
      BY <1>1, <1>5, <1>6, <3>1
    <3>3. all[Len(said) + j].at = time + j - 1
      BY <1>5, <3>2
    <3> QED
      BY <1>4, <2>2, <3>2, <3>3
  <2>3. CASE i # m + 1
    <3>1. i \in 1..m /\ longer[i] = timeline[i] /\ i < Len(longer)
      BY <1>1, <1>2, <2>1, <2>3
    <3>2. k \in timeline[i][1] .. Len(all) - 1 /\ k < longer[i + 1][1]
      BY <1>10, <3>1
    <3>3. timeline[i][1] \in Nat
      BY <1>7, <3>1
    <3>4. k < Len(said) /\ (i < m => k < timeline[i + 1][1])
      <4>1. CASE i = m
        BY <1>1, <1>4, <3>2, <4>1
      <4>2. CASE i # m
        <5>1. i + 1 \in 1..m /\ longer[i + 1] = timeline[i + 1]
          BY <1>1, <1>2, <3>1, <4>2
        <5>2. timeline[i + 1][1] < Len(said) /\ timeline[i + 1][1] \in Nat
          BY <1>7, <5>1
        <5> QED
          BY <1>1, <1>6, <3>2, <3>3, <5>1, <5>2
      <4> QED
        BY <4>1, <4>2
    <3>5. k \in timeline[i][1] .. Len(said) - 1 /\ k + 1 \in 1 .. Len(said)
      BY <1>1, <1>6, <3>2, <3>3, <3>4
    <3>6. said[k + 1].at = timeline[i][2] + k - timeline[i][1]
      BY <1>1, <3>1, <3>4, <3>5 DEF Timed, m
    <3> QED
      BY <1>5, <3>1, <3>5, <3>6
  <2> QED
    BY <2>2, <2>3
<1>11. Timed(longer, all)
  BY <1>2, <1>8, <1>9, <1>10 DEF Timed
<1>12. BeginsAt(longer, position)
  <2>1. longer[1] = timeline[1]
    BY <1>1, <1>2
  <2>2. position < longer[2][1]
    <3>1. CASE m = 1
      BY <1>4, <3>1
    <3>2. CASE m # 1
      <4>1. 2 \in 1..m
        BY <1>1, <3>2
      <4> QED
        BY <1>1, <1>2, <4>1 DEF BeginsAt, m
    <3> QED
      BY <3>1, <3>2
  <2> QED
    BY <2>1, <2>2 DEF BeginsAt
<1> QED
  BY <1>11, <1>12 DEF longer

(* A buffer is put behind what is waiting; an encoder that begins anew has *)
(* nothing waiting.                                                        *)
LEMMA EncoderTakes ==
  ASSUME NEW e, e = NewEncoder \/ Sounding(e),
         NEW time \in Int, NEW n \in 1..Frame, NEW epoch \in Nat
  PROVE  LET taken == TakenIn(e, time, Buffer(n, time, epoch))
         IN  /\ Coherent(taken) /\ taken.pending < 2 * Frame
             /\ taken.submitted = e.submitted /\ taken.last = time
             /\ (\A i \in DOMAIN e.said : e.said[i].epoch = epoch)
                  => \A i \in DOMAIN taken.said : taken.said[i].epoch = epoch
<1> DEFINE buffer == Buffer(n, time, epoch)
           all == e.said \o buffer
           taken == TakenIn(e, time, buffer)
<1>1. /\ DOMAIN e = {"pending", "submitted", "timeline", "last", "said"}
      /\ e.pending \in Nat /\ e.pending < Frame /\ e.submitted \in Nat
      /\ e.said \in Seq(Sample) /\ Len(e.said) = e.submitted + e.pending
  <2>1. CASE e = NewEncoder
    BY <2>1 DEF NewEncoder, Frame
  <2>2. CASE Sounding(e)
    BY <2>2 DEF Sounding, Coherent, EncoderTyped
  <2> QED
    BY <2>1, <2>2
<1>2. /\ Longer(e.said, time, buffer, all) /\ Len(buffer) = n
      /\ (\A i \in DOMAIN e.said : e.said[i].epoch = epoch) => \A i \in DOMAIN all : all[i].epoch = epoch
  BY <1>1, LongerThen
<1> HIDE DEF buffer, all
<1>3. /\ DOMAIN taken = {"pending", "submitted", "timeline", "last", "said"}
      /\ taken.timeline = Append(e.timeline, <<Len(e.said), time>>) /\ taken.said = all
      /\ taken.last = time /\ taken.submitted = e.submitted /\ taken.pending = e.pending + n
  BY <1>1, <1>2 DEF TakenIn, Received, all
<1> HIDE DEF taken
<1>4. taken.pending \in Nat /\ taken.pending < 2 * Frame /\ Len(all) = e.submitted + (e.pending + n)
  BY <1>1, <1>2, <1>3 DEF Longer, Frame
<1>5. EncoderTyped(taken)
  BY <1>1, <1>2, <1>3, <1>4 DEF EncoderTyped, Longer
<1>6. Timed(taken.timeline, taken.said) /\ BeginsAt(taken.timeline, NextOf(taken))
  <2>1. CASE e = NewEncoder
    <3>1. e.said = <<>> /\ e.timeline = <<>> /\ e.submitted = 0 /\ Len(e.said) = 0
      BY <2>1 DEF NewEncoder
    <3>2. NextOf(taken) = 0
      BY <1>3, <3>1 DEF NextOf
    <3>3. taken.timeline = Append(<<>>, <<0, time>>) /\ Longer(<<>>, time, buffer, all)
      BY <1>2, <1>3, <3>1
    <3> QED
      BY <1>3, <3>2, <3>3, TimedFirst
  <2>2. CASE Sounding(e)
    <3>1. Timed(e.timeline, e.said) /\ BeginsAt(e.timeline, NextOf(e))
      BY <2>2 DEF Sounding, Coherent
    <3>2. NextOf(taken) = NextOf(e)
      BY <1>3 DEF NextOf
    <3>3. e.timeline[1][1] \in Nat /\ e.timeline[1][1] < Len(e.said)
      <4>1. 1 \in DOMAIN e.timeline /\ e.timeline[1][1] \in Nat
        BY <3>1, Places
      <4> QED
        BY <3>1, <4>1 DEF Timed
    <3>4. NextOf(e) \in Nat /\ NextOf(e) < Len(e.said)
      BY <1>1, <3>3 DEF NextOf, Delay
    <3> QED
      BY <1>2, <1>3, <3>1, <3>2, <3>4, TimedNext
  <2> QED
    BY <2>1, <2>2
<1> QED
  BY <1>2, <1>3, <1>4, <1>5, <1>6 DEF Coherent, taken, buffer

(* A packet that is due is true, and leaves a coherent encoder behind.     *)
LEMMA PacketDue ==
  ASSUME NEW e, Coherent(e), Full(e), e.pending < 2 * Frame,
         NEW gen \in Nat, NEW seq \in Nat,
         \A i, j \in DOMAIN e.said : e.said[i].epoch = e.said[j].epoch
  PROVE  PacketAt(Submitted(e), e.submitted - Delay, gen, seq) \in TrueEvents
<1> DEFINE sent == Submitted(e)
           pts == e.submitted - Delay
           position == NextOf(e)
           samples == SubSeq(e.said, 1 + position, pts + Frame)
           packet == PacketAt(sent, pts, gen, seq)
<1>1. /\ EncoderTyped(e) /\ Timed(e.timeline, e.said) /\ BeginsAt(e.timeline, position)
      /\ e.submitted \in Nat /\ e.pending \in Nat /\ e.pending >= 2
      /\ e.said \in Seq(Sample) /\ Len(e.said) = e.submitted + e.pending
  BY DEF Coherent, EncoderTyped, Full, Frame
<1>2. /\ position \in Nat /\ position = (IF pts < 0 THEN 0 ELSE pts)
      /\ position + 1 <= pts + 2 /\ pts + 2 <= Len(e.said) /\ pts \in Int
      /\ position \in 0 .. Len(e.said) - 1
  BY <1>1 DEF NextOf, Delay
<1>3. sent.timeline = e.timeline /\ sent.said = e.said
  BY <1>1 DEF Submitted, EncoderTyped
<1>4. StillNeeded(StillNeeded(e.timeline, position), position) = e.timeline
  BY <1>1, <1>2, NeededIdle
<1>5. SamplesAt(sent, pts) = samples
  BY <1>2, <1>3 DEF SamplesAt
<1>6. packet = Packet(gen, seq, e.timeline[1][2] + position - e.timeline[1][1], samples)
  BY <1>2, <1>3, <1>4, <1>5 DEF PacketAt
<1> HIDE DEF position, samples, pts, sent, packet
<1> DEFINE first == 1 + position
           end == pts + Frame
<1>7. /\ \A i \in first .. end : e.said[i] \in Sample /\ i \in DOMAIN e.said
      /\ first \in Int /\ end \in Int /\ first <= end /\ first = position + 1
      /\ samples = SubSeq(e.said, first, end)
  BY <1>1, <1>2 DEF Frame, samples
<1> HIDE DEF first, end
<1>8. /\ samples \in Seq(Sample) /\ Len(samples) = end - first + 1
      /\ \A i \in 1 .. end - first + 1 : samples[i] = e.said[first + i - 1]
  BY <1>7, SubSeqProperties
<1>9. /\ Len(samples) \in Nat /\ Len(samples) >= 1 /\ DOMAIN samples = 1 .. Len(samples)
      /\ Head(samples) = e.said[position + 1]
  BY <1>7, <1>8
<1>10. \A i \in DOMAIN samples : \E j \in DOMAIN e.said : samples[i] = e.said[j]
  <2> SUFFICES ASSUME NEW i \in DOMAIN samples PROVE \E j \in DOMAIN e.said : samples[i] = e.said[j]
    OBVIOUS
  <2>1. samples[i] = e.said[first + i - 1]
    BY <1>8, <1>9
  <2>2. first + i - 1 \in first .. end
    BY <1>7, <1>8, <1>9
  <2> QED
    BY <1>7, <2>1, <2>2
<1>11. position + 1 \in DOMAIN e.said
  BY <1>1, <1>2
<1>12. \A i \in DOMAIN samples : samples[i].epoch = Head(samples).epoch
  BY <1>9, <1>10, <1>11
<1>13. e.said[position + 1].at = e.timeline[1][2] + position - e.timeline[1][1]
  <2>1. /\ 1 \in DOMAIN e.timeline /\ e.timeline[1][1] \in Nat
        /\ e.timeline[1][1] <= position
        /\ 1 < Len(e.timeline) => position < e.timeline[1 + 1][1]
    BY <1>1, Places DEF BeginsAt
  <2>2. position \in e.timeline[1][1] .. Len(e.said) - 1
    BY <1>1, <1>2, <2>1
  <2> QED
    BY <1>1, <2>1, <2>2 DEF Timed
<1>14. e.timeline[1][2] + position - e.timeline[1][1] \in Int
  BY <1>1, <1>2, Places
<1>15. True(packet)
  BY <1>6, <1>9, <1>12, <1>13 DEF Packet, True
<1>16. packet \in Events
  BY <1>6, <1>8, <1>14 DEF Packet, Events
<1> QED
  BY <1>15, <1>16 DEF TrueEvents, packet, sent, pts

LEMMA EncoderEmits ==
  ASSUME NEW e, Coherent(e), Full(e), e.pending < 2 * Frame
  PROVE  /\ Sounding(Emitted(Submitted(e)))
         /\ Emitted(Submitted(e)).said = e.said /\ Emitted(Submitted(e)).last = e.last
<1> DEFINE sent == Submitted(e)
           next == Emitted(sent)
           to == sent.submitted - Delay
<1>1. /\ EncoderTyped(e) /\ Timed(e.timeline, e.said) /\ BeginsAt(e.timeline, NextOf(e))
      /\ e.submitted \in Nat /\ e.pending \in Nat /\ e.pending >= 2 /\ e.pending < 4
  BY DEF Coherent, EncoderTyped, Full, Frame
<1>2. /\ DOMAIN sent = DOMAIN e /\ sent.pending = e.pending - 2 /\ sent.submitted = e.submitted + 2
      /\ sent.timeline = e.timeline /\ sent.said = e.said /\ sent.last = e.last
  BY <1>1 DEF Submitted, EncoderTyped, Frame
<1> HIDE DEF sent
<1>3. to = e.submitted + 1 /\ to \in NextOf(e) .. NextOf(e) + Frame /\ NextOf(e) \in Nat
  BY <1>1, <1>2 DEF NextOf, Delay, Frame
<1> HIDE DEF to
<1>4. /\ DOMAIN next = DOMAIN e /\ next.pending = e.pending - 2 /\ next.submitted = e.submitted + 2
      /\ next.timeline = StillNeeded(StillNeeded(e.timeline, to), to) /\ next.said = e.said /\ next.last = e.last
  BY <1>1, <1>2 DEF Emitted, EncoderTyped, to
<1> HIDE DEF next
<1>5. EncoderTyped(next) /\ next.pending < Frame
  BY <1>1, <1>4 DEF EncoderTyped, Frame
<1>6. Timed(next.timeline, next.said)
  BY <1>1, <1>4, TimedNeeded
<1>7. BeginsAt(next.timeline, to)
  BY <1>1, <1>3, <1>4, NeededBegins
<1>8. NextOf(next) = to
  BY <1>1, <1>3, <1>4 DEF NextOf, Delay
<1> QED
  BY <1>4, <1>5, <1>6, <1>7, <1>8 DEF Sounding, Coherent, next, sent

-------------------------------------------------------------------------------
(* The steps that keep packets true.                                       *)

LEMMA OneEvent ==
  ASSUME NEW S, NEW x \in S
  PROVE  <<x>> \in Seq(S)
OBVIOUS

LEMMA StateTrue ==
  ASSUME NEW gen \in Nat, NEW status \in Statuses
  PROVE  State(gen, status) \in TrueEvents /\ <<State(gen, status)>> \in Seq(TrueEvents)
<1>1. State(gen, status) \in TrueEvents
  BY DEF State, TrueEvents, Events
<1> QED
  BY <1>1, OneEvent

LEMMA PushedTrue ==
  ASSUME queue \in Seq(TrueEvents), NEW pushed \in Seq(TrueEvents)
  PROVE  Pushed(pushed) \in Seq(TrueEvents)
<1> DEFINE all == queue \o pushed
           first == Len(all) - Queue + 1
<1>1. all \in Seq(TrueEvents)
  BY ConcatProperties
<1> HIDE DEF all
<1>2. ASSUME Len(all) > Queue PROVE SubSeq(all, first, Len(all)) \in Seq(TrueEvents)
  <2>1. /\ first \in Int /\ Len(all) \in Int
        /\ \A i \in first .. Len(all) : all[i] \in TrueEvents
    BY <1>1, <1>2, AudioAssumption
  <2> HIDE DEF first
  <2> QED
    BY <2>1, SubSeqProperties
<1>3. Newest(all) \in Seq(TrueEvents)
  BY <1>1, <1>2 DEF Newest
<1> QED
  BY <1>3 DEF Pushed, all

(* Nothing is heard: what matters is that a capture that begins anew is    *)
(* known to be broken.                                                     *)
LEMMA Silent ==
  ASSUME SoundInv, UNCHANGED <<encoder, sound>>,
         flow' = flow \/ flow' = [flow EXCEPT !.reset = TRUE, !.status = "unavailable"],
         ~capture'.broken => ~capture.broken /\ capture'.last = capture.last,
         capture'.last \in Int, queue' \in Seq(TrueEvents),
         OpensAnew', thread'.why # "encoder"
  PROVE  SoundInv'
<1>1. FlowTyped(flow') /\ flow'.input = flow.input
  BY DEF SoundInv, SoundTyped, FlowTyped
<1>2. SoundTyped'
  BY <1>1 DEF SoundInv, SoundTyped
<1>3. Uninterrupted'
  BY <1>1 DEF SoundInv, Uninterrupted
<1> QED
  BY <1>2, <1>3 DEF SoundInv

LEMMA OthersSilent ==
  ASSUME SoundInv, UNCHANGED <<captureVars, queue>>, thread' = thread \/ thread' = Over("gone")
  PROVE  SoundInv'
<1>1. /\ UNCHANGED <<encoder, sound, flow, capture>> /\ capture.last \in Int
      /\ queue \in Seq(TrueEvents) /\ OpensAnew /\ thread.why # "encoder"
  BY DEF captureVars, SoundInv, SoundTyped
<1>2. OpensAnew' /\ thread'.why # "encoder"
  <2>1. CASE thread' = thread
    BY <1>1, <2>1 DEF OpensAnew
  <2>2. CASE thread' = Over("gone")
    BY <2>2 DEF OpensAnew, Over
  <2> QED
    BY <2>1, <2>2
<1> QED
  BY <1>1, <1>2, Silent

LEMMA DeathSilent ==
  ASSUME RouteInv, SoundInv,
         \/ WorkerDies \/ ServiceDies \/ WorkerGone \/ StreamStops
  PROVE  SoundInv'
<1>1. /\ UNCHANGED <<encoder, sound, flow, capture>> /\ capture.last \in Int /\ capture' = capture
      /\ queue \in Seq(TrueEvents) /\ OpensAnew /\ thread.why # "encoder" /\ Thread(thread)
  BY DEF captureVars, outVars, SoundInv, SoundTyped, WorkerDies, ServiceDies, WorkerGone, StreamStops,
     RouteInv, Typed
<1>2. /\ thread' = Over("gone") \/ thread' = [thread EXCEPT !.stop = TRUE, !.over = TRUE]
      /\ queue' = <<>> \/ queue' = queue
  BY DEF outVars, WorkerDies, ServiceDies, WorkerGone, StreamStops, Gone
<1>3. OpensAnew' /\ thread'.why # "encoder"
  <2>1. CASE thread' = Over("gone")
    BY <2>1 DEF OpensAnew, Over
  <2>2. CASE thread' = [thread EXCEPT !.stop = TRUE, !.over = TRUE]
    BY <1>1, <2>2 DEF OpensAnew, Thread
  <2> QED
    BY <1>2, <2>1, <2>2
<1>4. queue' \in Seq(TrueEvents)
  BY <1>1, <1>2, EmptySeq
<1> QED
  BY <1>1, <1>3, <1>4, Silent

LEMMA StartSilent ==
  ASSUME SoundInv, WorkerStarts
  PROVE  SoundInv'
<1>1. /\ thread' = Over("poll") /\ capture' = NewCapture /\ flow' = NewFlow /\ encoder' = NewEncoder
      /\ queue' = <<>> /\ sound' = sound
  BY DEF WorkerStarts
<1>2. SoundTyped'
  <2>1. FlowTyped(flow')
    BY <1>1 DEF FlowTyped, NewFlow
  <2>2. capture'.last \in Int
    BY <1>1 DEF NewCapture, None
  <2> QED
    BY <1>1, <2>1, <2>2, EmptySeq DEF SoundInv, SoundTyped
<1>3. Uninterrupted'
  BY <1>1 DEF Uninterrupted, NewFlow
<1>4. OpensAnew' /\ thread'.why # "encoder"
  BY <1>1 DEF OpensAnew, Over
<1> QED
  BY <1>2, <1>3, <1>4 DEF SoundInv

(* The steps of the thread between two buffers, and of its writer.         *)
LEMMA ThreadSilent ==
  ASSUME RouteInv, SoundInv,
         Unavailable \/ Looks \/ Idles \/ Finishes \/ Writes \/ WriterEnds
  PROVE  SoundInv'
<1>1. /\ capture.last \in Int /\ queue \in Seq(TrueEvents) /\ OpensAnew /\ Thread(thread)
      /\ thread.why # "encoder" /\ flow.gen \in Nat
  BY DEF SoundInv, SoundTyped, FlowTyped, RouteInv, Typed
<1>2. UNCHANGED <<encoder, sound, capture>>
  BY DEF captureVars, Unavailable, Looks, Idles, Finishes, Writes, WriterEnds
<1>3. CASE Unavailable
  <2>1. /\ flow' = [flow EXCEPT !.reset = TRUE, !.status = "unavailable"]
        /\ queue' = queue \/ queue' = Pushed(<<State(flow.gen, "unavailable")>>)
        /\ thread' = [thread EXCEPT !.at = "poll"]
    BY <1>3 DEF Unavailable, Goes
  <2>2. queue' \in Seq(TrueEvents)
    <3>1. <<State(flow.gen, "unavailable")>> \in Seq(TrueEvents)
      BY <1>1, StateTrue DEF Statuses
    <3> QED
      BY <1>1, <2>1, <3>1, PushedTrue
  <2>3. OpensAnew' /\ thread'.why # "encoder"
    BY <1>1, <2>1 DEF OpensAnew, Thread
  <2> QED
    BY <1>1, <1>2, <2>1, <2>2, <2>3, Silent
<1>4. CASE Looks \/ Idles
  <2>1. /\ flow' = flow /\ queue' = queue
        /\ \/ thread' = [thread EXCEPT !.at = "read"] \/ thread' = [thread EXCEPT !.at = "poll"]
    BY <1>4 DEF Looks, Idles, Goes, captureVars, outVars
  <2>2. OpensAnew' /\ thread'.why # "encoder"
    BY <1>1, <2>1 DEF OpensAnew, Thread
  <2> QED
    BY <1>1, <1>2, <2>1, <2>2, Silent
<1>5. CASE Finishes
  <2> DEFINE status == IF thread.why = "" THEN "stopped" ELSE "failed"
  <2>1. /\ flow' = flow /\ thread' = [thread EXCEPT !.at = "ended"]
        /\ queue' = Pushed(<<State(flow.gen, status)>>)
    BY <1>5 DEF Finishes, Goes, captureVars
  <2>2. queue' \in Seq(TrueEvents)
    <3>1. status \in Statuses
      BY DEF Statuses
    <3> HIDE DEF status
    <3>2. <<State(flow.gen, status)>> \in Seq(TrueEvents)
      BY <1>1, <3>1, StateTrue
    <3> QED
      BY <2>1, <1>1, <3>2, PushedTrue
  <2>3. OpensAnew' /\ thread'.why # "encoder"
    BY <1>1, <2>1 DEF OpensAnew, Thread
  <2> QED
    BY <1>1, <1>2, <2>1, <2>2, <2>3, Silent
<1>6. CASE Writes \/ WriterEnds
  <2>1. /\ flow' = flow
        /\ queue' = queue \/ (queue # <<>> /\ queue' = Tail(queue))
        /\ thread' = thread \/ thread' = [thread EXCEPT !.stop = TRUE]
    BY <1>6 DEF Writes, WriterEnds, captureVars
  <2>2. queue' \in Seq(TrueEvents)
    BY <1>1, <2>1
  <2>3. OpensAnew' /\ thread'.why # "encoder"
    BY <1>1, <1>2, <2>1 DEF OpensAnew, Thread
  <2> QED
    BY <1>1, <1>2, <2>1, <2>2, <2>3, Silent
<1> QED
  BY <1>3, <1>4, <1>5, <1>6

(* A capture that loses its device, or opens one, is broken.               *)
LEMMA LostIsBroken ==
  ASSUME NEW c, Captured(c)
  PROVE  /\ Lost(c).broken /\ Lost(c).last = c.last
         /\ [Lost(c) EXCEPT !.route = FALSE].broken
         /\ [Lost(c) EXCEPT !.route = FALSE].last = c.last
BY DEF Captured, Lost

LEMMA RouteSilent ==
  ASSUME RouteInv, SoundInv,
         \/ FindsCable \/ Activates \/ Opens \/ RouteDropped \/ ReadFails \/ Stops
  PROVE  SoundInv'
<1>1. /\ capture.last \in Int /\ queue \in Seq(TrueEvents) /\ OpensAnew
      /\ thread.why # "encoder" /\ Thread(thread) /\ Captured(capture)
  BY DEF SoundInv, SoundTyped, RouteInv, Typed
<1>2. UNCHANGED <<encoder, sound, flow>> /\ queue' = queue
  BY DEF captureVars, outVars, FindsCable, Activates, Opens, RouteDropped, ReadFails, Stops
<1>3. ASSUME capture'.broken, capture'.last \in Int, thread'.why # "encoder"
      PROVE  SoundInv'
  <2>1. OpensAnew'
    BY <1>3 DEF OpensAnew
  <2> QED
    BY <1>1, <1>2, <1>3, <2>1, Silent
<1>4. CASE FindsCable
  <2>1. capture' = [capture EXCEPT !.stream = FALSE, !.route = FALSE, !.opened = 0, !.broken = TRUE]
        /\ \E at, then : thread' = [thread EXCEPT !.at = at] \/ thread' = [thread EXCEPT !.at = at, !.then = then]
    BY <1>4 DEF FindsCable, DropRoute, Routes, Goes
  <2>2. capture'.broken /\ capture'.last \in Int
    BY <1>1, <2>1 DEF Captured
  <2>3. thread'.why # "encoder"
    BY <1>1, <2>1 DEF Thread
  <2> QED
    BY <1>3, <2>2, <2>3
<1>5. CASE Activates
  <2>1. capture.broken
    BY <1>1, <1>5 DEF Activates, OpensAnew
  <2>2. /\ capture' = capture \/ capture' = Lost(capture)
        /\ \/ thread' = [thread EXCEPT !.at = "routing", !.then = "open"]
           \/ thread' = [thread EXCEPT !.at = "unavailable"]
    BY <1>5 DEF Activates, Routes, Goes
  <2>3. capture'.broken /\ capture'.last \in Int
    BY <1>1, <2>1, <2>2, LostIsBroken
  <2>4. thread'.why # "encoder"
    BY <1>1, <2>2 DEF Thread
  <2> QED
    BY <1>3, <2>3, <2>4
<1>6. CASE Opens
  <2>1. capture.broken
    BY <1>1, <1>6 DEF Opens, OpensAnew
  <2>2. /\ \/ capture' = capture \/ capture' = Lost(capture)
           \/ capture' = [capture EXCEPT !.stream = TRUE, !.route = TRUE, !.opened = cable, !.last = None]
        /\ \/ thread' = [thread EXCEPT !.at = "read"]
           \/ thread' = [thread EXCEPT !.at = "routing", !.then = "unavailable"]
           \/ thread' = [thread EXCEPT !.at = "final", !.why = "failed"]
           \/ thread' = [thread EXCEPT !.at = "unavailable"]
    BY <1>6 DEF Opens, Routes, Goes
  <2>3. capture'.broken /\ capture'.last \in Int
    <3>1. CASE capture' = [capture EXCEPT !.stream = TRUE, !.route = TRUE, !.opened = cable, !.last = None]
      BY <1>1, <2>1, <3>1 DEF Captured, None
    <3> QED
      BY <1>1, <2>1, <2>2, <3>1, LostIsBroken
  <2>4. thread'.why # "encoder"
    BY <1>1, <2>2 DEF Thread
  <2> QED
    BY <1>3, <2>3, <2>4
<1>7. CASE RouteDropped
  <2>1. /\ capture' = capture /\ thread.at = "routing" /\ thread.then # "open"
        /\ thread'.at = thread.then /\ thread'.then = thread.then
        /\ thread'.why = thread.why \/ thread'.why = "failed"
    BY <1>1, <1>7 DEF RouteDropped, captureVars, Thread
  <2>2. OpensAnew'
    BY <1>1, <2>1 DEF OpensAnew
  <2> QED
    BY <1>1, <1>2, <2>1, <2>2, Silent
<1>8. CASE ReadFails
  <2>1. /\ capture' = Lost(capture) \/ capture' = [Lost(capture) EXCEPT !.route = FALSE]
        /\ \/ thread' = [thread EXCEPT !.at = "unavailable"]
           \/ thread' = [thread EXCEPT !.at = "routing", !.then = "final", !.why = "failed"]
    BY <1>8 DEF ReadFails, Goes
  <2>2. capture'.broken /\ capture'.last \in Int
    <3>1. CASE capture' = Lost(capture)
      BY <1>1, <3>1, LostIsBroken
    <3>2. CASE capture' = [Lost(capture) EXCEPT !.route = FALSE]
      BY <1>1, <3>2, LostIsBroken
    <3> QED
      BY <2>1, <3>1, <3>2
  <2>3. thread'.why # "encoder"
    BY <1>1, <2>1 DEF Thread
  <2> QED
    BY <1>3, <2>2, <2>3
<1>9. CASE Stops
  <2>1. /\ capture' = [Lost(capture) EXCEPT !.route = FALSE]
        /\ \E at, then : thread' = [thread EXCEPT !.at = at] \/ thread' = [thread EXCEPT !.at = at, !.then = then]
    BY <1>9 DEF Stops, DropRoute, Routes, Goes
  <2>2. capture'.broken /\ capture'.last \in Int
    <3>1. CASE capture' = Lost(capture)
      BY <1>1, <3>1, LostIsBroken
    <3>2. CASE capture' = [Lost(capture) EXCEPT !.route = FALSE]
      BY <1>1, <3>2, LostIsBroken
    <3> QED
      BY <2>1, <3>1, <3>2
  <2>3. thread'.why # "encoder"
    BY <1>1, <2>1 DEF Thread
  <2> QED
    BY <1>3, <2>2, <2>3
<1> QED
  BY <1>4, <1>5, <1>6, <1>7, <1>8, <1>9

(* A buffer that the capture does not believe: nothing more is said before *)
(* the encoder begins anew.                                                *)
LEMMA InvalidSounds ==
  ASSUME RouteInv, SoundInv, Invalid, sound' \in [time : Nat \ {0}, epoch : Nat]
  PROVE  SoundInv'
<1>1. /\ capture.last \in Int /\ queue \in Seq(TrueEvents) /\ FlowTyped(flow)
      /\ thread.why # "encoder" /\ Thread(thread) /\ Captured(capture)
  BY DEF SoundInv, SoundTyped, RouteInv, Typed
<1>2. /\ capture' = [capture EXCEPT !.broken = TRUE] /\ flow' = [flow EXCEPT !.reset = TRUE]
      /\ thread' = [thread EXCEPT !.at = "poll"] /\ encoder' = encoder /\ queue' = queue
  BY DEF Invalid, Goes
<1>3. capture'.broken /\ capture'.last \in Int
  BY <1>1, <1>2 DEF Captured
<1>4. FlowTyped(flow') /\ flow'.input = flow.input
  BY <1>1, <1>2 DEF FlowTyped
<1>5. thread'.why # "encoder"
  BY <1>1, <1>2 DEF Thread
<1>6. SoundTyped'
  BY <1>1, <1>2, <1>3, <1>4 DEF SoundTyped
<1>7. Uninterrupted'
  BY <1>2, <1>3, <1>4 DEF SoundInv, Uninterrupted
<1> QED
  BY <1>3, <1>5, <1>6, <1>7 DEF SoundInv, OpensAnew

(* What an encoder sends of a buffer that it takes.                        *)
Sent(e, taken, gen, seq) ==
  IF Full(taken) THEN <<PacketAt(Submitted(taken), e.submitted - Delay, gen, seq)>> ELSE <<>>
AfterTaking(taken) == IF Full(taken) THEN Emitted(Submitted(taken)) ELSE taken

LEMMA EncoderSounds ==
  ASSUME NEW e, e = NewEncoder \/ Sounding(e),
         NEW time \in Int, NEW n \in 1..Frame, NEW epoch \in Nat,
         \A i \in DOMAIN e.said : e.said[i].epoch = epoch,
         NEW gen \in Nat, NEW seq \in Nat
  PROVE  LET taken == TakenIn(e, time, Buffer(n, time, epoch))
         IN  /\ Sounding(AfterTaking(taken)) /\ AfterTaking(taken).last = time
             /\ \A i \in DOMAIN AfterTaking(taken).said : AfterTaking(taken).said[i].epoch = epoch
             /\ Sent(e, taken, gen, seq) \in Seq(TrueEvents) /\ Len(Sent(e, taken, gen, seq)) \in Nat
<1> DEFINE taken == TakenIn(e, time, Buffer(n, time, epoch))
<1>1. /\ Coherent(taken) /\ taken.pending < 2 * Frame
      /\ taken.submitted = e.submitted /\ taken.last = time
      /\ \A i \in DOMAIN taken.said : taken.said[i].epoch = epoch
  BY EncoderTakes
<1> HIDE DEF taken
<1>2. CASE Full(taken)
  <2>1. /\ Sounding(Emitted(Submitted(taken)))
        /\ Emitted(Submitted(taken)).said = taken.said /\ Emitted(Submitted(taken)).last = time
    BY <1>1, <1>2, EncoderEmits
  <2>2. \A i, j \in DOMAIN taken.said : taken.said[i].epoch = taken.said[j].epoch
    BY <1>1
  <2>3. PacketAt(Submitted(taken), taken.submitted - Delay, gen, seq) \in TrueEvents
    BY <1>1, <1>2, <2>2, PacketDue
  <2>4. Sent(e, taken, gen, seq) = <<PacketAt(Submitted(taken), taken.submitted - Delay, gen, seq)>>
    BY <1>1, <1>2 DEF Sent
  <2>5. Sent(e, taken, gen, seq) \in Seq(TrueEvents)
    BY <2>3, <2>4, OneEvent
  <2>6. AfterTaking(taken) = Emitted(Submitted(taken))
    BY <1>2 DEF AfterTaking
  <2> QED
    BY <1>1, <2>1, <2>5, <2>6, LenProperties DEF taken
<1>3. CASE ~Full(taken)
  <2>1. AfterTaking(taken) = taken /\ Sent(e, taken, gen, seq) = <<>>
    BY <1>3 DEF AfterTaking, Sent
  <2>2. Sounding(taken)
    BY <1>1, <1>3 DEF Sounding, Full, Coherent, EncoderTyped, Frame
  <2> QED
    BY <1>1, <2>1, <2>2, EmptySeq DEF taken
<1> QED
  BY <1>2, <1>3

(* The encoder that a buffer finds is a new one, or it is in step with the *)
(* capture and with the sound.  It refuses neither.                        *)
LEMMA EncoderFound ==
  ASSUME SoundInv, NEW time \in Int, NEW flag \in BOOLEAN, NEW epoch,
         ~(capture.last # None /\ time <= capture.last),
         ~flag => ~capture.broken /\ epoch = sound.epoch
  PROVE  LET e == IF Resets(flag) THEN NewEncoder ELSE encoder
         IN  /\ e = NewEncoder \/ Sounding(e)
             /\ \A i \in DOMAIN e.said : e.said[i].epoch = epoch
             /\ ~Refuses(e, time)
<1>1. CASE Resets(flag) \/ ~flow.input
  <2>1. (IF Resets(flag) THEN NewEncoder ELSE encoder) = NewEncoder
    BY <1>1 DEF SoundInv, Uninterrupted
  <2>2. NewEncoder.said = <<>> /\ ~Refuses(NewEncoder, time)
    BY DEF NewEncoder, Refuses
  <2> QED
    BY <2>1, <2>2
<1>2. CASE ~Resets(flag) /\ flow.input
  <2>1. ~flag
    BY <1>2 DEF Resets
  <2>2. /\ Sounding(encoder) /\ encoder.last = capture.last
        /\ \A i \in DOMAIN encoder.said : encoder.said[i].epoch = epoch
    BY <1>2, <2>1 DEF SoundInv, Uninterrupted
  <2>3. ~Refuses(encoder, time)
    BY <2>2 DEF Refuses
  <2> QED
    BY <1>2, <2>2, <2>3
<1> QED
  BY <1>1, <1>2

LEMMA EncodesSounds ==
  ASSUME RouteInv, SoundInv, NEW time \in Int, NEW n \in 1..Frame, NEW epoch \in Nat,
         NEW flag \in BOOLEAN, Encodes(time, Buffer(n, time, epoch), flag),
         ~(capture.last # None /\ time <= capture.last),
         ~flag => ~capture.broken /\ epoch = sound.epoch,
         sound' \in [time : Nat \ {0}, epoch : Nat], sound'.epoch = epoch
  PROVE  SoundInv'
<1> DEFINE e == IF Resets(flag) THEN NewEncoder ELSE encoder
           gen == IF Resets(flag) THEN flow.gen + 1 ELSE flow.gen
           seq == IF Resets(flag) THEN 0 ELSE flow.seq
           taken == TakenIn(e, time, Buffer(n, time, epoch))
           states == IF flow.status # "active" THEN <<State(gen, "active")>> ELSE <<>>
<1>1. /\ capture.last \in Int /\ queue \in Seq(TrueEvents) /\ FlowTyped(flow)
      /\ thread.why # "encoder" /\ Thread(thread) /\ Captured(capture)
  BY DEF SoundInv, SoundTyped, RouteInv, Typed
<1>2. gen \in Nat /\ seq \in Nat
  BY <1>1 DEF FlowTyped
<1>3. /\ e = NewEncoder \/ Sounding(e)
      /\ \A i \in DOMAIN e.said : e.said[i].epoch = epoch
      /\ ~Refuses(e, time)
  BY EncoderFound
<1>4. /\ encoder' = AfterTaking(taken)
      /\ flow' = [input |-> TRUE, reset |-> FALSE, gen |-> gen,
                  seq |-> seq + Len(Sent(e, taken, gen, seq)), status |-> "active"]
      /\ capture' = [capture EXCEPT !.broken = FALSE, !.last = time]
      /\ queue' = Pushed(Sent(e, taken, gen, seq) \o states)
      /\ thread' = [thread EXCEPT !.at = "poll"]
  BY <1>3 DEF Encodes, AfterTaking, Sent, Goes
<1> HIDE DEF gen, seq
<1>5. states \in Seq(TrueEvents)
  <2>1. <<State(gen, "active")>> \in Seq(TrueEvents)
    BY <1>2, StateTrue DEF Statuses
  <2> QED
    BY <2>1, EmptySeq
<1> HIDE DEF e, states
<1>6. /\ Sounding(AfterTaking(taken)) /\ AfterTaking(taken).last = time
      /\ \A i \in DOMAIN AfterTaking(taken).said : AfterTaking(taken).said[i].epoch = epoch
      /\ Sent(e, taken, gen, seq) \in Seq(TrueEvents) /\ Len(Sent(e, taken, gen, seq)) \in Nat
  BY <1>2, <1>3, EncoderSounds
<1> HIDE DEF taken
<1>7. queue' \in Seq(TrueEvents)
  <2>1. Sent(e, taken, gen, seq) \o states \in Seq(TrueEvents)
    BY <1>5, <1>6, ConcatProperties
  <2> QED
    BY <1>1, <1>4, <2>1, PushedTrue
<1>8. FlowTyped(flow')
  BY <1>2, <1>4, <1>6 DEF FlowTyped
<1>9. capture'.last = time
  BY <1>1, <1>4 DEF Captured
<1>10. thread'.at = "poll" /\ thread'.why # "encoder"
  BY <1>1, <1>4 DEF Thread
<1>11. SoundTyped'
  BY <1>7, <1>8, <1>9 DEF SoundTyped
<1>12. Uninterrupted'
  <2>1. flow'.input
    BY <1>4
  <2> QED
    BY <1>4, <1>6, <1>9, <2>1 DEF Uninterrupted
<1> QED
  BY <1>10, <1>11, <1>12 DEF SoundInv, OpensAnew

LEMMA BufferSounds ==
  ASSUME RouteInv, SoundInv, ReadsBuffer
  PROVE  SoundInv'
<1>1. PICK n \in 1..Frame, drift \in {-1, 0}, glitch \in {"none", "flag", "error"} :
        LET time == sound.time + drift
            epoch == IF glitch = "none" /\ ~capture.broken THEN sound.epoch ELSE sound.epoch + 1
            bad == glitch = "error" \/ (capture.last # None /\ time <= capture.last)
        IN  /\ sound' = [time |-> time + n, epoch |-> IF bad THEN sound.epoch + 1 ELSE epoch]
            /\ IF bad THEN Invalid
               ELSE Encodes(time, Buffer(n, time, epoch), glitch = "flag" \/ capture.broken)
  BY DEF ReadsBuffer
<1> DEFINE time == sound.time + drift
           epoch == IF glitch = "none" /\ ~capture.broken THEN sound.epoch ELSE sound.epoch + 1
           bad == glitch = "error" \/ (capture.last # None /\ time <= capture.last)
           flag == glitch = "flag" \/ capture.broken
<1>2. sound.time \in Nat /\ sound.time >= 1 /\ sound.epoch \in Nat /\ n \in Nat /\ n >= 1
  BY DEF SoundInv, SoundTyped, Frame
<1>3. time \in Int /\ time + n \in Nat \ {0} /\ epoch \in Nat /\ flag \in BOOLEAN
  BY <1>2
<1>4. sound' = [time |-> time + n, epoch |-> IF bad THEN sound.epoch + 1 ELSE epoch]
  BY <1>1
<1>5. sound' \in [time : Nat \ {0}, epoch : Nat]
  BY <1>2, <1>3, <1>4
<1>6. CASE bad
  BY <1>1, <1>5, <1>6, InvalidSounds
<1>7. CASE ~bad
  <2>1. Encodes(time, Buffer(n, time, epoch), flag)
    BY <1>1, <1>7
  <2>2. ~(capture.last # None /\ time <= capture.last)
    BY <1>7
  <2>3. ~flag => ~capture.broken /\ epoch = sound.epoch
    BY <1>7
  <2>4. sound'.epoch = epoch
    BY <1>4, <1>7
  <2> HIDE DEF time, epoch, flag
  <2> QED
    BY <1>3, <1>5, <2>1, <2>2, <2>3, <2>4, EncodesSounds
<1> QED
  BY <1>6, <1>7

LEMMA SoundAtFirst == Init => SoundInv
<1> SUFFICES ASSUME Init PROVE SoundInv
  OBVIOUS
<1>1. /\ thread = Over("gone") /\ capture = NewCapture /\ flow = NewFlow /\ encoder = NewEncoder
      /\ sound = [time |-> 1, epoch |-> 1] /\ queue = <<>>
  BY DEF Init
<1>2. FlowTyped(flow) /\ ~flow.input
  BY <1>1 DEF FlowTyped, NewFlow
<1>3. capture.last \in Int
  BY <1>1 DEF NewCapture, None
<1>4. SoundTyped
  BY <1>1, <1>2, <1>3, EmptySeq DEF SoundTyped
<1>5. Uninterrupted
  BY <1>1, <1>2 DEF Uninterrupted
<1>6. OpensAnew /\ thread.why # "encoder"
  BY <1>1 DEF OpensAnew, Over
<1> QED
  BY <1>4, <1>5, <1>6 DEF SoundInv

LEMMA SoundKept == RouteInv /\ SoundInv /\ [Next]_vars => SoundInv'
<1> SUFFICES ASSUME RouteInv, SoundInv, [Next]_vars PROVE SoundInv'
  OBVIOUS
<1>1. CASE \/ Environment \/ ServiceStarts \/ ServiceReady \/ ServiceStops \/ SwitchUser \/ ServiceTakes
           \/ UNCHANGED vars
  <2>1. UNCHANGED <<captureVars, queue, thread>>
    BY <1>1 DEF Environment, ServiceStarts, ServiceReady, ServiceStops, SwitchUser, ServiceTakes, vars, outVars
  <2> QED
    BY <2>1, OthersSilent
<1> QED
  BY <1>1, DeathSilent, StartSilent, ThreadSilent, RouteSilent, BufferSounds DEF Next

(* A packet carries the time at which its first sample was captured, and   *)
(* the samples of one uninterrupted stretch, however late the encoder is   *)
(* and whatever glitch, wrong timestamp or new device comes in between;    *)
(* and the encoder is never given a time that it refuses.                  *)
THEOREM PacketsTrueAlways == Spec => []PacketsTrue
<1>1. SoundInv => PacketsTrue
  <2> SUFFICES ASSUME SoundInv PROVE PacketsTrue
    OBVIOUS
  <2>1. queue \in Seq(TrueEvents)
    BY DEF SoundInv, SoundTyped
  <2>2. \A i \in DOMAIN queue : queue[i] \in TrueEvents
    BY <2>1
  <2> QED
    BY <2>2 DEF SoundInv, PacketsTrue, TrueEvents
<1>2. Spec => [](RouteInv /\ SoundInv)
  BY RouteAtFirst, RouteKept, SoundAtFirst, SoundKept, PTL DEF Spec
<1> QED
  BY <1>1, <1>2, PTL

-----------------------------------------------------------------------------
(* Finite sets of sequence numbers in order (for video, in VideoProofs). *)

(* InOrder lists a finite set of integers, strictly increasing.            *)
LEMMA InOrderLists ==
  ASSUME NEW S \in SUBSET Int, IsFiniteSet(S)
  PROVE  /\ InOrder(S) \in Seq(S)
         /\ Len(InOrder(S)) = Cardinality(S) /\ Cardinality(S) \in Nat
         /\ \A i, j \in 1..Cardinality(S) : i < j => InOrder(S)[i] < InOrder(S)[j]
         /\ \A s \in S : \E i \in 1..Cardinality(S) : InOrder(S)[i] = s
<1> DEFINE n == Cardinality(S)
           below(s) == {t \in S : t < s}
           rank == [s \in S |-> Cardinality(below(s))]
<1>1. n \in Nat
  BY FS_CardinalityType
<1>2. \A s \in S : rank[s] \in 0..(n - 1)
  <2> TAKE s \in S
  <2>1. IsFiniteSet(below(s)) /\ Cardinality(below(s)) <= n /\ (n = Cardinality(below(s)) => S = below(s))
    <3> below(s) \in SUBSET S
      OBVIOUS
    <3> QED BY FS_Subset
  <2>2. s \notin below(s)
    <3> s \in Int /\ ~(s < s)
      OBVIOUS
    <3> QED OBVIOUS
  <2>3. Cardinality(below(s)) \in Nat
    BY <2>1, FS_CardinalityType
  <2> HIDE DEF n, below
  <2>4. Cardinality(below(s)) # n
    BY <2>1, <2>2
  <2> QED BY <1>1, <2>1, <2>3, <2>4
<1>3. \A s, t \in S : s < t => rank[s] < rank[t]
  <2> TAKE s, t \in S
  <2> HAVE s < t
  <2>0. \A x \in S : x < s => x < t
    <3> s \in Int /\ t \in Int /\ \A x \in S : x \in Int
      OBVIOUS
    <3> QED OBVIOUS
  <2>1. below(t) \in SUBSET S /\ below(s) \in SUBSET below(t)
    BY <2>0
  <2>2. s \in below(t) /\ s \notin below(s)
    OBVIOUS
  <2>3. IsFiniteSet(below(t)) /\ IsFiniteSet(below(s))
    BY <2>1, FS_Subset
  <2> HIDE DEF below
  <2>4. Cardinality(below(s)) <= Cardinality(below(t)) /\ Cardinality(below(s)) # Cardinality(below(t))
    BY <2>1, <2>2, <2>3, FS_Subset
  <2>5. Cardinality(below(s)) \in Nat /\ Cardinality(below(t)) \in Nat
    BY <2>3, FS_CardinalityType
  <2> QED BY <2>4, <2>5
<1>4. rank \in Injection(S, 0..(n - 1))
  <2> HIDE DEF n
  <2>1. rank \in [S -> 0..(n - 1)]
    <3> HIDE DEF below
    <3> QED BY <1>2
  <2>2. \A s, t \in S : rank[s] = rank[t] => s = t
    <3> TAKE s, t \in S
    <3> HIDE DEF rank
    <3>1. s < t \/ s = t \/ t < s
      OBVIOUS
    <3>2. rank[s] \in Int /\ rank[t] \in Int
      BY <1>1, <1>2
    <3> QED BY <1>3, <3>1, <3>2
  <2> HIDE DEF rank, n
  <2> QED BY <2>1, <2>2 DEF Injection, IsInjective
<1>5. rank \in Surjection(S, 0..(n - 1))
  <2>1. IsFiniteSet(0..(n - 1)) /\ Cardinality(0..(n - 1)) = n
    <3> HIDE DEF n
    <3> QED BY <1>1, FS_Interval
  <2> HIDE DEF rank
  <2> QED BY <1>4, <2>1, FS_Injection
<1>6. \A i \in 1..n : InOrder(S)[i] \in S /\ rank[InOrder(S)[i]] = i - 1
  <2> TAKE i \in 1..n
  <2>1. PICK s \in S : rank[s] = i - 1
    <3> HIDE DEF rank, n
    <3> QED BY <1>1, <1>5 DEF Surjection
  <2>2. InOrder(S)[i] = CHOOSE t \in S : rank[t] = i - 1
    BY DEF InOrder
  <2> HIDE DEF rank
  <2> QED BY <2>1, <2>2
<1>7. InOrder(S) \in Seq(S) /\ Len(InOrder(S)) = n
  <2> DEFINE elements == InOrder(S)
  <2>1. elements = [i \in 1..n |-> elements[i]]
    BY SMTT(30) DEF InOrder
  <2> HIDE DEF elements, n
  <2>2. elements \in [1..n -> S]
    BY <1>6, <2>1 DEF elements
  <2>3. elements \in Seq(S)
    BY <1>1, <2>2
  <2>4. Len(elements) = n
    BY <1>1, <2>1, <2>3
  <2> QED BY <2>3, <2>4 DEF elements
<1>8. \A i, j \in 1..n : i < j => InOrder(S)[i] < InOrder(S)[j]
  <2> TAKE i, j \in 1..n
  <2> HAVE i < j
  <2> DEFINE a == InOrder(S)[i]
             b == InOrder(S)[j]
  <2>1. a \in S /\ b \in S /\ rank[a] = i - 1 /\ rank[b] = j - 1
    BY <1>6
  <2> HIDE DEF rank, a, b
  <2>2. ~(b < a) /\ a # b
    BY <1>1, <1>3, <2>1
  <2>3. i - 1 < j - 1
    BY <1>1
  <2>4. a \in Int /\ b \in Int
    BY <2>1
  <2>5. a < b
    BY <2>2, <2>4
  <2> QED BY <2>5 DEF a, b
<1>9. \A s \in S : \E i \in 1..n : InOrder(S)[i] = s
  <2> TAKE s \in S
  <2> DEFINE i == rank[s] + 1
             a == InOrder(S)[i]
  <2>1. i \in 1..n
    <3> HIDE DEF rank, n
    <3> QED BY <1>1, <1>2
  <2>2. a \in S /\ rank[a] = rank[s]
    <3> HIDE DEF rank
    <3> rank[s] \in Int
      BY <1>1, <1>2
    <3> QED BY <1>6, <2>1
  <2> HIDE DEF rank
  <2>3. a = s
    <3> HIDE DEF a
    <3>1. a < s \/ a = s \/ s < a
      BY <2>2
    <3>2. rank[s] \in Int
      BY <1>1, <1>2
    <3> QED BY <1>3, <2>2, <3>1, <3>2
  <2> QED BY <2>1, <2>3
<1> QED BY <1>1, <1>7, <1>8, <1>9

(* A finite, non-empty set of integers has a least and a largest element.  *)
LEMMA Extremes ==
  ASSUME NEW S \in SUBSET Int, IsFiniteSet(S), S # {}
  PROVE  /\ Min(S) \in S /\ \A s \in S : Min(S) <= s
         /\ Max(S) \in S /\ \A s \in S : s <= Max(S)
<1> DEFINE n == Cardinality(S)
           elements == InOrder(S)
<1>1. /\ n \in Nat
      /\ elements \in Seq(S) /\ Len(elements) = n
      /\ \A i, j \in 1..n : i < j => elements[i] < elements[j]
      /\ \A s \in S : \E i \in 1..n : elements[i] = s
  BY InOrderLists
<1> HIDE DEF n, elements
<1>2. n >= 1 /\ elements[1] \in S /\ elements[n] \in S
  <2>1. PICK s \in S : TRUE
    OBVIOUS
  <2>2. \E i \in 1..n : elements[i] = s
    BY <1>1
  <2>3. n >= 1
    BY <1>1, <2>2
  <2>4. \A i \in 1..n : elements[i] \in S
    BY <1>1
  <2> QED BY <1>1, <2>3, <2>4
<1>3. \A s \in S : elements[1] <= s /\ s <= elements[n]
  <2> TAKE s \in S
  <2>1. PICK i \in 1..n : elements[i] = s
    BY <1>1
  <2>2. (i = 1 \/ 1 < i) /\ (i = n \/ i < n) /\ 1 \in 1..n /\ n \in 1..n
    BY <1>1
  <2>5. elements[1] \in Int /\ elements[n] \in Int /\ s \in Int
    BY <1>2
  <2>3. elements[1] <= s
    BY <1>1, <2>1, <2>2, <2>5
  <2>4. s <= elements[n]
    BY <1>1, <2>1, <2>2, <2>5
  <2> QED BY <2>3, <2>4
<1>4. \E x \in S : \A y \in S : x =< y
  BY <1>2, <1>3
<1>5. \E x \in S : \A y \in S : x >= y
  BY <1>2, <1>3
<1>6. Min(S) \in S /\ \A s \in S : Min(S) <= s
  BY <1>4 DEF Min
<1>7. Max(S) \in S /\ \A s \in S : s <= Max(S)
  <2>1. Max(S) \in S /\ \A s \in S : Max(S) >= s
    BY <1>5 DEF Max
  <2> QED BY <2>1
<1> QED BY <1>6, <1>7

-----------------------------------------------------------------------------
(* AudioPlayout: packets are decoded in order and silence takes their place.   *)

Event == [is : {"packet", "missing"}, gen : Nat, seq : Nat, missing : Nat]
Item == [is : {"reset", "failed", "samples"}, gen : Nat, seq : Nat, packets : Nat]
Place == [gen : Nat, seq : Nat]
Expected == Nat \union {Unknown}

AudioTypes ==
  /\ source \in Place /\ source.gen > 0
  /\ network \subseteq [gen : Nat \ {0}, seq : Nat, piece : Nat]
  /\ events \in Seq(Event)
  /\ planner \in [gen : Nat, expected : Expected, failed : BOOLEAN]
  /\ decoder \in Place /\ heard \in Place
  /\ playback \in [items : Seq(Item), reset : BOOLEAN]
  /\ output \in Seq(Item)

(* What waits is not before what is expected.                                  *)
OrderOK(o) ==
  /\ o \in [gen : Nat, expected : Expected, pending : SUBSET Nat, started : BOOLEAN]
  /\ IsFiniteSet(o.pending)
  /\ o.started => o.expected # Unknown
  /\ \A s \in o.pending : o.gen > 0 /\ o.expected # Unknown /\ s >= o.expected

(* An event covers the packets up to this number.                              *)
Ends(e) == IF e.is = "packet" THEN e.seq + 1 ELSE e.seq + e.missing
Follows(e, f) == e.gen > f.gen \/ (e.gen = f.gen /\ e.seq >= Ends(f))

(* No two events of the queue cover the same packet, none covers what is still *)
(* expected from the network, and none what the planner is past.               *)
EventsInv ==
  /\ \A i, j \in 1..Len(events) : i < j => Follows(events[j], events[i])
  /\ \A i \in 1..Len(events) :
       /\ events[i].gen > 0 /\ events[i].gen <= ordered.gen
       /\ events[i].gen = ordered.gen => ordered.started /\ Ends(events[i]) <= ordered.expected
       /\ events[i].gen >= planner.gen
       /\ events[i].gen = planner.gen => events[i].seq >= planner.expected

(* The planner is not past what is expected from the network, and the decoder  *)
(* has a state only if it decoded the packet before the one it expects.        *)
PlannerInv ==
  /\ planner.gen <= ordered.gen
  /\ planner.gen = ordered.gen =>
       planner.expected = Unknown \/ (ordered.started /\ planner.expected <= ordered.expected)
  /\ heard.gen <= planner.gen
  /\ heard.gen = planner.gen /\ heard # NoPacket => heard.seq < planner.expected
  /\ decoder # NoPacket =>
       decoder = heard /\ planner.gen = heard.gen /\ planner.expected = heard.seq + 1

LineInv == \A i \in 1..Len(Line) : IsSamples(i) => Line[i].gen <= planner.gen

AudioInv ==
  AudioTypes /\ OrderOK(ordered) /\ EventsInv /\ PlannerInv /\ LineInv /\ TimeGoesForward

-----------------------------------------------------------------------------
(* Queues that lose their oldest elements.                                     *)

Suffix(q, s) ==
  \E k \in 0..Len(s) : Len(q) = Len(s) - k /\ \A i \in 1..Len(q) : q[i] = s[i + k]

LEMMA SelfSuffix ==
  ASSUME NEW S, NEW s \in Seq(S)
  PROVE  Suffix(s, s)
<1>1. 0 \in 0..Len(s) /\ Len(s) = Len(s) - 0
  OBVIOUS
<1>2. \A i \in 1..Len(s) : i + 0 = i
  OBVIOUS
<1>3. \A i \in 1..Len(s) : s[i] = s[i + 0]
  BY <1>2, Zenon
<1> QED BY <1>1, <1>3, Zenon DEF Suffix

(* A bounded queue keeps the newest of its elements.                           *)
LEMMA LatestSuffix ==
  ASSUME NEW S, NEW s \in Seq(S), NEW capacity \in Nat
  PROVE  Latest(s, capacity) \in Seq(S) /\ Suffix(Latest(s, capacity), s)
<1>1. CASE Len(s) > capacity
  <2> DEFINE k == Len(s) - capacity
             q == SubSeq(s, k + 1, Len(s))
  <2>1. Latest(s, capacity) = q /\ k \in 0..Len(s)
    BY <1>1 DEF Latest
  <2> HIDE DEF k
  <2>2. q \in Seq(S) /\ Len(q) = Len(s) - k
    BY <2>1
  <2>3. \A i \in 1..(Len(s) - k) : q[i] = s[i + k]
    BY <2>1
  <2> HIDE DEF q
  <2> QED BY <2>1, <2>2, <2>3 DEF Suffix
<1>2. CASE ~(Len(s) > capacity)
  <2>1. Latest(s, capacity) = s
    BY <1>2 DEF Latest
  <2>2. Suffix(s, s)
    BY SelfSuffix
  <2> QED BY <2>1, <2>2
<1> QED BY <1>1, <1>2

(* So does one from which the oldest was taken.                                *)
LEMMA TailSuffix ==
  ASSUME NEW S, NEW s \in Seq(S), s # <<>>
  PROVE  Tail(s) \in Seq(S) /\ Suffix(Tail(s), s)
<1>1. 1 \in 0..Len(s) /\ Len(Tail(s)) = Len(s) - 1 /\ \A i \in 1..Len(Tail(s)) : Tail(s)[i] = s[i + 1]
  OBVIOUS
<1> QED BY <1>1 DEF Suffix

-----------------------------------------------------------------------------
(* The order of playout.                                                       *)

(* What a drain or a push may do to the order, and the events it returns.      *)
Releasing(o, r) ==
  /\ OrderOK(r.order) /\ r.order.gen = o.gen
  /\ o.started => r.order.started /\ r.order.expected >= o.expected
  /\ r.ready \in Seq(Event)
  /\ \A i \in 1..Len(r.ready) :
       /\ r.ready[i].gen = o.gen /\ o.gen > 0
       /\ r.order.started /\ Ends(r.ready[i]) <= r.order.expected
       /\ o.started => r.ready[i].seq >= o.expected
  /\ \A i, j \in 1..Len(r.ready) : i < j => r.ready[j].seq >= Ends(r.ready[i])

(* Nothing is released.                                                        *)
LEMMA NothingReleased ==
  ASSUME NEW o, OrderOK(o), NEW q, OrderOK(q), q.gen = o.gen, o.started => q = o
  PROVE  Releasing(o, [order |-> q, ready |-> <<>>])
BY DEF Releasing, OrderOK, Expected, Unknown

(* Packets are released in order, each gap between them as one event.          *)
LEMMA ReleasedInOrder ==
  ASSUME NEW o, OrderOK(o), o.started, NEW old
  PROVE  Releasing(o, Released(o, old))
<1> DEFINE leaving == Leaving(o, old)
           begins == Begins(o, leaving)
           list == InOrder(begins)
           n == Cardinality(begins)
           event(i) == IF list[i] \in leaving THEN PacketEvent(o.gen, list[i])
                       ELSE MissingEvent(o.gen, list[i], list[i + 1] - list[i])
           q == IF leaving = {} THEN o
                ELSE [o EXCEPT !.pending = @ \ leaving, !.expected = Max(leaving) + 1]
           ready == [i \in DOMAIN list |-> event(i)]
<1>0. Released(o, old) = [order |-> q, ready |-> ready]
  BY DEF Released
<1>1. leaving \in SUBSET o.pending /\ leaving \in SUBSET Nat /\ IsFiniteSet(leaving)
  <2>1. leaving \in SUBSET o.pending
    BY DEF Leaving
  <2> HIDE DEF leaving
  <2> QED BY <2>1, FS_Subset DEF OrderOK
<1>2. /\ o.gen \in Nat /\ o.expected \in Int
      /\ leaving # {} => o.gen > 0 /\ o.expected \in Nat
      /\ \A s \in leaving : s \in Nat /\ s \in o.pending /\ s >= o.expected
  <2> HIDE DEF leaving
  <2>1. \A s \in leaving : s \in Nat /\ s \in o.pending
    BY <1>1
  <2>2. o.gen \in Nat /\ o.expected \in Expected
    BY DEF OrderOK
  <2>3. \A s \in o.pending : o.gen > 0 /\ o.expected # Unknown /\ s >= o.expected
    BY DEF OrderOK
  <2> QED BY <2>1, <2>2, <2>3 DEF Expected, Unknown
<1> HIDE DEF leaving
<1>3. IsFiniteSet(begins) /\ begins \in SUBSET Nat
  <2> DEFINE next == {s + 1 : s \in leaving}
             gaps == {s \in {o.expected} \union next : \E t \in leaving : s < t}
  <2>1. IsFiniteSet(next)
    <3> DEFINE f == [s \in leaving |-> s + 1]
    <3>1. f \in Surjection(leaving, next)
      BY DEF Surjection
    <3> HIDE DEF next, f
    <3> QED BY <1>1, <3>1, FS_Surjection
  <2>2. IsFiniteSet({o.expected})
    BY FS_Singleton
  <2> HIDE DEF next
  <2>3. IsFiniteSet({o.expected} \union next)
    BY <2>1, <2>2, FS_Union
  <2>4. IsFiniteSet(gaps)
    <3> gaps \in SUBSET ({o.expected} \union next)
      OBVIOUS
    <3> HIDE DEF gaps
    <3> QED BY <2>3, FS_Subset
  <2>5. gaps \in SUBSET Nat
    <3> SUFFICES ASSUME NEW s \in gaps PROVE s \in Nat
      OBVIOUS
    <3>1. CASE s = o.expected
      BY <3>1, <1>2
    <3>2. CASE s \in next
      BY <3>2, <1>1 DEF next
    <3> QED BY <3>1, <3>2
  <2>6. begins = leaving \union gaps
    BY DEF Begins, next
  <2> HIDE DEF gaps
  <2>7. IsFiniteSet(leaving \union gaps)
    BY <1>1, <2>4, FS_Union
  <2> QED BY <1>1, <2>5, <2>6, <2>7
<1>4. /\ leaving \subseteq begins
      /\ \A s \in begins \ leaving : \E t \in leaving : s < t
      /\ \A s \in begins : leaving # {} /\ s >= o.expected
  <2>1. leaving \subseteq begins /\ \A s \in begins \ leaving : \E t \in leaving : s < t
    BY DEF Begins
  <2>2. ASSUME NEW s \in begins PROVE leaving # {} /\ s >= o.expected
    <3>1. s \in leaving \/ s = o.expected \/ \E t \in leaving : s = t + 1
      BY DEF Begins
    <3>2. leaving # {}
      BY <2>1
    <3>3. s >= o.expected
      BY <1>2, <3>1
    <3> QED BY <3>2, <3>3
  <2> QED BY <2>1, <2>2
<1> HIDE DEF begins
<1>5. /\ list \in Seq(begins) /\ Len(list) = n /\ n \in Nat
      /\ \A i, j \in 1..n : i < j => list[i] < list[j]
      /\ \A s \in begins : \E i \in 1..n : list[i] = s
  <2>1. begins \in SUBSET Int
    BY <1>3
  <2> QED BY <1>3, <2>1, InOrderLists
<1> HIDE DEF list, n
<1>6. DOMAIN list = 1..n /\ \A i \in 1..n : list[i] \in begins /\ list[i] \in Nat
  <2>1. DOMAIN list = 1..n
    BY <1>5
  <2>2. \A i \in 1..n : list[i] \in begins
    BY <1>5
  <2>3. \A s \in begins : s \in Nat
    BY <1>3
  <2> QED BY <2>1, <2>2, <2>3
<1>7. \A i \in 1..n : list[i] \notin leaving => i + 1 \in 1..n
  <2> SUFFICES ASSUME NEW i \in 1..n, list[i] \notin leaving PROVE i + 1 \in 1..n
    OBVIOUS
  <2>1. PICK t \in leaving : list[i] < t
    BY <1>4, <1>6
  <2>2. PICK j \in 1..n : list[j] = t
    BY <1>4, <1>5, <2>1
  <2>3. ~(j < i) /\ j # i
    <3>1. list[i] \in Nat /\ list[j] \in Nat
      BY <1>6
    <3>2. j < i => list[j] < list[i]
      BY <1>5
    <3> QED BY <2>1, <2>2, <3>1, <3>2
  <2> QED BY <1>5, <2>3
<1>8. /\ OrderOK(q) /\ q.gen = o.gen /\ q.started /\ q.expected >= o.expected
      /\ \A s \in leaving : s < q.expected
  <2>1. CASE leaving = {}
    BY <2>1 DEF OrderOK, Expected, Unknown
  <2>2. CASE leaving # {}
    <3>1. Max(leaving) \in leaving /\ \A s \in leaving : s <= Max(leaving)
      <4>1. leaving \in SUBSET Int
        BY <1>1
      <4> QED BY <1>1, <2>2, <4>1, Extremes
    <3> DEFINE last == Max(leaving)
    <3> HIDE DEF last
    <3>2. last \in leaving /\ last \in Nat /\ \A s \in leaving : s <= last
      BY <1>1, <3>1 DEF last
    <3>3. q = [o EXCEPT !.pending = @ \ leaving, !.expected = last + 1]
      BY <2>2 DEF last
    <3> HIDE DEF q
    <3>4. /\ q.gen = o.gen /\ q.started = o.started /\ q.expected = last + 1
          /\ q.pending = o.pending \ leaving
          /\ q \in [gen : Nat, expected : Expected, pending : SUBSET Nat, started : BOOLEAN]
      <4>1. o \in [gen : Nat, expected : Expected, pending : SUBSET Nat, started : BOOLEAN]
        BY DEF OrderOK
      <4>2. last + 1 \in Expected /\ o.pending \ leaving \in SUBSET Nat
        BY <3>2, <4>1 DEF Expected
      <4> QED BY <3>3, <4>1, <4>2
    <3>5. IsFiniteSet(q.pending)
      <4>1. q.pending \in SUBSET o.pending
        BY <3>4
      <4> QED BY <4>1, FS_Subset DEF OrderOK
    <3>6. \A s \in q.pending : s > last
      <4> SUFFICES ASSUME NEW s \in o.pending, s \notin leaving, s <= last PROVE FALSE
        BY <3>2, <3>4 DEF OrderOK
      <4>1. \A t \in o.pending : t <= last => Waited(o, old, t)
        BY <3>2 DEF leaving, Leaving
      <4>2. \A t \in o.pending : t <= s => t <= last
        BY <3>2 DEF OrderOK
      <4> QED BY <4>1, <4>2 DEF leaving, Leaving
    <3>7. \A s \in q.pending : q.gen > 0 /\ q.expected # Unknown /\ s >= q.expected
      <4> SUFFICES ASSUME NEW s \in q.pending
                   PROVE  q.gen > 0 /\ q.expected # Unknown /\ s >= q.expected
        OBVIOUS
      <4>1. s \in o.pending /\ s \in Nat
        BY <3>4 DEF OrderOK
      <4> QED BY <1>2, <2>2, <3>2, <3>4, <3>6, <4>1 DEF Unknown
    <3>8. q.expected >= o.expected /\ \A s \in leaving : s < q.expected
      <4>1. last >= o.expected
        BY <1>2, <3>2
      <4>2. \A s \in leaving : s \in Nat
        BY <1>2
      <4>3. q.expected = last + 1 /\ last \in Int /\ o.expected \in Int
        BY <1>2, <3>2, <3>4
      <4>4. q.expected >= o.expected
        BY <4>1, <4>3
      <4>5. ASSUME NEW s \in leaving PROVE s < q.expected
        <5>1. s \in Nat /\ s <= last
          BY <3>2, <4>2
        <5> QED BY <4>3, <5>1
      <4> QED BY <4>4, <4>5
    <3>9. q.expected # Unknown
      BY <3>2, <3>4 DEF Unknown
    <3> QED BY <3>4, <3>5, <3>7, <3>8, <3>9 DEF OrderOK
  <2> QED BY <2>1, <2>2
<1>9. ASSUME NEW i \in 1..n
      PROVE  /\ event(i) \in Event /\ event(i).gen = o.gen /\ o.gen > 0
             /\ event(i).seq = list[i] /\ list[i] >= o.expected
             /\ Ends(event(i)) <= q.expected
             /\ \A j \in 1..n : i < j => list[j] >= Ends(event(i))
  <2> HIDE DEF q
  <2>0. /\ list[i] \in Nat /\ list[i] \in begins /\ list[i] >= o.expected
        /\ o.gen \in Nat /\ o.gen > 0
        /\ q.expected \in Int
    BY <1>2, <1>4, <1>6, <1>8 DEF OrderOK, Expected, Unknown
  <2>1. CASE list[i] \in leaving
    <3>1. event(i) = PacketEvent(o.gen, list[i])
      BY <2>1
    <3> HIDE DEF event
    <3>2. event(i) \in Event /\ event(i).gen = o.gen /\ event(i).seq = list[i] /\ Ends(event(i)) = list[i] + 1
      BY <2>0, <3>1 DEF PacketEvent, Event, Ends
    <3>3. list[i] + 1 <= q.expected
      BY <1>8, <2>0, <2>1
    <3>4. \A j \in 1..n : i < j => list[j] >= list[i] + 1
      BY <1>5, <1>6, <2>0
    <3> QED BY <2>0, <3>2, <3>3, <3>4
  <2>2. CASE list[i] \notin leaving
    <3>1. event(i) = MissingEvent(o.gen, list[i], list[i + 1] - list[i])
      BY <2>2
    <3> HIDE DEF event
    <3>2. i + 1 \in 1..n /\ list[i + 1] \in Nat /\ list[i + 1] > list[i]
      BY <1>5, <1>6, <1>7, <2>0, <2>2
    <3>3. event(i) \in Event /\ event(i).gen = o.gen /\ event(i).seq = list[i] /\ Ends(event(i)) = list[i + 1]
      BY <2>0, <3>1, <3>2 DEF MissingEvent, Event, Ends
    <3>4. list[i + 1] <= q.expected
      <4>1. list[i + 1] \in leaving \/ \E t \in leaving : list[i + 1] < t
        BY <1>4, <1>6, <3>2
      <4>2. CASE list[i + 1] \in leaving
        BY <1>8, <2>0, <3>2, <4>2
      <4>3. ASSUME NEW t \in leaving, list[i + 1] < t PROVE list[i + 1] <= q.expected
        <5>1. t < q.expected /\ t \in Nat
          BY <1>2, <1>8
        <5> QED BY <2>0, <3>2, <4>3, <5>1
      <4> QED BY <4>1, <4>2, <4>3
    <3>5. \A j \in 1..n : i < j => list[j] >= list[i + 1]
      <4> SUFFICES ASSUME NEW j \in 1..n, i < j PROVE list[j] >= list[i + 1]
        OBVIOUS
      <4>1. j = i + 1 \/ i + 1 < j
        BY <1>5
      <4> QED BY <1>5, <1>6, <3>2, <4>1
    <3> QED BY <2>0, <3>2, <3>3, <3>4, <3>5
  <2> QED BY <2>1, <2>2
<1> HIDE DEF event, q
<1>10. /\ ready \in Seq(Event) /\ Len(ready) = n
       /\ \A i \in 1..n : ready[i] = event(i)
  <2>1. ready = [i \in 1..n |-> event(i)]
    BY <1>6
  <2> HIDE DEF ready
  <2>2. ready \in [1..n -> Event]
    BY <1>9, <2>1
  <2>3. ready \in Seq(Event)
    BY <1>5, <2>2
  <2> QED BY <1>5, <2>1, <2>3
<1> HIDE DEF ready
<1>11. Releasing(o, [order |-> q, ready |-> ready])
  BY <1>2, <1>8, <1>9, <1>10 DEF Releasing
<1> QED BY <1>0, <1>11

(* A drain that may not start leaves the order as it is.                       *)
LEMMA DrainReleases ==
  ASSUME NEW o, OrderOK(o), NEW old
  PROVE  Releasing(o, Drained(o, old))
<1> DEFINE q == [o EXCEPT !.started = TRUE]
<1>1. /\ q \in [gen : Nat, expected : Expected, pending : SUBSET Nat, started : BOOLEAN]
      /\ q.started /\ q.gen = o.gen /\ q.expected = o.expected /\ q.pending = o.pending
      /\ o.started => q = o
  BY DEF OrderOK
<1>2. CASE MayStart(o, old)
  <2>0. o.expected # Unknown
    <3>1. o.started \/ o.pending # {}
      <4>1. Cardinality({}) = 0
        BY FS_EmptySet
      <4>2. QueuePackets \in Nat /\ QueuePackets > 0
        BY PlayoutAssumption
      <4> QED BY <1>2, <4>1, <4>2 DEF MayStart
    <3> QED BY <3>1 DEF OrderOK
  <2>1. Drained(o, old) = Released(q, old)
    BY <1>2 DEF Drained
  <2> HIDE DEF q
  <2>2. OrderOK(q)
    BY <1>1, <2>0 DEF OrderOK
  <2>3. Releasing(q, Released(q, old))
    BY <1>1, <2>2, ReleasedInOrder
  <2> QED BY <1>1, <2>1, <2>3 DEF Releasing
<1>3. CASE ~MayStart(o, old)
  <2>1. Drained(o, old) = [order |-> o, ready |-> <<>>]
    BY <1>3 DEF Drained
  <2> QED BY <2>1, NothingReleased
<1> QED BY <1>2, <1>3

(* A packet that is inserted can be what is expected only before the start.    *)
LEMMA InsertedOrder ==
  ASSUME NEW o, OrderOK(o), o.gen > 0, NEW seq \in Nat, Accepts(o, seq)
  PROVE  LET q == Inserted(o, seq)
         IN  OrderOK(q) /\ q.gen = o.gen /\ q.started = o.started /\ (o.started => q.expected = o.expected)
<1> DEFINE q == Inserted(o, seq)
           first == IF o.started \/ (o.expected # Unknown /\ o.expected < seq) THEN o.expected ELSE seq
<1>1. o \in [gen : Nat, expected : Expected, pending : SUBSET Nat, started : BOOLEAN]
  BY DEF OrderOK
<1>2. q = [o EXCEPT !.pending = @ \union {seq}, !.expected = first]
  BY DEF Inserted
<1>3. first \in Expected /\ first # Unknown /\ (o.started => first = o.expected)
  BY <1>1 DEF Expected, Unknown, OrderOK
<1>4. \A s \in o.pending \union {seq} : s >= first
  <2>1. \A s \in o.pending : s \in Nat /\ s >= o.expected /\ o.expected # Unknown
    BY DEF OrderOK
  <2>2. o.expected \in Int
    BY <1>1 DEF Expected, Unknown
  <2>3. o.started => seq >= o.expected
    BY <2>2 DEF Accepts
  <2>4. seq >= first
    BY <2>2, <2>3
  <2>5. ASSUME NEW s \in o.pending PROVE s >= first
    BY <2>1, <2>2
  <2> QED BY <2>4, <2>5
<1> HIDE DEF first, q
<1>5. /\ q \in [gen : Nat, expected : Expected, pending : SUBSET Nat, started : BOOLEAN]
      /\ q.gen = o.gen /\ q.started = o.started /\ q.expected = first
      /\ q.pending = o.pending \union {seq}
  BY <1>1, <1>2, <1>3
<1>6. IsFiniteSet(q.pending)
  <2>1. IsFiniteSet({seq})
    BY FS_Singleton
  <2>2. IsFiniteSet(o.pending)
    BY DEF OrderOK
  <2>3. IsFiniteSet(o.pending \union {seq})
    BY <2>1, <2>2, FS_Union
  <2> QED BY <1>5, <2>3
<1>7. \A s \in q.pending : q.gen > 0 /\ q.expected # Unknown /\ s >= q.expected
  BY <1>3, <1>4, <1>5
<1>8. OrderOK(q)
  BY <1>3, <1>5, <1>6, <1>7 DEF OrderOK
<1> QED BY <1>3, <1>5, <1>8 DEF q

(* A push is an insertion and a drain, unless the packet comes too late.       *)
LEMMA PushReleases ==
  ASSUME NEW o, OrderOK(o), o.gen > 0, NEW seq \in Nat, NEW old
  PROVE  Releasing(o, AfterPush(o, seq, old))
<1>1. CASE Accepts(o, seq)
  <2> DEFINE q == Inserted(o, seq)
  <2>1. OrderOK(q) /\ q.gen = o.gen /\ q.started = o.started /\ (o.started => q.expected = o.expected)
    BY <1>1, InsertedOrder
  <2>2. AfterPush(o, seq, old) = Drained(q, old)
    BY <1>1 DEF AfterPush
  <2> HIDE DEF q
  <2>3. Releasing(q, Drained(q, old))
    BY <2>1, DrainReleases
  <2> QED BY <2>1, <2>2, <2>3 DEF Releasing
<1>2. CASE ~Accepts(o, seq)
  <2>1. AfterPush(o, seq, old) = [order |-> o, ready |-> <<>>]
    BY <1>2 DEF AfterPush
  <2> QED BY <2>1, NothingReleased
<1> QED BY <1>1, <1>2

(* A new generation forgets the order of the one before.                       *)
LEMMA OrderOfGeneration ==
  ASSUME OrderOK(ordered), NEW gen \in Nat
  PROVE  LET o == OrderAt(ordered, gen)
         IN  OrderOK(o) /\ o.gen >= gen /\ (o = ordered \/ o.gen > ordered.gen)
<1>1. CASE gen > ordered.gen
  <2> DEFINE o == [gen |-> gen, expected |-> Unknown, pending |-> {}, started |-> FALSE]
  <2>1. OrderAt(ordered, gen) = o
    BY <1>1 DEF OrderAt
  <2>2. OrderOK(o)
    BY FS_EmptySet DEF OrderOK, Expected
  <2> QED BY <1>1, <2>1, <2>2
<1>2. CASE ~(gen > ordered.gen)
  <2>1. OrderAt(ordered, gen) = ordered /\ ordered.gen >= gen
    BY <1>2 DEF OrderAt, OrderOK
  <2> QED BY <2>1
<1> QED BY <1>1, <1>2

(* What is released goes behind the events that wait.                          *)
LEMMA OrderMoves ==
  ASSUME OrderOK(ordered), EventsInv, PlannerInv, events \in Seq(Event),
         planner.gen \in Nat, planner.expected \in Expected,
         NEW o, OrderOK(o), o = ordered \/ o.gen > ordered.gen,
         NEW r, Releasing(o, r), ordered' = r.order,
         events' \in Seq(Event), Suffix(events', events \o r.ready),
         UNCHANGED decodeVars
  PROVE  OrderOK(ordered)' /\ EventsInv' /\ PlannerInv'
<1>0. UNCHANGED <<planner, decoder, heard>>
  BY DEF decodeVars
<1>1. /\ ordered.gen \in Nat /\ ordered.expected \in Int
      /\ o.gen \in Nat /\ o.expected \in Int
      /\ ordered'.gen = o.gen /\ ordered'.expected \in Int
      /\ planner.expected \in Int
      /\ r.ready \in Seq(Event)
  BY DEF OrderOK, Releasing, Expected, Unknown
<1>2. OrderOK(ordered)'
  BY DEF Releasing, OrderOK
<1>3. ordered.gen <= ordered'.gen
  BY <1>1
<1>4. ordered'.gen = ordered.gen /\ ordered.started =>
        ordered'.started /\ ordered'.expected >= ordered.expected
  BY <1>1 DEF Releasing
<1> DEFINE all == events \o r.ready
           n == Len(events)
<1>5. /\ all \in Seq(Event) /\ Len(all) = n + Len(r.ready) /\ n \in Nat /\ Len(r.ready) \in Nat
      /\ \A i \in 1..n : i \in 1..Len(all) /\ all[i] = events[i]
      /\ \A i \in 1..Len(all) : i > n => i - n \in 1..Len(r.ready) /\ all[i] = r.ready[i - n]
  BY <1>1
<1> HIDE DEF all
<1>6. \A i \in 1..Len(all) :
        i \in Nat /\ all[i] \in Event /\ all[i].gen \in Nat /\ all[i].seq \in Nat /\ Ends(all[i]) \in Nat
  <2>1. \A e \in Event : e.gen \in Nat /\ e.seq \in Nat /\ Ends(e) \in Nat
    BY DEF Event, Ends
  <2>2. \A i \in 1..Len(all) : i \in Nat /\ all[i] \in Event
    BY <1>5
  <2> QED BY <2>1, <2>2
(* The events that waited, and those that are new.                             *)
<1>61. \A i \in 1..n :
         /\ all[i].gen > 0 /\ all[i].gen <= ordered.gen
         /\ all[i].gen = ordered.gen => ordered.started /\ Ends(all[i]) <= ordered.expected
         /\ all[i].gen >= planner.gen
         /\ all[i].gen = planner.gen => all[i].seq >= planner.expected
  <2>1. \A i \in 1..n : all[i] = events[i]
    BY <1>5
  <2> QED BY <2>1 DEF EventsInv
<1>62. \A i, j \in 1..n : i < j => Follows(all[j], all[i])
  <2>1. \A i \in 1..n : all[i] = events[i]
    BY <1>5
  <2> QED BY <2>1 DEF EventsInv
<1> HIDE DEF n
<1>63. \A i \in 1..Len(all) : i > n =>
         /\ all[i].gen = o.gen /\ o.gen > 0
         /\ ordered'.started /\ Ends(all[i]) <= ordered'.expected
         /\ o.started => all[i].seq >= o.expected
  <2>1. \A i \in 1..Len(all) : i > n => i - n \in 1..Len(r.ready) /\ all[i] = r.ready[i - n]
    BY <1>5
  <2> QED BY <2>1 DEF Releasing
<1>64. \A i, j \in 1..Len(all) : i > n /\ j > i => all[j].gen = all[i].gen /\ all[j].seq >= Ends(all[i])
  <2> SUFFICES ASSUME NEW i \in 1..Len(all), NEW j \in 1..Len(all), i > n, j > i
               PROVE  all[j].gen = all[i].gen /\ all[j].seq >= Ends(all[i])
    OBVIOUS
  <2>1. i \in Nat /\ j \in Nat /\ n \in Nat
    BY <1>5, <1>6
  <2>2. j > n /\ i - n < j - n
    BY <2>1
  <2>3. /\ i - n \in 1..Len(r.ready) /\ all[i] = r.ready[i - n]
        /\ j - n \in 1..Len(r.ready) /\ all[j] = r.ready[j - n]
    BY <1>5, <2>2
  <2>4. r.ready[j - n].seq >= Ends(r.ready[i - n])
    BY <2>2, <2>3 DEF Releasing
  <2>5. all[j].gen = o.gen /\ all[i].gen = o.gen
    BY <1>63, <2>2
  <2> QED BY <2>3, <2>4, <2>5
<1> DEFINE Sound(e) ==
      /\ e.gen > 0 /\ e.gen <= ordered'.gen
      /\ e.gen = ordered'.gen => ordered'.started /\ Ends(e) <= ordered'.expected
      /\ e.gen >= planner.gen
      /\ e.gen = planner.gen => e.seq >= planner.expected
<1>7. ASSUME NEW i \in 1..Len(all), i <= n PROVE Sound(all[i])
  <2>0. i \in 1..n /\ all[i].gen \in Nat /\ Ends(all[i]) \in Nat
    BY <1>5, <1>6, <1>7
  <2>1. /\ all[i].gen > 0 /\ all[i].gen <= ordered.gen
        /\ all[i].gen = ordered.gen => ordered.started /\ Ends(all[i]) <= ordered.expected
        /\ all[i].gen >= planner.gen
        /\ all[i].gen = planner.gen => all[i].seq >= planner.expected
    BY <1>61, <2>0
  <2> QED BY <1>1, <1>3, <1>4, <2>0, <2>1, SMTT(30)
<1>8. ASSUME NEW i \in 1..Len(all), i > n PROVE Sound(all[i])
  <2> DEFINE e == all[i]
  <2>1. /\ e.gen = o.gen /\ o.gen > 0
        /\ ordered'.started /\ Ends(e) <= ordered'.expected
        /\ o.started => e.seq >= o.expected
    BY <1>8, <1>63
  <2>2. planner.gen <= ordered.gen
    BY DEF PlannerInv
  <2>3. e.gen \in Nat /\ e.seq \in Nat
    BY <1>6
  <2> HIDE DEF e
  <2>4. e.gen = planner.gen => e.seq >= planner.expected
    <3> SUFFICES ASSUME e.gen = planner.gen PROVE e.seq >= planner.expected
      OBVIOUS
    <3>1. o = ordered /\ planner.gen = ordered.gen
      BY <1>1, <2>1, <2>2
    <3>2. CASE planner.expected = Unknown
      BY <2>3, <3>2 DEF Unknown
    <3>3. CASE ordered.started /\ planner.expected <= ordered.expected
      BY <1>1, <2>1, <2>3, <3>1, <3>3
    <3> QED BY <3>1, <3>2, <3>3 DEF PlannerInv
  <2>5. Sound(e)
    BY <1>1, <2>1, <2>2, <2>3, <2>4, SMTT(30)
  <2> QED BY <2>5 DEF e
<1>9. ASSUME NEW i \in 1..Len(all), NEW j \in 1..Len(all), i < j PROVE Follows(all[j], all[i])
  <2>0. i \in Nat /\ j \in Nat /\ n \in Nat
    BY <1>5, <1>6
  <2>1. CASE j <= n
    <3>1. i \in 1..n /\ j \in 1..n
      BY <2>0, <2>1, <1>9
    <3> QED BY <1>9, <1>62, <3>1
  <2>2. CASE i > n
    <3>1. all[j].gen = all[i].gen /\ all[j].seq >= Ends(all[i])
      BY <1>9, <1>64, <2>2
    <3> QED BY <3>1 DEF Follows
  <2>3. CASE i <= n /\ j > n
    <3>1. i \in 1..n
      BY <2>0, <2>3
    <3>2. /\ all[i].gen <= ordered.gen
          /\ all[i].gen = ordered.gen => ordered.started /\ Ends(all[i]) <= ordered.expected
      BY <1>61, <3>1
    <3>3. all[j].gen = o.gen /\ (o.started => all[j].seq >= o.expected)
      BY <1>63, <2>3
    <3>4. /\ all[i].gen \in Nat /\ Ends(all[i]) \in Nat
          /\ all[j].gen \in Nat /\ all[j].seq \in Nat
      BY <1>6
    <3>5. CASE o = ordered /\ all[i].gen = ordered.gen
      <4>1. all[j].seq >= Ends(all[i]) /\ all[j].gen = all[i].gen
        BY <1>1, <3>2, <3>3, <3>4, <3>5, SMTT(30)
      <4> QED BY <4>1 DEF Follows
    <3>6. CASE ~(o = ordered /\ all[i].gen = ordered.gen)
      <4>1. all[j].gen > all[i].gen
        <5>1. CASE o = ordered
          BY <1>1, <3>2, <3>3, <3>4, <3>6, <5>1, SMTT(30)
        <5>2. CASE o.gen > ordered.gen
          BY <1>1, <3>2, <3>3, <3>4, <5>2, SMTT(30)
        <5> QED BY <5>1, <5>2
      <4> QED BY <4>1 DEF Follows
    <3> QED BY <3>5, <3>6
  <2> QED BY <2>0, <2>1, <2>2, <2>3
<1>10. PICK k \in 0..Len(all) :
         Len(events') = Len(all) - k /\ \A i \in 1..Len(events') : events'[i] = all[i + k]
  BY DEF Suffix, all
<1>11. \A i \in 1..Len(events') : i \in Nat /\ i + k \in 1..Len(all) /\ events'[i] = all[i + k]
  <2>1. Len(all) \in Nat /\ k \in Nat /\ Len(events') = Len(all) - k
    BY <1>5, <1>10
  <2>2. \A i \in 1..Len(events') : i \in Nat /\ i + k \in 1..Len(all)
    BY <2>1
  <2> QED BY <1>10, <2>2
<1>12. EventsInv'
  <2>1. \A i \in 1..Len(all) : Sound(all[i])
    <3>1. \A i \in 1..Len(all) : i <= n \/ i > n
      BY <1>5, <1>6
    <3> HIDE DEF Sound
    <3> QED BY <1>7, <1>8, <3>1
  <2> HIDE DEF Sound
  <2>2. \A i \in 1..Len(events') : Sound(events'[i])
    BY <1>11, <2>1
  <2>3. ASSUME NEW i \in 1..Len(events'), NEW j \in 1..Len(events'), i < j
        PROVE  Follows(events'[j], events'[i])
    <3>1. /\ i + k \in 1..Len(all) /\ events'[i] = all[i + k]
          /\ j + k \in 1..Len(all) /\ events'[j] = all[j + k]
      BY <1>11
    <3>2. i + k < j + k
      BY <1>10, <1>11, <2>3
    <3> QED BY <1>9, <3>1, <3>2
  <2> USE DEF Sound
  <2>4. \A i, j \in 1..Len(events') : i < j => Follows(events'[j], events'[i])
    BY <2>3
  <2> QED BY <1>0, <2>2, <2>4 DEF EventsInv, Follows, Ends
<1>13. PlannerInv'
  BY <1>0, <1>1, <1>3, <1>4, SMTT(30) DEF PlannerInv
<1> QED BY <1>2, <1>12, <1>13

-----------------------------------------------------------------------------
(* The steps of the threads.                                                   *)

(* What a step of the reader thread leaves alone.                              *)
LEMMA ReaderKeeps ==
  ASSUME AudioInv, UNCHANGED <<source, decodeVars, output, playback>>,
         network' \subseteq network, events' \in Seq(Event)
  PROVE  AudioTypes' /\ LineInv' /\ TimeGoesForward'
BY DEF AudioInv, AudioTypes, LineInv, TimeGoesForward, Line, IsSamples, decodeVars

(* A queue that nothing is pushed to, and one that is pushed to.               *)
LEMMA EventsKept ==
  ASSUME events \in Seq(Event), UNCHANGED events
  PROVE  events' \in Seq(Event) /\ Suffix(events', events \o <<>>)
<1>1. events \o <<>> = events
  OBVIOUS
<1>2. Suffix(events, events)
  BY SelfSuffix
<1> QED BY <1>1, <1>2

LEMMA EventsPushed ==
  ASSUME events \in Seq(Event), NEW ready \in Seq(Event), Queued(ready)
  PROVE  events' \in Seq(Event) /\ Suffix(events', events \o ready)
<1>1. events \o ready \in Seq(Event) /\ QueuePackets + 1 \in Nat
  BY PlayoutAssumption
<1> QED BY <1>1, LatestSuffix DEF Queued

LEMMA DatagramStep ==
  ASSUME AudioInv, TakeDatagram
  PROVE  AudioInv'
<1>1. PICK d \in network, stale \in SUBSET {p.seq : p \in assembler.partial}, old \in SUBSET ordered.pending :
        /\ network' = network \ {d}
        /\ \/ UNCHANGED <<ordered, events>>
           \/ LET r == AfterPush(OrderAt(ordered, d.gen), d.seq, old)
              IN  ordered' = r.order /\ Queued(r.ready)
  BY Zenon DEF TakeDatagram
<1>2. UNCHANGED <<source, decodeVars, output, playback>>
  BY DEF TakeDatagram
<1>3. d.gen \in Nat /\ d.gen > 0 /\ d.seq \in Nat
  BY DEF AudioInv, AudioTypes
<1> DEFINE o == OrderAt(ordered, d.gen)
           r == AfterPush(o, d.seq, old)
           same == [order |-> ordered, ready |-> <<>>]
<1>4. /\ OrderOK(ordered) /\ EventsInv /\ PlannerInv /\ events \in Seq(Event)
      /\ planner.gen \in Nat /\ planner.expected \in Expected
  BY DEF AudioInv, AudioTypes
<1>5. CASE UNCHANGED <<ordered, events>>
  <2>1. Releasing(ordered, same)
    BY <1>4, NothingReleased
  <2>2. events' \in Seq(Event) /\ Suffix(events', events \o same.ready)
    BY <1>4, <1>5, EventsKept
  <2> HIDE DEF same
  <2>3. ordered' = same.order
    BY <1>5 DEF same
  <2>4. OrderOK(ordered)' /\ EventsInv' /\ PlannerInv'
    BY <1>2, <1>4, <2>1, <2>2, <2>3, OrderMoves
  <2> QED BY <1>1, <1>2, <2>2, <2>4, ReaderKeeps DEF AudioInv
<1>6. CASE ordered' = r.order /\ Queued(r.ready)
  <2>1. OrderOK(o) /\ o.gen >= d.gen /\ (o = ordered \/ o.gen > ordered.gen)
    BY <1>3, <1>4, OrderOfGeneration
  <2> HIDE DEF o
  <2>2. o.gen > 0
    BY <1>3, <2>1 DEF OrderOK
  <2>3. Releasing(o, r)
    BY <1>3, <2>1, <2>2, PushReleases
  <2> HIDE DEF r
  <2>4. events' \in Seq(Event) /\ Suffix(events', events \o r.ready)
    BY <1>4, <1>6, <2>3, EventsPushed DEF Releasing
  <2>5. OrderOK(ordered)' /\ EventsInv' /\ PlannerInv'
    BY <1>2, <1>4, <1>6, <2>1, <2>3, <2>4, OrderMoves
  <2> QED BY <1>1, <1>2, <2>4, <2>5, ReaderKeeps DEF AudioInv
<1> QED BY <1>1, <1>5, <1>6

LEMMA HostStateStep ==
  ASSUME AudioInv, HostState
  PROVE  AudioInv'
<1> DEFINE o == OrderAt(ordered, source.gen)
           r == [order |-> o, ready |-> <<>>]
<1>1. /\ ordered' = o /\ UNCHANGED events
      /\ UNCHANGED <<source, network, decodeVars, output, playback>>
  BY DEF HostState, hostVars
<1>2. /\ OrderOK(ordered) /\ EventsInv /\ PlannerInv /\ events \in Seq(Event)
      /\ planner.gen \in Nat /\ planner.expected \in Expected /\ source.gen \in Nat
  BY DEF AudioInv, AudioTypes, Place
<1>3. OrderOK(o) /\ (o = ordered \/ o.gen > ordered.gen)
  BY <1>2, OrderOfGeneration
<1> HIDE DEF o
<1>4. Releasing(o, r)
  BY <1>3, NothingReleased
<1>5. events' \in Seq(Event) /\ Suffix(events', events \o r.ready) /\ ordered' = r.order
  BY <1>1, <1>2, EventsKept
<1> HIDE DEF r
<1>6. OrderOK(ordered)' /\ EventsInv' /\ PlannerInv'
  BY <1>1, <1>2, <1>3, <1>4, <1>5, OrderMoves
<1> QED BY <1>1, <1>5, <1>6, ReaderKeeps DEF AudioInv

LEMMA TickStep ==
  ASSUME AudioInv, NEW stale, NEW old, ReaderTick(stale, old)
  PROVE  AudioInv'
<1> DEFINE r == Drained(ordered, old)
<1>1. /\ ordered' = r.order /\ Queued(r.ready)
      /\ UNCHANGED <<source, network, decodeVars, output, playback>>
  BY DEF ReaderTick, hostVars
<1>2. /\ OrderOK(ordered) /\ EventsInv /\ PlannerInv /\ events \in Seq(Event)
      /\ planner.gen \in Nat /\ planner.expected \in Expected
  BY DEF AudioInv, AudioTypes
<1>3. Releasing(ordered, r)
  BY <1>2, DrainReleases
<1> HIDE DEF r
<1>4. events' \in Seq(Event) /\ Suffix(events', events \o r.ready)
  BY <1>1, <1>2, <1>3, EventsPushed DEF Releasing
<1>5. OrderOK(ordered)' /\ EventsInv' /\ PlannerInv'
  BY <1>1, <1>2, <1>3, <1>4, OrderMoves
<1> QED BY <1>1, <1>4, <1>5, ReaderKeeps DEF AudioInv

(* The host only adds datagrams of the packet it is at.                        *)
LEMMA HostStep ==
  ASSUME AudioInv, Send \/ NewGeneration
  PROVE  AudioInv'
<1>1. source \in Place /\ source.gen \in Nat /\ source.gen > 0 /\ source.seq \in Nat
  BY DEF AudioInv, AudioTypes, Place
<1>2. source' \in Place /\ source'.gen > 0
  BY <1>1 DEF Send, NewGeneration, Stamp, Place
<1>3. network' \subseteq [gen : Nat \ {0}, seq : Nat, piece : Nat]
  <2>1. CASE Send
    <3>1. PICK sent \in {{}, {1}, Pieces(source.seq)} :
            network' = network \union {[gen |-> source.gen, seq |-> source.seq, piece |-> i] : i \in sent}
      BY <2>1 DEF Send
    <3>2. \A i \in sent : i \in Nat
      BY DEF Pieces
    <3> QED BY <1>1, <3>1, <3>2 DEF AudioInv, AudioTypes
  <2>2. CASE NewGeneration
    BY <2>2 DEF NewGeneration, AudioInv, AudioTypes
  <2> QED BY <2>1, <2>2
<1>4. UNCHANGED <<ordered, events, planner, decoder, heard, output, playback>>
  BY DEF Send, NewGeneration, receiveVars, decodeVars
<1>5. AudioTypes'
  BY <1>2, <1>3, <1>4 DEF AudioInv, AudioTypes
<1>6. OrderOK(ordered)' /\ EventsInv' /\ PlannerInv'
  BY <1>4 DEF AudioInv, OrderOK, EventsInv, PlannerInv, Follows, Ends
<1>7. LineInv' /\ TimeGoesForward'
  BY <1>4 DEF AudioInv, LineInv, TimeGoesForward, Line, IsSamples
<1> QED BY <1>5, <1>6, <1>7 DEF AudioInv

(* Dropping the oldest of what waits for the device.                           *)
LEMMA LineShorter ==
  ASSUME LineInv, TimeGoesForward, Line \in Seq(Item), Line' \in Seq(Item),
         Suffix(Line', Line), UNCHANGED planner
  PROVE  LineInv' /\ TimeGoesForward'
<1>1. PICK k \in 0..Len(Line) :
        Len(Line') = Len(Line) - k /\ \A i \in 1..Len(Line') : Line'[i] = Line[i + k]
  BY DEF Suffix
<1> DEFINE q == Line
           r == Line'
<1>2. \A i \in 1..Len(r) : i + k \in 1..Len(q) /\ r[i] = q[i + k]
  BY <1>1
<1>3. LineInv = \A i \in 1..Len(q) : q[i].is = "samples" => q[i].gen <= planner.gen
  BY DEF LineInv, IsSamples
<1>4. LineInv' = \A i \in 1..Len(r) : r[i].is = "samples" => r[i].gen <= planner'.gen
  BY DEF LineInv, IsSamples
<1>5. DOMAIN q = 1..Len(q) /\ DOMAIN r = 1..Len(r) /\ Len(r) \in Nat
  OBVIOUS
<1>6. TimeGoesForward = \A i \in 1..Len(q) : q[i].is = "samples" =>
        /\ \A j \in 1..Len(q) : j > i /\ q[j].is = "samples" => After(q[j], q[i])
        /\ q[i].gen = planner.gen => planner.expected >= q[i].seq + q[i].packets
  BY <1>5 DEF TimeGoesForward, IsSamples
<1>7. TimeGoesForward' = \A i \in 1..Len(r) : r[i].is = "samples" =>
        /\ \A j \in 1..Len(r) : j > i /\ r[j].is = "samples" => After(r[j], r[i])
        /\ r[i].gen = planner'.gen => planner'.expected >= r[i].seq + r[i].packets
  BY <1>5 DEF TimeGoesForward, IsSamples, After
<1> HIDE DEF q, r
<1>8. \A i, j \in 1..Len(r) : j > i => j + k > i + k
  BY <1>1, <1>5
<1>9. LineInv'
  BY <1>2, <1>3, <1>4
<1>10. TimeGoesForward'
  BY <1>2, <1>6, <1>7, <1>8
<1> QED BY <1>9, <1>10

(* A suffix stays one if the same is put behind both.                          *)
LEMMA SuffixConcat ==
  ASSUME NEW S, NEW q \in Seq(S), NEW s \in Seq(S), NEW t \in Seq(S), Suffix(q, s)
  PROVE  Suffix(q \o t, s \o t)
<1>1. PICK k \in 0..Len(s) : Len(q) = Len(s) - k /\ \A i \in 1..Len(q) : q[i] = s[i + k]
  BY DEF Suffix
<1> DEFINE a == q \o t
           b == s \o t
<1>2. Len(a) = Len(q) + Len(t) /\ Len(b) = Len(s) + Len(t)
  OBVIOUS
<1>3. k \in 0..Len(b) /\ Len(a) = Len(b) - k
  BY <1>1, <1>2
<1>4. ASSUME NEW i \in 1..Len(a) PROVE a[i] = b[i + k]
  <2>1. CASE i <= Len(q)
    <3>1. i \in 1..Len(q) /\ i + k \in 1..Len(s)
      BY <1>1, <2>1
    <3> QED BY <1>1, <3>1
  <2>2. CASE ~(i <= Len(q))
    <3>1. a[i] = t[i - Len(q)]
      BY <1>2, <2>2
    <3>2. i + k > Len(s) /\ i + k \in 1..Len(b)
      BY <1>1, <1>2, <2>2
    <3>3. b[i + k] = t[i + k - Len(s)]
      BY <1>2, <3>2
    <3>4. i + k - Len(s) = i - Len(q)
      BY <1>1
    <3> QED BY <3>1, <3>3, <3>4
  <2> QED BY <2>1, <2>2
<1> HIDE DEF a, b
<1>5. Suffix(a, b)
  BY <1>3, <1>4 DEF Suffix
<1> QED BY <1>5 DEF a, b

(* A change of the playback queue that only drops what waits.                  *)
LEMMA PlaybackStep ==
  ASSUME AudioInv, playback' \in [items : Seq(Item), reset : BOOLEAN], output' \in Seq(Item),
         Suffix(Line', Line),
         UNCHANGED <<hostVars, receiveVars, events, decodeVars>>
  PROVE  AudioInv'
<1>1. UNCHANGED <<source, network, ordered, events, planner, decoder, heard>>
  BY DEF hostVars, receiveVars, decodeVars
<1>2. AudioTypes'
  BY <1>1 DEF AudioInv, AudioTypes
<1>3. OrderOK(ordered)' /\ EventsInv' /\ PlannerInv'
  <2>1. OrderOK(ordered)'
    BY <1>1 DEF AudioInv, OrderOK
  <2>2. EventsInv'
    BY <1>1 DEF AudioInv, EventsInv, Follows, Ends
  <2>3. PlannerInv'
    BY <1>1 DEF AudioInv, PlannerInv
  <2> QED BY <2>1, <2>2, <2>3
<1>4. Line \in Seq(Item) /\ Line' \in Seq(Item)
  BY <1>2 DEF AudioInv, AudioTypes, Line
<1>5. LineInv' /\ TimeGoesForward'
  BY <1>1, <1>4, LineShorter DEF AudioInv
<1> QED BY <1>2, <1>3, <1>5 DEF AudioInv

(* Whatever the event, the queue keeps no more than it had with the event.     *)
LEMMA EmitStep ==
  ASSUME AudioInv, Emit
  PROVE  AudioInv'
<1> DEFINE items == playback.items
           h == Head(output)
           more == Append(items, h)
<1>1. items \in Seq(Item) /\ output \in Seq(Item) /\ output # <<>> /\ playback.reset \in BOOLEAN
      /\ playback \in [items : Seq(Item), reset : BOOLEAN]
  BY DEF AudioInv, AudioTypes, Emit
<1>2. h \in Item /\ output' = Tail(output) /\ output' \in Seq(Item)
  BY <1>1 DEF Emit
<1>3. more \in Seq(Item) /\ more \o output' = items \o output
  BY <1>1, <1>2
<1>4. Suffix(<<>>, more) /\ <<>> \in Seq(Item)
  <2>1. Len(more) \in 0..Len(more) /\ Len(<<>>) = Len(more) - Len(more)
    BY <1>3
  <2>2. \A i \in 1..Len(<<>>) : <<>>[i] = more[i + Len(more)]
    OBVIOUS
  <2> HIDE DEF more
  <2> QED BY <2>1, <2>2 DEF Suffix
<1>5. PlayCapacity \in Nat
  BY PlayoutAssumption
<1>6. playback' = CASE h.is = "reset" -> [items |-> <<>>, reset |-> TRUE]
                    [] h.is = "failed" -> [playback EXCEPT !.items = <<>>]
                    [] OTHER -> [playback EXCEPT !.items = Latest(more, PlayCapacity)]
  BY DEF Emit
<1> HIDE DEF more
<1>7. Latest(more, PlayCapacity) \in Seq(Item) /\ Suffix(Latest(more, PlayCapacity), more)
  BY <1>3, <1>5, LatestSuffix
<1> DEFINE late == Latest(more, PlayCapacity)
<1> HIDE DEF late, items
<1>8. playback' \in [items : Seq(Item), reset : BOOLEAN] /\ Suffix(playback'.items, more)
  <2>1. CASE h.is = "reset"
    BY <1>4, <1>6, <2>1
  <2>2. CASE h.is = "failed"
    BY <1>1, <1>4, <1>6, <2>2
  <2>3. CASE h.is # "reset" /\ h.is # "failed"
    <3>1. playback' = [playback EXCEPT !.items = late]
      BY <1>6, <2>3 DEF late
    <3>2. late \in Seq(Item) /\ Suffix(late, more)
      BY <1>7 DEF late
    <3> QED BY <1>1, <3>1, <3>2
  <2> QED BY <2>1, <2>2, <2>3
<1>9. Suffix(playback'.items \o output', more \o output')
  BY <1>2, <1>3, <1>8, SuffixConcat
<1>10. Suffix(Line', Line)
  BY <1>3, <1>9 DEF Line, items
<1>11. UNCHANGED <<hostVars, receiveVars, events, decodeVars>>
  BY DEF Emit
<1> QED BY <1>2, <1>8, <1>10, <1>11, PlaybackStep

(* The window's loop takes the oldest of what waits, or nothing.               *)
LEMMA WindowStep ==
  ASSUME AudioInv, Turn \/ Pop \/ DevicePlays
  PROVE  AudioInv'
<1>1. /\ playback \in [items : Seq(Item), reset : BOOLEAN] /\ output \in Seq(Item)
  BY DEF AudioInv, AudioTypes
<1>2. UNCHANGED <<hostVars, receiveVars, events, decodeVars, output>>
  BY DEF Turn, Pop, DevicePlays
<1>3. \/ playback'.items = playback.items
      \/ playback.items # <<>> /\ playback'.items = Tail(playback.items)
  BY <1>1 DEF Turn, Pop, DevicePlays
<1>4. playback' \in [items : Seq(Item), reset : BOOLEAN]
  <2>1. playback.items # <<>> => Tail(playback.items) \in Seq(Item)
    BY <1>1
  <2> QED BY <1>1, <2>1 DEF Turn, Pop, DevicePlays
<1>5. Suffix(playback'.items, playback.items)
  <2>1. CASE playback'.items = playback.items
    <3>1. playback.items \in Seq(Item)
      BY <1>1
    <3>2. Suffix(playback.items, playback.items)
      BY <3>1, SelfSuffix
    <3> QED BY <2>1, <3>2
  <2>2. CASE playback.items # <<>> /\ playback'.items = Tail(playback.items)
    BY <1>1, <2>2, TailSuffix
  <2> QED BY <1>3, <2>1, <2>2
<1>6. Suffix(Line', Line)
  <2>1. Suffix(playback'.items \o output, playback.items \o output)
    BY <1>1, <1>4, <1>5, SuffixConcat
  <2> QED BY <1>2, <2>1 DEF Line
<1> QED BY <1>1, <1>2, <1>4, <1>6, PlaybackStep

-----------------------------------------------------------------------------
(* The consumer.                                                               *)

(* Decoded items whose samples follow each other between two numbers.          *)
Between(q, gen, low, high) ==
  /\ q \in Seq(Item)
  /\ \A i \in 1..Len(q) : q[i].is = "samples" =>
       /\ q[i].gen = gen /\ q[i].seq >= low /\ q[i].seq + q[i].packets <= high
       /\ \A j \in 1..Len(q) : j > i /\ q[j].is = "samples" => q[j].seq >= q[i].seq + q[i].packets

LEMMA AppendBetween ==
  ASSUME NEW gen, NEW low \in Int, NEW mid \in Int, NEW high \in Int, low <= mid, mid <= high,
         NEW q, Between(q, gen, low, mid),
         NEW item \in Item,
         item.is = "samples" => item.gen = gen /\ item.seq >= mid /\ item.seq + item.packets <= high
  PROVE  Between(Append(q, item), gen, low, high)
<1> DEFINE r == Append(q, item)
           n == Len(q)
<1>1. /\ r \in Seq(Item) /\ n \in Nat /\ Len(r) = n + 1
      /\ \A i \in 1..n : r[i] = q[i]
      /\ r[n + 1] = item
  BY DEF Between
<1>2. \A i \in 1..(n + 1) : r[i] \in Item /\ r[i].seq \in Nat /\ r[i].packets \in Nat
  <2>1. \A i \in 1..(n + 1) : r[i] \in Item
    BY <1>1
  <2> HIDE DEF r
  <2> QED BY <2>1 DEF Item
<1>3. \A i \in 1..n : r[i].is = "samples" =>
        /\ r[i].gen = gen /\ r[i].seq >= low /\ r[i].seq + r[i].packets <= mid
        /\ \A j \in 1..n : j > i /\ r[j].is = "samples" => r[j].seq >= r[i].seq + r[i].packets
  BY <1>1 DEF Between
<1> HIDE DEF r, n
<1>4. ASSUME NEW i \in 1..(n + 1), r[i].is = "samples"
      PROVE  /\ r[i].gen = gen /\ r[i].seq >= low /\ r[i].seq + r[i].packets <= high
             /\ \A j \in 1..(n + 1) : j > i /\ r[j].is = "samples" => r[j].seq >= r[i].seq + r[i].packets
  <2>1. CASE i = n + 1
    BY <1>1, <1>2, <1>4, <2>1
  <2>2. CASE i # n + 1
    <3>1. i \in 1..n
      BY <1>1, <2>2
    <3>2. /\ r[i].gen = gen /\ r[i].seq >= low /\ r[i].seq + r[i].packets <= mid
          /\ r[i].seq \in Nat /\ r[i].packets \in Nat
      BY <1>2, <1>3, <1>4, <3>1
    <3>3. ASSUME NEW j \in 1..(n + 1), j > i, r[j].is = "samples"
          PROVE  r[j].seq >= r[i].seq + r[i].packets
      <4>1. CASE j \in 1..n
        BY <1>3, <1>4, <3>1, <3>3, <4>1
      <4>2. CASE j = n + 1
        <5>1. r[j] = item /\ item.seq \in Nat /\ item.seq >= mid
          BY <1>1, <1>2, <3>3, <4>2
        <5> QED BY <3>2, <5>1
      <4> QED BY <1>1, <4>1, <4>2
    <3> QED BY <3>2, <3>3
  <2> QED BY <2>1, <2>2
<1>5. Between(r, gen, low, high)
  BY <1>1, <1>4 DEF Between
<1> QED BY <1>5 DEF r

(* What the decoder puts out is behind everything that waits.                  *)
LEMMA LineLonger ==
  ASSUME AudioInv, output = <<>>, UNCHANGED playback,
         planner'.gen \in Nat, planner'.gen >= planner.gen, planner'.expected \in Nat,
         planner'.gen = planner.gen => planner'.expected >= planner.expected,
         NEW low \in Int, planner'.gen = planner.gen => low >= planner.expected,
         Between(output', planner'.gen, low, planner'.expected)
  PROVE  LineInv' /\ TimeGoesForward'
<1> DEFINE q == playback.items
           r == q \o output'
           n == Len(q)
<1>1. /\ q \in Seq(Item) /\ output' \in Seq(Item) /\ n \in Nat
      /\ planner.gen \in Nat /\ planner.expected \in Int
  BY DEF AudioInv, AudioTypes, Between, Expected, Unknown
<1>2. Line = q /\ Line' = r
  BY <1>1 DEF Line
<1>3. /\ r \in Seq(Item) /\ Len(r) = n + Len(output') /\ Len(output') \in Nat
      /\ \A i \in 1..n : r[i] = q[i]
      /\ \A i \in 1..Len(r) : ~(i <= n) => i - n \in 1..Len(output') /\ r[i] = output'[i - n]
  BY <1>1, SMTT(30)
<1>4. \A i \in 1..Len(r) : r[i].gen \in Nat /\ r[i].seq \in Nat /\ r[i].packets \in Nat
  <2>1. \A i \in 1..Len(r) : r[i] \in Item
    BY <1>3
  <2> HIDE DEF r
  <2> QED BY <2>1 DEF Item
<1>5. \A i \in 1..n : r[i].is = "samples" =>
        /\ r[i].gen <= planner.gen
        /\ \A j \in 1..n : j > i /\ r[j].is = "samples" => After(r[j], r[i])
        /\ r[i].gen = planner.gen => planner.expected >= r[i].seq + r[i].packets
  <2>1. \A i \in 1..n : q[i].is = "samples" =>
          /\ q[i].gen <= planner.gen
          /\ \A j \in 1..n : j > i /\ q[j].is = "samples" => After(q[j], q[i])
          /\ q[i].gen = planner.gen => planner.expected >= q[i].seq + q[i].packets
    BY <1>1, <1>2 DEF AudioInv, LineInv, TimeGoesForward, IsSamples
  <2> QED BY <1>3, <2>1
<1>6. \A i \in 1..Len(r) : ~(i <= n) /\ r[i].is = "samples" =>
        /\ r[i].gen = planner'.gen /\ r[i].seq >= low
        /\ r[i].seq + r[i].packets <= planner'.expected
        /\ \A j \in 1..Len(r) : j > i /\ r[j].is = "samples" => r[j].seq >= r[i].seq + r[i].packets
  <2> SUFFICES ASSUME NEW i \in 1..Len(r), ~(i <= n), r[i].is = "samples"
               PROVE  /\ r[i].gen = planner'.gen /\ r[i].seq >= low
                      /\ r[i].seq + r[i].packets <= planner'.expected
                      /\ \A j \in 1..Len(r) : j > i /\ r[j].is = "samples" =>
                           r[j].seq >= r[i].seq + r[i].packets
    OBVIOUS
  <2>1. i - n \in 1..Len(output') /\ r[i] = output'[i - n]
    BY <1>3
  <2>2. \A j \in 1..Len(r) : j > i => j - n \in 1..Len(output') /\ r[j] = output'[j - n] /\ j - n > i - n
    BY <1>1, <1>3, SMTT(30)
  <2> QED BY <2>1, <2>2 DEF Between
<1> HIDE DEF q, r, n
<1>7. ASSUME NEW i \in 1..Len(r), r[i].is = "samples"
      PROVE  /\ r[i].gen <= planner'.gen
             /\ \A j \in 1..Len(r) : j > i /\ r[j].is = "samples" => After(r[j], r[i])
             /\ r[i].gen = planner'.gen => planner'.expected >= r[i].seq + r[i].packets
  <2>1. CASE i <= n
    <3>1. /\ i \in 1..n
          /\ r[i].gen <= planner.gen
          /\ r[i].gen = planner.gen => planner.expected >= r[i].seq + r[i].packets
          /\ r[i].gen \in Nat /\ r[i].seq \in Nat /\ r[i].packets \in Nat
      BY <1>1, <1>4, <1>5, <1>7, <2>1
    <3>2. ASSUME NEW j \in 1..Len(r), j > i, r[j].is = "samples" PROVE After(r[j], r[i])
      <4>1. CASE j <= n
        <5>1. j \in 1..n
          BY <1>1, <4>1
        <5> QED BY <1>5, <1>7, <3>1, <3>2, <5>1
      <4>2. CASE ~(j <= n)
        <5>1. r[j].gen = planner'.gen /\ r[j].seq >= low /\ r[j].gen \in Nat /\ r[j].seq \in Nat
          BY <1>4, <1>6, <3>2, <4>2
        <5>2. CASE r[i].gen = planner'.gen
          <6>0. planner'.gen = planner.gen
            BY <1>1, <3>1, <5>2
          <6>1. low >= planner.expected /\ planner.expected >= r[i].seq + r[i].packets
            BY <3>1, <5>2, <6>0
          <6>2. \A a, b, c, d, e \in Int : a >= b /\ b >= c /\ c >= d + e => a >= d + e
            OBVIOUS
          <6>3. r[j].seq >= r[i].seq + r[i].packets
            BY <1>1, <3>1, <5>1, <6>1, <6>2, SMTT(30)
          <6> QED BY <5>1, <5>2, <6>3 DEF After
        <5>3. CASE r[i].gen # planner'.gen
          <6>1. r[j].gen > r[i].gen
            BY <1>1, <3>1, <5>1, <5>3, SMTT(30)
          <6> QED BY <6>1 DEF After
        <5> QED BY <5>2, <5>3
      <4> QED BY <4>1, <4>2
    <3>3. r[i].gen <= planner'.gen
      BY <1>1, <3>1, SMTT(30)
    <3>4. r[i].gen = planner'.gen => planner'.expected >= r[i].seq + r[i].packets
      BY <1>1, <3>1, SMTT(30)
    <3> QED BY <3>2, <3>3, <3>4
  <2>2. CASE ~(i <= n)
    <3>1. /\ r[i].gen = planner'.gen /\ r[i].seq + r[i].packets <= planner'.expected
          /\ r[i].seq \in Nat /\ r[i].packets \in Nat
          /\ \A j \in 1..Len(r) : j > i /\ r[j].is = "samples" => r[j].seq >= r[i].seq + r[i].packets
      BY <1>4, <1>6, <1>7, <2>2
    <3>2. \A j \in 1..Len(r) : j > i /\ r[j].is = "samples" => r[j].gen = r[i].gen
      <4> SUFFICES ASSUME NEW j \in 1..Len(r), j > i, r[j].is = "samples" PROVE r[j].gen = r[i].gen
        OBVIOUS
      <4>1. ~(j <= n)
        BY <1>1, <2>2
      <4> QED BY <1>6, <3>1, <4>1
    <3> QED BY <3>1, <3>2 DEF After
  <2> QED BY <2>1, <2>2
<1>8. DOMAIN r = 1..Len(r)
  BY <1>3
<1>9. LineInv'
  BY <1>2, <1>7 DEF LineInv, IsSamples
<1>10. TimeGoesForward'
  BY <1>2, <1>7, <1>8 DEF TimeGoesForward, IsSamples, After
<1> QED BY <1>9, <1>10

(* The head of the events, as the invariant knows it, and what is behind it.   *)
LEMMA HeadEvent ==
  ASSUME AudioInv, events # <<>>
  PROVE  LET e == Head(events)
         IN  /\ e.is \in {"packet", "missing"}
             /\ e.gen \in Nat /\ e.seq \in Nat /\ e.missing \in Nat /\ Ends(e) \in Nat
             /\ e.gen > 0 /\ e.gen <= ordered.gen /\ e.gen >= planner.gen
             /\ e.gen = ordered.gen => ordered.started /\ Ends(e) <= ordered.expected
             /\ e.gen = planner.gen => e.seq >= planner.expected
             /\ Tail(events) \in Seq(Event)
             /\ \A i \in 1..Len(Tail(events)) :
                  i + 1 \in 1..Len(events) /\ Tail(events)[i] = events[i + 1] /\ Follows(Tail(events)[i], e)
<1>1. /\ events \in Seq(Event) /\ 1 \in 1..Len(events) /\ Head(events) = events[1]
      /\ Tail(events) \in Seq(Event)
      /\ \A i \in 1..Len(Tail(events)) :
           i + 1 \in 1..Len(events) /\ Tail(events)[i] = events[i + 1] /\ 1 < i + 1
  BY DEF AudioInv, AudioTypes
<1>2. events[1] \in Event
  BY <1>1
<1>3. /\ events[1].is \in {"packet", "missing"}
      /\ events[1].gen \in Nat /\ events[1].seq \in Nat /\ events[1].missing \in Nat
      /\ Ends(events[1]) \in Nat
  BY <1>2 DEF Event, Ends
<1>4. /\ events[1].gen > 0 /\ events[1].gen <= ordered.gen
      /\ events[1].gen = ordered.gen => ordered.started /\ Ends(events[1]) <= ordered.expected
      /\ events[1].gen >= planner.gen
      /\ events[1].gen = planner.gen => events[1].seq >= planner.expected
  BY <1>1 DEF AudioInv, EventsInv
<1>5. \A i \in 1..Len(Tail(events)) : Follows(Tail(events)[i], events[1])
  BY <1>1 DEF AudioInv, EventsInv
<1> QED BY <1>1, <1>3, <1>4, <1>5

(* After an event that is not ignored the planner expects what follows it.     *)
LEMMA PlannerMoves ==
  ASSUME AudioInv, events # <<>>, events' = Tail(events),
         planner'.gen = Head(events).gen, planner'.expected = Ends(Head(events)),
         UNCHANGED ordered,
         heard' \in Place,
         heard' = heard \/ (heard'.gen = Head(events).gen /\ heard'.seq < Ends(Head(events))),
         decoder' # NoPacket =>
           decoder' = heard' /\ planner'.gen = heard'.gen /\ planner'.expected = heard'.seq + 1
  PROVE  /\ EventsInv' /\ PlannerInv'
         /\ planner'.gen \in Nat /\ planner'.gen >= planner.gen /\ planner'.expected \in Nat
         /\ planner'.gen = planner.gen => planner'.expected >= planner.expected
<1> DEFINE e == Head(events)
           rest == Tail(events)
<1>1. /\ e.is \in {"packet", "missing"}
      /\ e.gen \in Nat /\ e.seq \in Nat /\ e.missing \in Nat /\ Ends(e) \in Nat
      /\ e.gen > 0 /\ e.gen <= ordered.gen /\ e.gen >= planner.gen
      /\ e.gen = ordered.gen => ordered.started /\ Ends(e) <= ordered.expected
      /\ e.gen = planner.gen => e.seq >= planner.expected
      /\ rest \in Seq(Event)
      /\ \A i \in 1..Len(rest) :
           i + 1 \in 1..Len(events) /\ rest[i] = events[i + 1] /\ Follows(rest[i], e)
  BY HeadEvent
<1>2. planner'.gen = e.gen /\ planner'.expected = Ends(e) /\ events' = rest
  OBVIOUS
<1>3. /\ planner.gen \in Nat /\ planner.expected \in Int /\ heard \in Place
      /\ heard.gen \in Nat /\ heard.seq \in Nat /\ heard'.gen \in Nat /\ heard'.seq \in Nat
      /\ ordered.gen \in Nat
  BY DEF AudioInv, AudioTypes, Place, Expected, Unknown, OrderOK
<1>4. Ends(e) >= e.seq
  BY <1>1 DEF Ends
<1>5. heard' = heard \/ (heard'.gen = e.gen /\ heard'.seq < Ends(e))
  OBVIOUS
<1> HIDE DEF e, rest
<1>6. planner'.gen = planner.gen => planner'.expected >= planner.expected
  BY <1>1, <1>2, <1>3, <1>4
<1>7. EventsInv'
  <2>1. ASSUME NEW i \in 1..Len(rest)
        PROVE  /\ rest[i].gen > 0 /\ rest[i].gen <= ordered.gen
               /\ rest[i].gen = ordered.gen => ordered.started /\ Ends(rest[i]) <= ordered.expected
               /\ rest[i].gen >= e.gen
               /\ rest[i].gen = e.gen => rest[i].seq >= Ends(e)
    <3>1. i + 1 \in 1..Len(events) /\ rest[i] = events[i + 1] /\ Follows(rest[i], e)
      BY <1>1
    <3>2. /\ events[i + 1].gen > 0 /\ events[i + 1].gen <= ordered.gen
          /\ events[i + 1].gen = ordered.gen => ordered.started /\ Ends(events[i + 1]) <= ordered.expected
      BY <3>1 DEF AudioInv, EventsInv
    <3>3. rest[i] \in Event
      BY <1>1
    <3>4. rest[i].gen \in Nat
      BY <3>3 DEF Event
    <3> QED BY <1>1, <3>1, <3>2, <3>4 DEF Follows
  <2>2. ASSUME NEW i \in 1..Len(rest), NEW j \in 1..Len(rest), i < j PROVE Follows(rest[j], rest[i])
    <3>1. /\ i + 1 \in 1..Len(events) /\ rest[i] = events[i + 1]
          /\ j + 1 \in 1..Len(events) /\ rest[j] = events[j + 1]
      BY <1>1
    <3>2. i + 1 < j + 1
      BY <2>2
    <3> QED BY <3>1, <3>2 DEF AudioInv, EventsInv
  <2>3. \A i \in 1..Len(events') :
          /\ events'[i].gen > 0 /\ events'[i].gen <= ordered'.gen
          /\ events'[i].gen = ordered'.gen => ordered'.started /\ Ends(events'[i]) <= ordered'.expected
          /\ events'[i].gen >= planner'.gen
          /\ events'[i].gen = planner'.gen => events'[i].seq >= planner'.expected
    BY <1>2, <2>1
  <2>4. \A i, j \in 1..Len(events') : i < j => Follows(events'[j], events'[i])
    BY <1>2, <2>2
  <2> QED BY <2>3, <2>4 DEF EventsInv, Follows, Ends
<1>8. PlannerInv'
  <2>1. /\ planner'.gen <= ordered.gen
        /\ planner'.gen = ordered.gen => ordered.started /\ planner'.expected <= ordered.expected
    BY <1>1, <1>2
  <2>2. heard'.gen <= planner'.gen /\ (heard'.gen = planner'.gen /\ heard' # NoPacket => heard'.seq < planner'.expected)
    <3>1. CASE heard' = heard
      <4>1. heard.gen <= planner.gen /\ (heard.gen = planner.gen /\ heard # NoPacket => heard.seq < planner.expected)
        BY DEF AudioInv, PlannerInv
      <4>2. planner.gen <= planner'.gen /\ planner'.gen \in Nat /\ planner'.expected \in Nat
        BY <1>1, <1>2
      <4>3. heard.gen <= planner'.gen
        BY <1>3, <4>1, <4>2
      <4>4. heard.gen = planner'.gen => heard.gen = planner.gen /\ planner'.gen = planner.gen
        BY <1>3, <4>1, <4>2
      <4>5. heard.gen = planner'.gen /\ heard # NoPacket => heard.seq < planner'.expected
        BY <1>3, <1>6, <4>1, <4>2, <4>4
      <4> QED BY <3>1, <4>3, <4>5
    <3>2. CASE heard'.gen = e.gen /\ heard'.seq < Ends(e)
      BY <1>1, <1>2, <1>3, <3>2
    <3> QED BY <1>5, <3>1, <3>2
  <2>3. NoPacket' = NoPacket
    BY DEF NoPacket, Stamp
  <2> QED BY <2>1, <2>2, <2>3 DEF PlannerInv
<1> QED BY <1>1, <1>2, <1>6, <1>7, <1>8

(* What Consume does with an event: nothing, a gap, a packet, a failure.       *)
LEMMA ConsumeStep ==
  ASSUME AudioInv, Consume
  PROVE  AudioInv' /\ (Stream!Next \/ UNCHANGED <<heard, continued>>)
<1> DEFINE e == Head(events)
           p == PlannerAt(planner, e.gen)
           reset == IF NeedsReset(planner, e) THEN <<ResetItem>> ELSE <<>>
           before == reset \o Silence(p, e)
           state == IF NeedsReset(planner, e) THEN NoPacket ELSE decoder
           next == Ends(e)
           gap == p.expected # Unknown /\ e.seq > p.expected
<1>1. /\ events # <<>> /\ output = <<>> /\ events' = Tail(events)
      /\ UNCHANGED <<source, network, ordered, playback>>
  BY DEF Consume, hostVars, receiveVars
<1>2. /\ e.is \in {"packet", "missing"}
      /\ e.gen \in Nat /\ e.seq \in Nat /\ e.missing \in Nat /\ next \in Nat
      /\ e.gen > 0 /\ e.gen >= planner.gen
      /\ e.gen = planner.gen => e.seq >= planner.expected
      /\ Tail(events) \in Seq(Event)
  BY <1>1, HeadEvent
<1>3. /\ planner \in [gen : Nat, expected : Expected, failed : BOOLEAN]
      /\ decoder \in Place /\ heard \in Place /\ output \in Seq(Item)
      /\ OrderOK(ordered) /\ EventsInv
  BY DEF AudioInv, AudioTypes
<1>4. /\ p \in [gen : Nat, expected : Expected, failed : BOOLEAN]
      /\ p.gen = e.gen /\ p.expected \in Int /\ p.expected >= Unknown
      /\ e.gen = planner.gen => p = planner
      /\ e.gen # planner.gen => p.expected = Unknown
      /\ e.seq >= p.expected
  BY <1>2, <1>3 DEF PlannerAt, Expected, Unknown
<1>5. /\ NeedsReset(planner, e) <=> e.gen > planner.gen \/ e.is = "missing" \/ gap
      /\ GapBefore(p, e) <=> gap
  BY DEF NeedsReset, GapBefore
<1>6. OrderOK(ordered)'
  BY <1>1, <1>3 DEF OrderOK
<1>7. CASE Ignored(planner, e) /\ UNCHANGED <<decodeVars, output>>
  <2>1. UNCHANGED <<planner, decoder, heard, continued, output, ordered, playback>>
    BY <1>1, <1>7 DEF decodeVars
  <2>2. \A i \in 1..Len(Tail(events)) : i + 1 \in 1..Len(events) /\ Tail(events)[i] = events[i + 1]
    BY <1>1, HeadEvent
  <2>3. EventsInv'
    <3>1. \A i, j \in 1..Len(Tail(events)) : i < j => i + 1 < j + 1
      OBVIOUS
    <3>2. \A i, j \in 1..Len(Tail(events)) : i < j => Follows(Tail(events)[j], Tail(events)[i])
      BY <1>3, <2>2, <3>1 DEF EventsInv
    <3>3. \A i \in 1..Len(Tail(events)) :
            /\ Tail(events)[i].gen > 0 /\ Tail(events)[i].gen <= ordered.gen
            /\ Tail(events)[i].gen = ordered.gen =>
                 ordered.started /\ Ends(Tail(events)[i]) <= ordered.expected
            /\ Tail(events)[i].gen >= planner.gen
            /\ Tail(events)[i].gen = planner.gen => Tail(events)[i].seq >= planner.expected
      BY <1>3, <2>2 DEF EventsInv
    <3> QED BY <1>1, <2>1, <3>2, <3>3 DEF EventsInv, Follows, Ends
  <2>4. AudioTypes'
    BY <1>1, <1>2, <2>1 DEF AudioInv, AudioTypes
  <2>5. PlannerInv' /\ LineInv' /\ TimeGoesForward'
    BY <2>1 DEF AudioInv, PlannerInv, LineInv, TimeGoesForward, Line, IsSamples
  <2> QED BY <1>6, <2>1, <2>3, <2>4, <2>5 DEF AudioInv
<1>8. Between(reset, e.gen, p.expected, p.expected)
  <2>1. ResetItem \in Item /\ ResetItem.is # "samples"
    BY DEF ResetItem, Item
  <2>2. Between(<<ResetItem>>, e.gen, p.expected, p.expected)
    BY <2>1 DEF Between
  <2>3. Between(<<>>, e.gen, p.expected, p.expected)
    BY DEF Between
  <2> QED BY <2>2, <2>3
<1> DEFINE Sound(out, nextPlanner, nextDecoder, nextHeard, nextContinued) ==
      /\ Between(out, e.gen, p.expected, next)
      /\ nextPlanner \in [gen : Nat, expected : Expected, failed : BOOLEAN]
      /\ nextPlanner.gen = e.gen /\ nextPlanner.expected = next
      /\ nextDecoder \in Place /\ nextHeard \in Place
      /\ nextHeard = heard \/ (nextHeard.gen = e.gen /\ nextHeard.seq < next)
      /\ nextDecoder # NoPacket =>
           nextDecoder = nextHeard /\ nextPlanner.gen = nextHeard.gen /\ nextPlanner.expected = nextHeard.seq + 1
<1> HIDE DEF e
<1>9. ASSUME Sound(output', planner', decoder', heard', continued') PROVE AudioInv'
  <2>1. /\ EventsInv' /\ PlannerInv'
        /\ planner'.gen \in Nat /\ planner'.gen >= planner.gen /\ planner'.expected \in Nat
        /\ planner'.gen = planner.gen => planner'.expected >= planner.expected
    BY <1>1, <1>9, PlannerMoves DEF e
  <2>2. AudioTypes'
    BY <1>1, <1>2, <1>9 DEF AudioInv, AudioTypes, Between
  <2>3. planner'.gen = planner.gen => p.expected >= planner.expected
    BY <1>3, <1>4, <1>9 DEF Expected, Unknown
  <2>4. LineInv' /\ TimeGoesForward'
    <3>1. Between(output', planner'.gen, p.expected, planner'.expected)
      BY <1>9
    <3> HIDE DEF p
    <3> QED BY <1>1, <1>4, <2>1, <2>3, <3>1, LineLonger
  <2> QED BY <1>6, <2>1, <2>2, <2>4 DEF AudioInv
<1>10. CASE /\ e.is = "missing"
            /\ planner' = [p EXCEPT !.expected = e.seq + e.missing]
            /\ decoder' = state /\ output' = before
            /\ UNCHANGED <<heard, continued>>
  <2> DEFINE item == Samples(e, e.seq, Concealed(p, e))
  <2>1. Concealed(p, e) \in Nat /\ Concealed(p, e) <= e.missing
    <3>1. MaxConcealed \in Nat
      BY PlayoutAssumption
    <3> QED BY <1>2, <1>10, <3>1 DEF Concealed, AtMost
  <2>2. /\ item \in Item /\ item.gen = e.gen /\ item.seq = e.seq
        /\ item.packets = Concealed(p, e)
    BY <1>2, <2>1 DEF Samples, Item
  <2>3. before = Append(reset, item)
    <3>1. Silence(p, e) = <<item>>
      BY <1>10 DEF Silence
    <3>2. reset \in Seq(Item)
      BY <1>8 DEF Between
    <3> HIDE DEF reset, item
    <3> QED BY <2>2, <3>1, <3>2
  <2>4. next = e.seq + e.missing
    BY <1>10 DEF Ends
  <2>5. Between(Append(reset, item), e.gen, p.expected, next)
    <3> HIDE DEF reset, item, next, p
    <3> QED BY <1>2, <1>4, <1>8, <2>1, <2>2, <2>4, AppendBetween
  <2>6. state = NoPacket
    BY <1>5, <1>10
  <2>7. planner' \in [gen : Nat, expected : Expected, failed : BOOLEAN] /\ planner'.gen = e.gen /\ planner'.expected = next
    <3> HIDE DEF p, next
    <3> QED BY <1>2, <1>4, <1>10, <2>4 DEF Expected
  <2>8. decoder' = NoPacket /\ NoPacket \in Place /\ heard' \in Place
    BY <1>3, <1>10, <2>6 DEF NoPacket, Stamp, Place
  <2>9. output' = Append(reset, item)
    BY <1>10, <2>3
  <2>10. Sound(output', planner', decoder', heard', continued')
    <3> HIDE DEF reset, item, next, p
    <3> QED BY <1>10, <2>5, <2>7, <2>8, <2>9
  <2> QED BY <1>9, <1>10, <2>10
<1>11. ASSUME e.is = "packet"
       PROVE  Between(before, e.gen, p.expected, e.seq)
  <2>0. reset \in Seq(Item)
    BY <1>8 DEF Between
  <2>1. CASE gap
    <3> DEFINE item == Samples(e, p.expected, Concealed(p, e))
    <3>1. Concealed(p, e) \in Nat /\ Concealed(p, e) <= e.seq - p.expected
      <4>1. MaxConcealed \in Nat
        BY PlayoutAssumption
      <4> HIDE DEF p
      <4> QED BY <1>2, <1>4, <1>11, <2>1, <4>1 DEF Concealed, AtMost
    <3>2. /\ item \in Item /\ item.gen = e.gen /\ item.seq = p.expected
          /\ item.packets = Concealed(p, e)
      <4>1. p.expected \in Nat
        BY <1>4, <2>1 DEF Expected, Unknown
      <4> HIDE DEF p
      <4> QED BY <1>2, <3>1, <4>1 DEF Samples, Item
    <3>3. before = Append(reset, item)
      <4>1. Silence(p, e) = <<item>>
        BY <1>5, <1>11, <2>1 DEF Silence
      <4> HIDE DEF reset, item
      <4> QED BY <2>0, <3>2, <4>1
    <3>4. Between(Append(reset, item), e.gen, p.expected, e.seq)
      <4> HIDE DEF reset, item, p
      <4> QED BY <1>2, <1>4, <1>8, <3>1, <3>2, AppendBetween
    <3> QED BY <3>3, <3>4
  <2>2. CASE ~gap
    <3>1. Silence(p, e) = <<>>
      BY <1>5, <1>11, <2>2 DEF Silence
    <3>2. before = reset
      <4> HIDE DEF reset
      <4> QED BY <2>0, <3>1
    <3>3. \A i \in 1..Len(reset) : reset[i].is # "samples"
      BY DEF ResetItem
    <3>4. Between(reset, e.gen, p.expected, e.seq)
      <4> HIDE DEF reset
      <4> QED BY <2>0, <3>3 DEF Between
    <3> QED BY <3>2, <3>4
  <2> QED BY <2>1, <2>2
<1>12. CASE /\ e.is = "packet" /\ ~Ignored(planner, e)
            /\ planner' = [p EXCEPT !.expected = e.seq + 1]
            /\ decoder' = Stamp(e.gen, e.seq) /\ heard' = Stamp(e.gen, e.seq)
            /\ continued' = (state # NoPacket)
            /\ output' = Append(before, Samples(e, e.seq, 1))
  <2> DEFINE item == Samples(e, e.seq, 1)
  <2>1. item \in Item /\ item.gen = e.gen /\ item.seq = e.seq /\ item.packets = 1
    BY <1>2 DEF Samples, Item
  <2>2. next = e.seq + 1
    BY <1>12 DEF Ends
  <2>3. Between(output', e.gen, p.expected, next)
    <3> HIDE DEF before, item, p, next
    <3>1. Between(before, e.gen, p.expected, e.seq)
      BY <1>11, <1>12
    <3>2. output' = Append(before, item)
      BY <1>12 DEF item
    <3>3. Between(Append(before, item), e.gen, p.expected, next)
      BY <1>2, <1>4, <2>1, <2>2, <3>1, AppendBetween
    <3> QED BY <3>2, <3>3
  <2>4. /\ planner' \in [gen : Nat, expected : Expected, failed : BOOLEAN]
        /\ planner'.gen = e.gen /\ planner'.expected = next
    <3> HIDE DEF p, next
    <3> QED BY <1>2, <1>4, <1>12, <2>2 DEF Expected
  <2>5. /\ decoder' \in Place /\ heard' \in Place /\ decoder' = heard'
        /\ heard'.gen = e.gen /\ heard'.seq = e.seq
    BY <1>2, <1>12 DEF Stamp, Place
  <2>6. Sound(output', planner', decoder', heard', continued')
    <3> HIDE DEF p, next
    <3> QED BY <1>2, <2>2, <2>3, <2>4, <2>5
  <2>7. AudioInv'
    BY <1>9, <2>6
  <2>8. /\ heard.gen \in Nat /\ heard.seq \in Nat /\ heard.gen <= planner.gen
        /\ heard.gen = planner.gen /\ heard # NoPacket => heard.seq < planner.expected
        /\ decoder # NoPacket =>
             decoder = heard /\ planner.gen = heard.gen /\ planner.expected = heard.seq + 1
        /\ planner.gen \in Nat /\ planner.expected \in Int
    BY <1>3 DEF AudioInv, PlannerInv, Place, Expected, Unknown
  <2>9. CASE state = NoPacket
    <3>1. Stream!Later(heard', heard)
      <4>1. CASE e.gen > heard.gen
        BY <2>5, <4>1 DEF Stream!Later
      <4>2. CASE ~(e.gen > heard.gen)
        <5>1. e.gen = heard.gen /\ planner.gen = heard.gen
          BY <1>2, <2>8, <4>2
        <5>2. heard # NoPacket
          BY <1>2, <5>1 DEF NoPacket, Stamp
        <5>3. heard.seq < e.seq
          BY <1>2, <2>8, <5>1, <5>2
        <5> QED BY <2>5, <5>1, <5>3 DEF Stream!Later
      <4> QED BY <4>1, <4>2
    <3>2. continued' = FALSE
      BY <1>12, <2>9
    <3>3. heard'.gen \in Nat /\ heard'.seq \in Nat
      BY <1>2, <2>5
    <3>4. Stream!Restart
      BY <3>1, <3>2, <3>3 DEF Stream!Restart
    <3> QED BY <2>7, <3>4 DEF Stream!Next
  <2>10. CASE state # NoPacket
    <3>1. decoder # NoPacket /\ e.gen = planner.gen /\ ~gap /\ p = planner
      <4>1. ~NeedsReset(planner, e)
        BY <2>10
      <4>2. ~(e.gen > planner.gen) /\ ~gap
        BY <1>5, <4>1
      <4>3. e.gen = planner.gen
        BY <1>2, <2>8, <4>2
      <4>4. decoder # NoPacket
        BY <2>10, <4>1
      <4> QED BY <1>4, <4>2, <4>3, <4>4
    <3>2. planner.expected = heard.seq + 1 /\ planner.gen = heard.gen
      BY <2>8, <3>1
    <3>3. e.seq = heard.seq + 1
      <4>1. planner.expected # Unknown
        BY <2>8, <3>2 DEF Unknown
      <4>2. ~(e.seq > planner.expected)
        BY <3>1, <4>1
      <4> QED BY <1>2, <2>8, <3>1, <3>2, <4>2
    <3>4. heard' = [heard EXCEPT !.seq = @ + 1]
      <4>1. heard' = [gen |-> heard.gen, seq |-> heard.seq + 1]
        BY <1>12, <3>1, <3>2, <3>3 DEF Stamp
      <4>2. heard = [gen |-> heard.gen, seq |-> heard.seq]
        BY <1>3 DEF Place
      <4> QED BY <4>1, <4>2
    <3>5. continued' = TRUE
      BY <1>12, <2>10
    <3> QED BY <2>7, <3>4, <3>5 DEF Stream!Next, Stream!Continue
  <2> QED BY <2>9, <2>10
<1>13. CASE /\ e.is = "packet"
            /\ planner' = [p EXCEPT !.expected = e.seq + 1, !.failed = TRUE]
            /\ decoder' = NoPacket
            /\ output' = Append(before, FailedItem)
            /\ UNCHANGED <<heard, continued>>
  <2>1. FailedItem \in Item /\ FailedItem.is # "samples"
    BY DEF FailedItem, Item
  <2>2. next = e.seq + 1
    BY <1>13 DEF Ends
  <2>3. Between(output', e.gen, p.expected, next)
    <3> HIDE DEF before, p, next
    <3>1. Between(before, e.gen, p.expected, e.seq)
      BY <1>11, <1>13
    <3>2. Between(Append(before, FailedItem), e.gen, p.expected, next)
      BY <1>2, <1>4, <2>1, <2>2, <3>1, AppendBetween
    <3> QED BY <1>13, <3>2
  <2>4. /\ planner' \in [gen : Nat, expected : Expected, failed : BOOLEAN]
        /\ planner'.gen = e.gen /\ planner'.expected = next
    <3> HIDE DEF p, next
    <3> QED BY <1>2, <1>4, <1>13, <2>2 DEF Expected
  <2>5. decoder' \in Place /\ heard' = heard /\ heard' \in Place
    BY <1>3, <1>13 DEF NoPacket, Stamp, Place
  <2>6. Sound(output', planner', decoder', heard', continued')
    <3> HIDE DEF p, next
    <3> QED BY <1>13, <2>3, <2>4, <2>5
  <2> QED BY <1>9, <1>13, <2>6
<1>14. \/ Ignored(planner, e) /\ UNCHANGED <<decodeVars, output>>
       \/ /\ e.is = "missing"
          /\ planner' = [p EXCEPT !.expected = e.seq + e.missing]
          /\ decoder' = state /\ output' = before
          /\ UNCHANGED <<heard, continued>>
       \/ /\ e.is = "packet" /\ ~Ignored(planner, e)
          /\ planner' = [p EXCEPT !.expected = e.seq + 1]
          /\ decoder' = Stamp(e.gen, e.seq) /\ heard' = Stamp(e.gen, e.seq)
          /\ continued' = (state # NoPacket)
          /\ output' = Append(before, Samples(e, e.seq, 1))
       \/ /\ e.is = "packet"
          /\ planner' = [p EXCEPT !.expected = e.seq + 1, !.failed = TRUE]
          /\ decoder' = NoPacket
          /\ output' = Append(before, FailedItem)
          /\ UNCHANGED <<heard, continued>>
  BY DEF Consume, e
<1> QED BY <1>7, <1>10, <1>12, <1>13, <1>14

-----------------------------------------------------------------------------
(* The theorems.                                                               *)

(* Every step keeps the invariant, and decodes as DecodableAudio allows.       *)
LEMMA AudioStep ==
  ASSUME AudioInv, [AudioNext]_audioVars
  PROVE  AudioInv' /\ (Stream!Next \/ UNCHANGED <<heard, continued>>)
<1>1. CASE Send \/ NewGeneration
  BY <1>1, HostStep DEF Send, NewGeneration, decodeVars
<1>2. CASE TakeDatagram
  BY <1>2, DatagramStep DEF TakeDatagram, decodeVars
<1>3. CASE HostState
  BY <1>3, HostStateStep DEF HostState, decodeVars
<1>4. CASE ReaderTicks(Sequences)
  <2>1. PICK age \in Ages(Sequences) : ReaderTick(age.stale, age.old)
    BY <1>4 DEF ReaderTicks
  <2> QED BY <2>1, TickStep DEF ReaderTick, decodeVars
<1>5. CASE Consume
  BY <1>5, ConsumeStep
<1>6. CASE Emit
  BY <1>6, EmitStep DEF Emit, decodeVars
<1>7. CASE Turn \/ Pop \/ DevicePlays
  BY <1>7, WindowStep DEF Turn, Pop, DevicePlays, decodeVars
<1>8. CASE UNCHANGED audioVars
  <2>1. /\ UNCHANGED <<source, network, ordered, events, planner, decoder, heard, continued>>
        /\ UNCHANGED <<output, playback>>
    BY <1>8 DEF audioVars, hostVars, receiveVars, decodeVars
  <2>2. AudioTypes' /\ OrderOK(ordered)' /\ EventsInv' /\ PlannerInv'
    BY <2>1 DEF AudioInv, AudioTypes, OrderOK, EventsInv, PlannerInv, Follows, Ends
  <2>3. LineInv' /\ TimeGoesForward'
    BY <2>1 DEF AudioInv, LineInv, TimeGoesForward, Line, IsSamples
  <2> QED BY <2>1, <2>2, <2>3 DEF AudioInv
<1> QED BY <1>1, <1>2, <1>3, <1>4, <1>5, <1>6, <1>7, <1>8 DEF AudioNext

LEMMA AudioStarts ==
  AudioInit => AudioInv
<1> SUFFICES ASSUME AudioInit PROVE AudioInv
  OBVIOUS
<1>1. source = [gen |-> 1, seq |-> 0] /\ NoPacket = [gen |-> 0, seq |-> 0]
  BY DEF AudioInit, Stamp, NoPacket
<1>2. <<>> \in Seq(Event) /\ <<>> \in Seq(Item) /\ Len(<<>>) = 0
  OBVIOUS
<1>3. AudioTypes
  BY <1>1, <1>2 DEF AudioInit, AudioTypes, Place, Expected
<1>4. OrderOK(ordered)
  BY FS_EmptySet DEF AudioInit, OrderOK, Expected
<1>5. EventsInv /\ PlannerInv
  <2>1. EventsInv
    BY <1>2 DEF AudioInit, EventsInv
  <2>2. heard = NoPacket /\ decoder = NoPacket /\ heard.gen = 0
    BY <1>1 DEF AudioInit
  <2>3. planner.gen = 0 /\ ordered.gen = 0 /\ planner.expected = Unknown
    BY DEF AudioInit
  <2> QED BY <2>1, <2>2, <2>3 DEF PlannerInv
<1>6. Line = <<>>
  BY <1>2 DEF AudioInit, Line
<1>7. LineInv /\ TimeGoesForward
  BY <1>2, <1>6 DEF LineInv, TimeGoesForward
<1> QED BY <1>3, <1>4, <1>5, <1>7 DEF AudioInv

(* Silence and samples that wait for the device never overlap in time, and     *)
(* nothing that was concealed is played later.                                 *)
THEOREM TimeAlwaysForward == AudioSpec => []TimeGoesForward
<1>1. AudioInv => TimeGoesForward
  BY DEF AudioInv
<1> QED BY <1>1, AudioStarts, AudioStep, PTL DEF AudioSpec

(* The audio path of the player implements DecodableAudio.                     *)
THEOREM AudioDecodable == AudioSpec => ImplementsDecodableAudio
<1>1. AudioInit => Stream!Init
  BY DEF AudioInit, Stream!Init, NoPacket, Stamp
<1>2. AudioInv /\ [AudioNext]_audioVars => [Stream!Next]_<<heard, continued>>
  BY AudioStep
<1> QED BY <1>1, <1>2, AudioStarts, AudioStep, PTL DEF AudioSpec, ImplementsDecodableAudio, Stream!Spec
=============================================================================
