------------------------------ MODULE AudioRoute ------------------------------
(***************************************************************************)
(* Routing the sound of Windows to the virtual cable while it is captured, *)
(* and undoing it.  Windows has a default device per role; the route makes *)
(* the cable the default of every role and keeps the defaults it found in  *)
(* a recovery file.  The capture thread of the worker applies and undoes a *)
(* route; the service undoes what the file says when it starts and stops.  *)
(* Never both: a service starts when the worker of the one before it is    *)
(* gone (a bound).  The user may choose a default at any time, also        *)
(* between the look at a default and the call that changes it.  *)
(***************************************************************************)
EXTENDS Integers, Sequences

CONSTANTS
  LastRole,  \* ROLES, in the order in which they are switched
  Devices,   \* other devices that may be a default
  Cable,     \* the cable's render endpoint
  Wishes     \* defaults that the user may have at first

Roles == 1..LastRole

ASSUME RouteAssumption ==
  /\ LastRole \in Nat \ {0} /\ Cable \notin Devices
  /\ Wishes \subseteq [Roles -> Devices \union {Cable}]

VARIABLES
  defaults,   \* default device of every role
  cable,      \* 0, or a number that is the cable's as long as it stays
  record,     \* recovery file: the defaults found, or nothing
  away,       \* another user's session is at the console
  job,        \* what the worker or the service is doing to the defaults
  wish,       \* history: what the user had at first
  leftover,   \* history: a route was activated over a recovery file
  budget      \* what may still happen

routeVars == <<defaults, cable, record, away, job, wish, leftover>>

NoRecord == <<>>
Idle == [at |-> "idle", role |-> 1, old |-> NoRecord, tries |-> 0, ok |-> TRUE]

RouteInit ==
  /\ wish \in Wishes /\ defaults = wish
  /\ cable \in {0, 1}
  /\ record = NoRecord /\ away = FALSE
  /\ job = Idle
  /\ leftover = FALSE

Does(what) == job' = what
Spend(what) == budget[what] > 0 /\ budget' = [budget EXCEPT ![what] = @ - 1]
Kept == UNCHANGED <<cable, away, wish, leftover, budget>>

-----------------------------------------------------------------------------
(* Windows and its user.                                                   *)

UserChooses ==
  /\ Spend("user")
  /\ \E r \in Roles, d \in Devices :
       /\ defaults[r] # d
       /\ defaults' = [defaults EXCEPT ![r] = d]
  /\ UNCHANGED <<cable, record, away, job, wish, leftover>>

(* A default that goes away is replaced by a device that is there.         *)
Unplugged ==
  /\ Spend("plug") /\ cable # 0
  /\ cable' = 0
  /\ \E d \in Devices : defaults' = [r \in Roles |-> IF defaults[r] = Cable THEN d ELSE defaults[r]]
  /\ UNCHANGED <<record, away, job, wish, leftover>>

Plugged(number) ==
  /\ cable = 0 /\ cable' = number
  /\ UNCHANGED <<defaults, record, away, job, wish, leftover, budget>>

-----------------------------------------------------------------------------
(* Undoing: restore_record and remove_record_if_recovered.                 *)

Undo(old, tries, ok) == [at |-> "undo", role |-> 1, old |-> old, tries |-> tries, ok |-> ok]

(* What fails is tried again by Drop if it was not Drop that tried.        *)
UndoFailed ==
  IF job.tries > 1 THEN Undo(job.old, job.tries - 1, FALSE)
  ELSE [job EXCEPT !.at = "done", !.ok = FALSE]

MustRestore == defaults[job.role] = Cable

UndoReads ==
  /\ job.at = "undo" /\ job.role \in Roles
  /\ Does(IF MustRestore THEN [job EXCEPT !.at = "unset"] ELSE [job EXCEPT !.role = @ + 1])
  /\ Kept /\ UNCHANGED <<defaults, record>>

UndoWrites ==
  /\ job.at = "unset"
  /\ defaults' = [defaults EXCEPT ![job.role] = job.old[job.role]]
  /\ Does([job EXCEPT !.at = "unset wait"])
  /\ Kept /\ UNCHANGED record

RoleDone(at) == [job EXCEPT !.at = at, !.role = @ + 1]
UndoWaits ==
  /\ job.at = "unset wait"
  /\ Does(IF defaults[job.role] = job.old[job.role]
             THEN RoleDone("undo") ELSE UndoFailed)
  /\ Kept /\ UNCHANGED <<defaults, record>>

(* route_recovered; a route counts as restored from here on.               *)
Recovered == \A r \in Roles : defaults[r] = Cable => job.old[r] = Cable
UndoSettles ==
  /\ job.at = "undo" /\ job.role \notin Roles
  /\ record' = IF Recovered THEN NoRecord ELSE record
  /\ Does([job EXCEPT !.at = "done", !.ok = @ /\ Recovered])
  /\ Kept /\ UNCHANGED defaults

-----------------------------------------------------------------------------
(* Activating: AudioRoute::activate and apply.                             *)

Unsaved == [at |-> "apply", role |-> 1, old |-> defaults, tries |-> 0, ok |-> TRUE]  \* mutant
Activation == [at |-> "save", role |-> 1, old |-> defaults, tries |-> 0, ok |-> TRUE]

Saves ==
  /\ job.at = "save"
  /\ record' = job.old
  /\ leftover' = (leftover \/ record # NoRecord)
  /\ Does([job EXCEPT !.at = "apply"])
  /\ UNCHANGED <<defaults, cable, away, wish, budget>>

(* The file may be in its place although storing it failed.                *)
SaveFails ==
  /\ job.at = "save" /\ Spend("call")
  /\ record' \in {record, job.old}
  /\ leftover' = (leftover \/ record # NoRecord)
  /\ Does([job EXCEPT !.at = "done", !.ok = FALSE])
  /\ UNCHANGED <<defaults, cable, away, wish>>

ApplyFailed == Undo(job.old, 2, FALSE)

(* target_writes: every role must be as it was found, or routed already.   *)
Unrelated == \E r \in Roles : defaults[r] \notin {job.old[r], Cable}
ApplyReads ==
  /\ job.at = "apply" /\ job.role \in Roles
  /\ Does(IF Unrelated THEN ApplyFailed
             ELSE IF defaults[job.role] = Cable THEN [job EXCEPT !.role = @ + 1]
             ELSE [job EXCEPT !.at = "set"])
  /\ Kept /\ UNCHANGED <<defaults, record>>

ApplyWrites ==
  /\ job.at = "set"
  /\ IF cable # 0
     THEN /\ defaults' = [defaults EXCEPT ![job.role] = Cable]
          /\ Does([job EXCEPT !.at = "set wait"])
     ELSE Does(ApplyFailed) /\ UNCHANGED defaults
  /\ Kept /\ UNCHANGED record

ApplyWaits ==
  /\ job.at = "set wait"
  /\ Does(IF defaults[job.role] = Cable THEN RoleDone("apply") ELSE ApplyFailed)
  /\ Kept /\ UNCHANGED <<defaults, record>>

ApplyChecks ==
  /\ job.at = "apply" /\ job.role \notin Roles
  /\ Does(IF \A r \in Roles : defaults[r] = Cable THEN [job EXCEPT !.at = "done"]
             ELSE ApplyFailed)
  /\ Kept /\ UNCHANGED <<defaults, record>>

(* A call fails, or Windows takes more than two seconds.                   *)
CallFails ==
  /\ job.at \in {"set", "set wait", "unset", "unset wait"} /\ Spend("call")
  /\ Does(IF job.at \in {"set", "set wait"} THEN ApplyFailed ELSE UndoFailed)
  /\ UNCHANGED <<defaults, cable, record, away, wish, leftover>>

RouteStep ==
  \/ UndoReads \/ UndoWrites \/ UndoWaits \/ UndoSettles \/ Saves \/ SaveFails
  \/ ApplyReads \/ ApplyWrites \/ ApplyWaits \/ ApplyChecks \/ CallFails

(* recover_pending_route: nothing to do, or nothing to be done now.        *)
Recovery == IF record = NoRecord \/ away THEN [Idle EXCEPT !.at = "done"] ELSE Undo(record, 1, TRUE)

-----------------------------------------------------------------------------
(* The cable is the default of a role for which the user has never chosen  *)
(* it only as long as the recovery file knows what the role had before,    *)
(* whoever fails or dies at whatever point, whatever is chosen meanwhile.  A route that  *)
(* is activated over a file that nobody could undo loses what it said: the *)
(* code takes the cable for the user's choice then.                        *)
Undoable ==
  ~leftover =>
    \A r \in Roles :
      defaults[r] = Cable /\ wish[r] # Cable => record # NoRecord /\ record[r] # Cable
=============================================================================
