----------------------------- MODULE SolaxDriver -----------------------------
(***************************************************************************)
(* communication/solax_ems_controller: the driver of the SolaX X3-Hybrid   *)
(* G4.  A call is a sequence of Modbus transactions and updates of the     *)
(* owner marker; any may fail, and the process may die between any two.    *)
(* Unlike FoxESS, the inverter has no watchdog that the driver trusts, a   *)
(* parameter lock has to be opened and closed again, and a command whose   *)
(* answer was lost may take effect later, while the call goes on.          *)
(*                                                                         *)
(* The caller is the battery runtime, as in FoxessDriver: after anything   *)
(* but a verified renewal it asks for AUTO until AUTO is verified.         *)
(***************************************************************************)
EXTENDS Integers

CONSTANTS WorkModes, NoMarker   \* work modes of the user; no owner marker file

VARIABLES
  remote,   \* remote mode and setpoint: 0, or 4 with a direction
  work,     \* the work mode of the user
  lock,     \* 1: parameters may be written
  marker,   \* the owner marker file
  pc, want, \* the place of the call and the direction it asks for, 0 for AUTO
  held,     \* its copy of the marker
  late,     \* a command that may still take effect, as <<direction>>, or <<>>
  outcome, due,
  theirs,   \* another controller holds the remote control
  locked    \* the lock as it was before the driver touched it

inverter == <<remote, work, lock>>
caller == <<outcome, due>>
others == <<theirs, locked>>
vars == <<inverter, marker, pc, want, held, late, caller, others>>

Directions == {-1, 1}
Powers == {0} \cup Directions
Marker == [mode : WorkModes, lock : {0, 1}, attempted : BOOLEAN]

TypeOK ==
  /\ remote \in Powers /\ work \in WorkModes /\ lock \in {0, 1}
  /\ marker \in Marker \cup {NoMarker} /\ held \in Marker \cup {NoMarker}
  /\ pc \in {"idle", "check", "mark", "unlock", "attempt", "drive", "read back",
             "restore", "cancel unlock", "cancel", "verify", "relock", "unmark", "quiet"}
  /\ want \in Powers /\ due \in Powers
  /\ late \in {<<>>} \cup {<<d>> : d \in Powers}
  /\ outcome \in {"none", "failed", "driven", "auto", "crashed"}
  /\ theirs \in BOOLEAN /\ locked \in {0, 1}

Init ==
  /\ remote = 0 /\ work \in WorkModes /\ lock \in {0, 1} /\ locked = lock
  /\ marker = NoMarker /\ pc = "idle" /\ want = 0 /\ held = NoMarker /\ late = <<>>
  /\ outcome = "none" /\ due = 0 /\ theirs = FALSE

Go(place) == pc' = place

\* The call ends after the quiet second in which the bus stays locked.
End(how) ==
  /\ late = <<>> /\ late' = <<>>
  /\ pc' = "idle" /\ want' = 0 /\ held' = NoMarker /\ outcome' = how
  /\ due' = IF how = "auto" THEN 0 ELSE due
  /\ UNCHANGED others

Abort == End("failed") /\ UNCHANGED <<inverter, marker>>

-----------------------------------------------------------------------------
(* apply_solax_x3_g4_action                                                  *)

Call(dir) ==
  /\ pc = "idle"
  /\ dir # 0 => due = 0 \/ (due = dir /\ outcome = "driven")
  /\ want' = dir /\ Go("check") /\ due' = (IF dir = 0 THEN due ELSE dir)
  /\ UNCHANGED <<inverter, marker, held, late, outcome, others>>

\* Identity, marker, remote mode, settings and preflight may all refuse; none
\* of them writes.  BatteryControlSafetyStop leaves AUTO to the caller.
CheckFails == pc = "check" /\ Abort

Foreign == remote # 0 /\ marker = NoMarker

\* AUTO without a marker: there is nothing of ours to restore.
AutoIdle ==
  /\ pc = "check" /\ want = 0 /\ marker = NoMarker /\ ~Foreign
  /\ End("auto") /\ UNCHANGED <<inverter, marker>>

AutoOwned ==
  /\ pc = "check" /\ want = 0 /\ marker # NoMarker
  /\ held' = marker /\ Go("restore")
  /\ UNCHANGED <<inverter, marker, want, late, caller, others>>

\* The first call of a session remembers the work mode and the lock.
Capture ==
  /\ pc = "check" /\ want # 0 /\ marker = NoMarker /\ ~Foreign
  /\ held' = [mode |-> work, lock |-> lock, attempted |-> FALSE] /\ Go("mark")
  /\ UNCHANGED <<inverter, marker, want, late, caller, others>>

Renew ==
  /\ pc = "check" /\ want # 0 /\ marker # NoMarker /\ marker.mode = work
  /\ held' = marker /\ Go("unlock")
  /\ UNCHANGED <<inverter, marker, want, late, caller, others>>

\* _save_marker may raise after it has replaced the file.
Mark ==
  /\ pc = "mark"
  /\ \/ marker' = held /\ Go("unlock") /\ UNCHANGED <<want, held, late, caller, others>>
     \/ marker' \in {NoMarker, held} /\ End("failed")
  /\ UNCHANGED inverter

\* From the first write on, a failure restores AUTO before it is raised.
Unlock ==
  /\ pc = "unlock"
  /\ \/ lock' = 1 /\ Go(IF held.attempted THEN "drive" ELSE "attempt")
     \/ lock' \in {lock, 1} /\ Go("restore")
  /\ UNCHANGED <<remote, work, marker, want, held, late, caller, others>>

\* The uncertain command is on disk before it is sent.  A failed save restores
\* from the copy in memory, which already says that it was attempted.
Attempt ==
  /\ pc = "attempt"
  /\ held' = [held EXCEPT !.attempted = TRUE]
  /\ \/ marker' = held' /\ Go("drive")
     \/ marker' \in {marker, held'} /\ Go("restore")
  /\ UNCHANGED <<inverter, want, late, caller, others>>

\* A write of the VPP block is carried out, or takes effect later, with or without
\* its acknowledgement, or is lost.  Commands are carried out one after another:
\* what was late has arrived when the next one is received.
Command(dir, next, fails) ==
  /\ \/ remote' = dir /\ late' = <<>> /\ theirs' = FALSE /\ pc' \in {next, fails}
     \/ late = <<>> /\ late' = <<dir>> /\ pc' \in {next, fails} /\ UNCHANGED <<remote, theirs>>
     \/ Go(fails) /\ UNCHANGED <<remote, late, theirs>>
  /\ UNCHANGED <<work, lock, marker, want, held, caller, locked>>

Drive == pc = "drive" /\ Command(want, "read back", "restore")

\* Only the mode is read back, not the power.
Driven ==
  /\ pc = "read back"
  /\ \/ remote # 0 /\ End("driven")
     \/ Go("restore") /\ UNCHANGED <<want, held, late, caller, others>>
  /\ UNCHANGED <<inverter, marker>>

-----------------------------------------------------------------------------
(* _restore_auto                                                             *)

\* Mutant: a mode that reads 0 needs no cancellation.
Restore_Reads ==
  /\ pc = "restore"
  /\ \/ /\ remote # 0 => held.attempted
        /\ Go(IF held.attempted /\ remote # 0 THEN "cancel unlock" ELSE "verify")
        /\ UNCHANGED <<inverter, marker, want, held, late, caller, others>>
     \/ Abort

\* Remote control that appeared before our first command is not ours.  Ours is
\* cancelled even where the mode reads 0.
Restore ==
  /\ pc = "restore"
  /\ \/ /\ remote # 0 => held.attempted
        /\ Go(IF held.attempted THEN "cancel unlock" ELSE "verify")
        /\ UNCHANGED <<inverter, marker, want, held, late, caller, others>>
     \/ Abort

CancelUnlock ==
  /\ pc = "cancel unlock"
  /\ \/ lock' = 1 /\ Go("cancel") /\ UNCHANGED <<want, held, late, caller, others>>
     \/ lock' \in {lock, 1} /\ End("failed")
  /\ UNCHANGED <<remote, work, marker>>

\* Mutant: a cancellation is sent, whether or not it is acknowledged and read back.
Cancel_Tolerant == pc = "cancel" /\ Command(0, "relock", "relock")

Cancel == pc = "cancel" /\ Command(0, "verify", "quiet")

\* A cancellation that failed is raised, after the quiet second.
Quiet == pc = "quiet" /\ Abort

\* The remote mode and the work mode are read; the latter is never written, and
\* one that differs ends the restoration.
Verify ==
  /\ pc = "verify"
  /\ \/ remote = 0 /\ work = held.mode /\ Go("relock") /\ UNCHANGED <<inverter, marker, want, held, late, caller, others>>
     \/ Abort

Relock ==
  /\ pc = "relock"
  /\ \/ lock' = held.lock /\ Go("unmark") /\ UNCHANGED <<want, held, late, caller, others>>
     \/ lock' \in {lock, held.lock} /\ End("failed")
  /\ UNCHANGED <<remote, work, marker>>

Unmark ==
  /\ pc = "unmark"
  /\ \/ marker' = NoMarker /\ End(IF want = 0 THEN "auto" ELSE "failed")
     \/ UNCHANGED marker /\ End("failed")
  /\ UNCHANGED inverter

-----------------------------------------------------------------------------
(* The environment.                                                          *)

\* A command whose answer was lost takes effect.
Arrives ==
  /\ late # <<>> /\ remote' = late[1] /\ late' = <<>> /\ theirs' = FALSE
  /\ UNCHANGED <<work, lock, marker, pc, want, held, caller, locked>>

Crash == pc # "idle" /\ End("crashed") /\ UNCHANGED <<inverter, marker>>

\* The inverter ends a remote control, when it restarts or by its timeout.
InverterEnds ==
  /\ remote # 0 /\ remote' = 0 /\ theirs' = FALSE
  /\ UNCHANGED <<work, lock, marker, pc, want, held, late, caller, locked>>

UserSets ==
  /\ pc = "idle" /\ work' \in WorkModes
  /\ UNCHANGED <<remote, lock, marker, pc, want, held, late, caller, others>>

ForeignTakes ==
  /\ pc = "idle" /\ remote = 0 /\ remote' \in Directions /\ theirs' = TRUE
  /\ UNCHANGED <<work, lock, marker, pc, want, held, late, caller, locked>>

Driver ==
  \/ CheckFails \/ AutoIdle \/ AutoOwned \/ Capture \/ Renew \/ Mark \/ Unlock \/ Attempt \/ Drive \/ Driven
  \/ Restore \/ CancelUnlock \/ Cancel \/ Quiet \/ Verify \/ Relock \/ Unmark

Next ==
  \/ \E dir \in Powers : Call(dir)
  \/ Driver \/ Crash \/ Arrives \/ InverterEnds \/ UserSets \/ ForeignTakes

Spec == Init /\ [][Next]_vars

-----------------------------------------------------------------------------
Ours == remote # 0 /\ ~theirs

(* "The durable marker authorizes this cancellation": remote control that  *)
(* the driver has switched on, or that a command still under way will      *)
(* switch on, is always backed by a marker on disk that says that it was   *)
(* attempted, so whatever call dies where, AUTO can still end it.          *)
AttemptRecorded ==
  Ours \/ (late # <<>> /\ late[1] # 0) => marker # NoMarker /\ marker.attempted

(* The parameter lock is given back: while the driver owns nothing it is   *)
(* what it was before, and what the marker holds is what it was before.    *)
LockReturned ==
  IF marker = NoMarker THEN pc # "idle" \/ lock = locked ELSE marker.lock = locked

(* The driver implements the abstract promise, late commands included.     *)
D == INSTANCE BatteryDriver WITH
       Sessions <- Directions, Free <- 0,
       inv <- IF Ours THEN remote ELSE 0, due <- due,
       call <- IF pc = "idle" THEN "none" ELSE IF want = 0 THEN "auto" ELSE "drive"
DriverPromise == D!Spec
=============================================================================
