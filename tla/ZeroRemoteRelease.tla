--------------------------- MODULE ZeroRemoteRelease ---------------------------
(***************************************************************************)
(* The release of a remote control that is enabled at zero power and that  *)
(* nobody owns (foxess_zero_remote_release.py, device 00007): one durable  *)
(* attempt allows one write of register 44000.  The command holds the lock *)
(* of the battery runtime from its first check to its last save, so the    *)
(* runtime does not move meanwhile; the inverter may, by its other users.  *)
(* Every check may fail, every save may raise before or after it replaced  *)
(* the file, the process may die anywhere, and the command be repeated.    *)
(***************************************************************************)
EXTENDS Naturals

VARIABLES audit,      \* status in the audit file, or "none"
          enable,     \* register 44000: is remote control enabled
          fixed,      \* are the other registers as the release demands
          marker,     \* is there an owner marker
          rt,         \* the battery runtime: "pending" (the expired session has
                      \* still to stop), "stopped", or "active" with another one
          pc,         \* the place in _release
          previous,   \* was an attempt recorded when the command began
          enabled,    \* was remote control enabled when the command looked
          result,     \* the last report
          writes      \* history: writes of register 44000

vars == <<audit, enable, fixed, marker, rt, pc, previous, enabled, result, writes>>

Statuses == {"write_intent", "verification_intent", "hardware_verified", "completed"}

TypeOK ==
  /\ audit \in Statuses \cup {"none"}
  /\ enable \in BOOLEAN /\ fixed \in BOOLEAN /\ marker \in BOOLEAN
  /\ rt \in {"pending", "stopped", "active"}
  /\ pc \in {"idle", "first", "second", "intent", "write", "after", "verified", "stopped", "final"}
  /\ previous \in BOOLEAN /\ enabled \in BOOLEAN
  /\ result \in {"none", "succeeded", "failed"}
  /\ writes \in Nat

Init ==
  /\ audit = "none" /\ enable \in BOOLEAN /\ fixed = TRUE /\ marker = FALSE
  /\ rt = "pending" /\ pc = "idle" /\ previous = FALSE /\ enabled = FALSE
  /\ result = "none" /\ writes = 0

device == <<enable, fixed>>

\* Request, version, fingerprint, route and profile fit; the runtime is stopped,
\* or has the expired session still to stop.  The audit file is read.
Begin ==
  /\ pc = "idle" /\ rt \in {"pending", "stopped"}
  /\ pc' = "first" /\ previous' = (audit # "none")
  /\ UNCHANGED <<audit, device, marker, rt, enabled, result, writes>>

Fail ==
  /\ pc # "idle" /\ pc' = "idle" /\ result' = "failed"
  /\ UNCHANGED <<audit, device, marker, rt, previous, enabled, writes>>

\* The first of two snapshots that have to agree.
Look ==
  /\ pc = "first" /\ ~marker /\ fixed
  /\ pc' = "second" /\ enabled' = enable
  /\ UNCHANGED <<audit, device, marker, rt, previous, result, writes>>

\* Mutant: a recorded attempt is no reason to refuse.
Authorized_Again == ~enabled \/ rt = "pending"

\* Enabled remote control is written once: without an earlier attempt, and for
\* the session that has still to stop.
Authorized == ~enabled \/ (~previous /\ rt = "pending")

LookAgain ==
  /\ pc = "second" /\ ~marker /\ fixed /\ enable = enabled
  /\ Authorized
  /\ pc' = "intent"
  /\ UNCHANGED <<audit, device, marker, rt, previous, enabled, result, writes>>

\* A save that raises may have replaced the file: it is the directory that is
\* synchronised last.
Save(status, next) ==
  \/ audit' = status /\ pc' = next /\ UNCHANGED result
  \/ audit' \in {audit, status} /\ pc' = "idle" /\ result' = "failed"

Intend ==
  /\ pc = "intent"
  /\ Save(IF enabled THEN "write_intent" ELSE "verification_intent",
          IF enabled THEN "write" ELSE "after")
  /\ UNCHANGED <<device, marker, rt, previous, enabled, writes>>

\* One request on the wire, never repeated: done, lost, or done unacknowledged.
Write ==
  /\ pc = "write" /\ ~marker
  /\ enable' \in {enable, FALSE}
  /\ writes' = writes + 1 /\ pc' = "after"
  /\ UNCHANGED <<audit, fixed, marker, rt, previous, enabled, result>>

\* Remote control reads disabled, twice, and nothing else has changed.
Verify ==
  /\ pc = "after" /\ ~marker /\ fixed /\ ~enable
  /\ Save("hardware_verified", "verified")
  /\ UNCHANGED <<device, marker, rt, previous, enabled, writes>>

\* The ordinary AUTO of the runtime: without a marker it finds nothing to
\* write, and refuses a remote control that was enabled again.
Stop ==
  /\ pc = "verified" /\ ~marker /\ ~enable
  /\ pc' = "stopped" /\ rt' = "stopped"
  /\ UNCHANGED <<audit, device, marker, previous, enabled, result, writes>>

StopRefused ==
  /\ pc = "verified" /\ enable
  /\ pc' = "idle" /\ rt' = "pending" /\ result' = "failed"
  /\ UNCHANGED <<audit, device, marker, previous, enabled, writes>>

\* The final probe.
Probe ==
  /\ pc = "stopped" /\ ~marker /\ fixed /\ ~enable
  /\ pc' = "final"
  /\ UNCHANGED <<audit, device, marker, rt, previous, enabled, result, writes>>

Complete ==
  /\ pc = "final"
  /\ \/ audit' = "completed" /\ result' = "succeeded"
     \/ audit' \in {audit, "completed"} /\ result' = "failed"
  /\ pc' = "idle"
  /\ UNCHANGED <<device, marker, rt, previous, enabled, writes>>

Crash ==
  /\ pc # "idle" /\ pc' = "idle" /\ result' = "none"
  /\ UNCHANGED <<audit, device, marker, rt, previous, enabled, writes>>

\* Another controller enables remote control, or disables it; the user changes
\* a setting the release depends on.
Others ==
  /\ ~marker /\ (enable' \in BOOLEAN /\ fixed' \in BOOLEAN)
  /\ UNCHANGED <<audit, marker, rt, pc, previous, enabled, result, writes>>

\* Between commands the battery runtime serves sessions of its own, with the
\* owner marker of its driver, and stops them.
RuntimeStarts ==
  /\ pc = "idle" /\ rt = "stopped" /\ ~enable
  /\ rt' = "active" /\ marker' = TRUE /\ enable' = TRUE
  /\ UNCHANGED <<audit, fixed, pc, previous, enabled, result, writes>>

RuntimeStops ==
  /\ pc = "idle" /\ rt = "active"
  /\ rt' = "stopped" /\ marker' = FALSE /\ enable' = FALSE
  /\ UNCHANGED <<audit, fixed, pc, previous, enabled, result, writes>>

Next ==
  \/ Begin \/ Fail \/ Look \/ LookAgain \/ Intend \/ Write \/ Verify
  \/ Stop \/ StopRefused \/ Probe \/ Complete \/ Crash
  \/ Others \/ RuntimeStarts \/ RuntimeStops

Spec == Init /\ [][Next]_vars

(* "One durable attempt consumes the right to write": register 44000 is    *)
(* written at most once, over repeats, crashes and failed saves, and never *)
(* without a record of the attempt on disk, so nobody who enables remote   *)
(* control later is overruled.                                             *)
OneWrite == writes <= 1 /\ (writes = 1 => audit # "none")
=============================================================================
