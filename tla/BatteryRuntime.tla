--------------------------- MODULE BatteryRuntime ---------------------------
(***************************************************************************)
(* The local battery owner, manual_battery_runtime.LocalBatteryRuntime: the *)
(* only component that asks an inverter driver for charging, discharging or *)
(* AUTO.  The command worker calls submit and canary, the supervisor thread *)
(* calls tick, and all three hold one lock, so one operation runs at a time;*)
(* pc is the place it has reached.  Between any two places the clock may    *)
(* advance and the process may die, which forgets everything except the     *)
(* state file and what was written to the inverter.                         *)
(***************************************************************************)
EXTENDS Integers, Sequences

CONSTANTS
  Sigs,          \* request signatures; a signature fixes action, power and session
  ManualSigs,    \* those of manual requests (the flag is part of the signature)
  CanarySig,     \* the signature of the commissioning test, "canary:<command>"
  NoSig, AUTO,   \* no signature; the inverter under its own control
  Routes,        \* inverter routes (profile, bus, address) a configuration can name
  NoRoute,       \* no readable configuration
  MaxTime,       \* bound: the modelled time ends here, later deadlines are cut to it
  SessionCap,    \* MAX_SESSION_SECONDS, in clock units
  BackoffOf,     \* retry delay after the n-th failed STOP; the last one repeats
  LatchCap,      \* ended manual signatures remembered (64 in the code)
  Faults         \* faults the environment may produce, a subset of AllFaults

AllFaults == {"crash", "disk", "driver", "rollback", "config", "watchdog", "reorder"}

Time == 1..MaxTime
Steps == Len(BackoffOf)

ASSUME ConstantsAssumption ==
  /\ ManualSigs \subseteq Sigs
  /\ CanarySig \in ManualSigs
  /\ NoSig \notin Sigs /\ AUTO \notin Sigs
  /\ NoRoute \notin Routes
  /\ MaxTime \in Nat \ {0} /\ SessionCap \in Nat \ {0} /\ LatchCap \in Nat \ {0}
  /\ BackoffOf \in Seq(Nat \ {0}) /\ Len(BackoffOf) >= 1
  /\ Faults \subseteq AllFaults

VARIABLES
  disk,       \* the state file, manual_battery_runtime.json
  mem,        \* emergency_state: the state a failed save left in memory
  recovered,  \* this process has dealt with what an earlier one left
  inv,        \* whose setpoint the inverter may be following
  now,        \* wall clock
  cfg,        \* route named by the cached cloud configuration
  pc,         \* place reached by the operation that holds the lock
  req,        \* that operation and its request
  cur,        \* its local copy of the state
  after,      \* where it goes on when _stop returns
  clear       \* the clear_latch argument of the running _stop

fileVars == <<disk, mem>>
opVars == <<req, after, clear>>
envVars == <<now, cfg>>
vars == <<disk, mem, recovered, inv, now, cfg, pc, req, cur, after, clear>>

-----------------------------------------------------------------------------
(* The durable record and the requests. *)

ActiveStates == {"preparing", "active", "stop_pending"}
Driving == {"preparing", "active"}

Record ==
  [st : ActiveStates \cup {"none", "stopped"}, sig : Sigs \cup {NoSig},
   route : Routes \cup {NoRoute}, started : 0..MaxTime, expires : 0..MaxTime,
   upd : 0..MaxTime, retry : 0..MaxTime, attempts : 0..Steps,
   blocked : Sigs \cup {NoSig}, latched : Seq(Sigs), barrier : 0..MaxTime]

\* The empty dict: no file, or no emergency state.  0 stands for an absent time.
NoRecord ==
  [st |-> "none", sig |-> NoSig, route |-> NoRoute, started |-> 0, expires |-> 0,
   upd |-> 0, retry |-> 0, attempts |-> 0, blocked |-> NoSig, latched |-> << >>,
   barrier |-> 0]

\* at: clock reading on entry; until: valid_until; end: manual_session_expires_at
\* or valid_until; sig is NoSig for AUTO.
Requests ==
  [kind : {"submit"}, manual : BOOLEAN, sig : Sigs \cup {NoSig}, until : Time,
   end : Time, route : Routes, at : Time]
Tick == [kind |-> "tick"]
Canary == [kind |-> "canary"]
NoOp == [kind |-> "none"]

Cut(t) == IF t > MaxTime THEN MaxTime ELSE t
Earlier(a, b) == IF a < b THEN a ELSE b
Load == IF mem.st # "none" THEN mem ELSE disk
Fault(f) == f \in Faults
IsManual(sig) == sig \in ManualSigs
Latched(s, sig) == \/ s.blocked = sig
                   \/ \E i \in 1..Len(s.latched) : s.latched[i] = sig

\* blocked.append(signature) unless present, then blocked[-64:].
Latch(q, sig) ==
  IF \E i \in 1..Len(q) : q[i] = sig THEN q
  ELSE IF Len(q) < LatchCap THEN Append(q, sig)
       ELSE Append(SubSeq(q, Len(q) - LatchCap + 2, Len(q)), sig)

-----------------------------------------------------------------------------
Init ==
  /\ disk = NoRecord /\ mem = NoRecord /\ recovered = FALSE
  /\ inv = AUTO /\ now = 1 /\ cfg \in Routes
  /\ pc = "idle" /\ req = NoOp /\ cur = NoRecord /\ after = "idle" /\ clear = FALSE

\* The operation returns or raises: the lock is released and its locals are gone.
Release ==
  /\ pc' = "idle" /\ req' = NoOp /\ cur' = NoRecord /\ after' = "idle" /\ clear' = FALSE

\* updated_at, read only to notice that the clock has moved back.
Stamped(s) == IF Fault("rollback") THEN [s EXCEPT !.upd = now] ELSE s

\* _save succeeds: the file holds s and there is no emergency state any more.
SaveOk(s) == /\ disk' = Stamped(s)
             /\ mem' = NoRecord

\* _save raises OSError, before the file was replaced or after it (directory sync).
SaveFails(s) == /\ Fault("disk")
                /\ disk' \in {disk, Stamped(s)}

\* emergency_state becomes a copy of s.
KeepInMemory(s) == mem' = Stamped(s)

\* Entry of _stop: the state of the session becomes stop_pending.
EnterStop(s, then, clr) ==
  /\ cur' = [s EXCEPT !.st = "stop_pending"]
  /\ pc' = "stop_save" /\ after' = then /\ clear' = clr

-----------------------------------------------------------------------------
(* Operations begin when the lock is free. *)

\* The command worker read the configuration before it got the lock.
WasConfigured(route) == Fault("config") \/ route = cfg

\* submit(payload, command_id, cloud_config): validated and still valid.  An AUTO
\* request has no signature to compare; a manual one is the user's explicit STOP,
\* and explicit STOPs arrive in the order of their valid_until unless reordered.
BeginSubmit(manual, sig, until, end, route) ==
  /\ pc = "idle" /\ WasConfigured(route)
  /\ until > now /\ end > now /\ end <= now + SessionCap
  /\ sig # CanarySig
  /\ sig \in Sigs => manual = IsManual(sig)
  /\ ~manual => end = until
  /\ manual /\ sig = NoSig => end = until /\ (Fault("reorder") \/ until >= Load.barrier)
  /\ req' = [kind |-> "submit", manual |-> manual, sig |-> sig, until |-> until,
             end |-> end, route |-> route, at |-> now]
  /\ pc' = "recover"
  /\ UNCHANGED <<fileVars, recovered, inv, envVars, cur, after, clear>>

\* tick(), every POLL_SECONDS from main, and canary(), one command of the worker
\* (bound: it begins early enough for its own deadline to lie in Time).
Begin(op) ==
  /\ pc = "idle"
  /\ op = Canary => now < MaxTime
  /\ req' = op
  /\ pc' = "recover"
  /\ UNCHANGED <<fileVars, recovered, inv, envVars, cur, after, clear>>

\* _recover: a process that finds an owner in the file restores AUTO first.
Recover ==
  /\ pc = "recover"
  /\ recovered' = TRUE
  /\ IF ~recovered /\ Load.st \in ActiveStates
     THEN EnterStop([Load EXCEPT !.retry = 0], "body", FALSE)
     ELSE pc' = "body" /\ UNCHANGED <<cur, after, clear>>
  /\ UNCHANGED <<fileVars, inv, envVars, req>>

-----------------------------------------------------------------------------
(* _stop: save stop_pending, command AUTO, save the outcome. *)

StopSave ==
  /\ pc = "stop_save"
  /\ \/ SaveOk(cur)
     \/ SaveFails(cur) /\ KeepInMemory(cur)
  /\ pc' = "stop_auto"
  /\ UNCHANGED <<recovered, inv, envVars, req, cur, after, clear>>

\* Mutant: only the last ended signature is remembered.
StoppedRecord_LastOnly ==
  LET s == [cur EXCEPT !.st = "stopped", !.retry = 0, !.attempts = 0,
                       !.started = 0, !.expires = 0]
  IN IF clear THEN [s EXCEPT !.blocked = NoSig, !.latched = << >>]
     ELSE IF IsManual(cur.sig) THEN [s EXCEPT !.blocked = cur.sig] ELSE s

\* The deadlines of a stopped record are never read again: 0 in the model.
StoppedRecord ==
  LET s == [cur EXCEPT !.st = "stopped", !.retry = 0, !.attempts = 0,
                       !.started = 0, !.expires = 0]
  IN IF clear THEN [s EXCEPT !.blocked = NoSig, !.latched = << >>]
     ELSE IF IsManual(cur.sig)
          THEN [s EXCEPT !.blocked = cur.sig, !.latched = Latch(cur.latched, cur.sig)]
          ELSE s

\* The driver verified AUTO with a zero setpoint.
StopAutoOk ==
  /\ pc = "stop_auto"
  /\ inv' = AUTO
  /\ cur' = StoppedRecord
  /\ pc' = "stop_done"
  /\ UNCHANGED <<fileVars, recovered, envVars, opVars>>

\* Mutant: a failed STOP is recorded as done.
StopAutoFails_Stopped ==
  /\ pc = "stop_auto" /\ Fault("driver")
  /\ inv' \in {inv, AUTO}
  /\ cur' = StoppedRecord
  /\ pc' = "stop_failed"
  /\ UNCHANGED <<fileVars, recovered, envVars, opVars>>

\* The driver raised, having reached the inverter or not: retry with backoff.
StopAutoFails ==
  /\ pc = "stop_auto" /\ Fault("driver")
  /\ inv' \in {inv, AUTO}
  /\ LET n == Earlier(cur.attempts + 1, Steps)
     IN cur' = [cur EXCEPT !.attempts = n, !.retry = Cut(now + BackoffOf[n])]
  /\ pc' = "stop_failed"
  /\ UNCHANGED <<fileVars, recovered, envVars, opVars>>

StopFailedSave ==
  /\ pc = "stop_failed"
  /\ \/ SaveOk(cur)
     \/ SaveFails(cur) /\ KeepInMemory(cur)
  /\ Release
  /\ UNCHANGED <<recovered, inv, envVars>>

\* Only a saved STOP returns to its caller; otherwise _stop raises.
StopDoneSaved ==
  /\ pc = "stop_done"
  /\ SaveOk(cur)
  /\ IF after = "idle" THEN Release
     ELSE pc' = after /\ after' = "idle" /\ clear' = FALSE /\ cur' = NoRecord
          /\ UNCHANGED req
  /\ UNCHANGED <<recovered, inv, envVars>>

StopDoneUnsaved ==
  /\ pc = "stop_done"
  /\ SaveFails(cur) /\ KeepInMemory(cur)
  /\ Release
  /\ UNCHANGED <<recovered, inv, envVars>>

-----------------------------------------------------------------------------
(* The body of submit; every action reads the state afresh, as the code does. *)

InBody(kind) == pc = "body" /\ req.kind = kind

\* An explicit STOP, and the sessions it meets.
ExplicitStop == req.manual /\ req.sig = NoSig
DriveLive(s) == s.st \in Driving /\ s.expires > req.at
Preserved(s) == DriveLive(s) /\ IsManual(s.sig) /\ ~req.manual
SameSession(s) == DriveLive(s) /\ s.sig = req.sig /\ s.route = req.route

\* Raise or return without touching anything.
Quit == Release /\ UNCHANGED <<fileVars, recovered, inv, envVars>>

\* A pending STOP is tried first; only the user may ask before its backoff ends.
SubmitPendingStop ==
  /\ InBody("submit") /\ Load.st = "stop_pending"
  /\ IF Load.retry > req.at /\ ~ExplicitStop
     THEN Quit
     ELSE /\ EnterStop(Load, "body", FALSE)
          /\ UNCHANGED <<fileVars, recovered, inv, envVars, req>>

SubmitExpired ==
  /\ InBody("submit") /\ Load.st \in Driving /\ Load.expires <= req.at
  /\ EnterStop(Load, "body", FALSE)
  /\ UNCHANGED <<fileVars, recovered, inv, envVars, req>>

\* "local_manual_owner_preserved".
SubmitPreserved ==
  /\ InBody("submit") /\ Preserved(Load)
  /\ Quit

\* An AUTO request stops whatever is there, and commands AUTO when nothing is.
SubmitAuto ==
  /\ InBody("submit") /\ req.sig = NoSig
  /\ Load.st \in {"none", "stopped"} \/ DriveLive(Load)
  /\ ~Preserved(Load)
  /\ LET s == [Load EXCEPT !.route = IF DriveLive(Load) THEN @ ELSE req.route,
                           !.barrier = IF req.manual THEN req.until ELSE @]
     IN EnterStop(s, "idle", req.manual)
  /\ UNCHANGED <<fileVars, recovered, inv, envVars, req>>

\* A start that no running session of the user keeps out.
Starting(s) ==
  /\ InBody("submit") /\ req.sig # NoSig
  /\ s.st \in {"none", "stopped"} \/ DriveLive(s)
  /\ ~Preserved(s)

\* Mutant: a start issued in the same moment as the STOP passes.
StaleStart_SameMoment(s) == req.manual /\ s.barrier # 0 /\ req.until < s.barrier

StaleStart(s) == req.manual /\ s.barrier # 0 /\ req.until <= s.barrier
EndedStart(s) == Latched(s, req.sig)

\* Issued before the last explicit STOP.
SubmitStale == Starting(Load) /\ StaleStart(Load) /\ Quit

\* "This battery request already ended locally".
SubmitEnded ==
  Starting(Load) /\ ~StaleStart(Load) /\ EndedStart(Load) /\ Quit

\* The profile does not support the action.
SubmitUnsupported ==
  Starting(Load) /\ ~StaleStart(Load) /\ ~EndedStart(Load) /\ Quit

\* Mutant: the running session is overwritten instead of stopped.
SubmitReplace_Overwrite ==
  /\ Starting(Load) /\ ~StaleStart(Load) /\ ~EndedStart(Load)
  /\ DriveLive(Load) /\ ~SameSession(Load)
  /\ pc' = "start"
  /\ UNCHANGED <<fileVars, recovered, inv, envVars, opVars, cur>>

\* A different request: the running one is stopped first ("request_replaced").
SubmitReplace ==
  /\ Starting(Load) /\ ~StaleStart(Load) /\ ~EndedStart(Load)
  /\ DriveLive(Load) /\ ~SameSession(Load)
  /\ EnterStop(Load, "start", FALSE)
  /\ UNCHANGED <<fileVars, recovered, inv, envVars, req>>

SubmitProceed ==
  /\ Starting(Load) /\ ~StaleStart(Load) /\ ~EndedStart(Load)
  /\ DriveLive(Load) => SameSession(Load)
  /\ pc' = "start"
  /\ UNCHANGED <<fileVars, recovered, inv, envVars, opVars, cur>>

\* Mutant: every renewal starts the session anew, and its own deadline is not applied.
SubmitPrepare_Restarts ==
  /\ pc = "start"
  /\ cur' = [Load EXCEPT !.st = "preparing", !.sig = req.sig, !.route = req.route,
                         !.started = req.at, !.expires = req.at + SessionCap, !.blocked = NoSig]
  /\ pc' = "prepare_save"
  /\ UNCHANGED <<fileVars, recovered, inv, envVars, opVars>>

\* The new owner record; a renewal keeps the start of its session.
SubmitPrepare ==
  /\ pc = "start"
  /\ LET same == SameSession(Load)
         started == IF same THEN Load.started ELSE req.at
         deadline == Earlier(req.end, Cut(started + SessionCap))
     IN \/ /\ deadline > req.at
           /\ cur' = [Load EXCEPT !.st = "preparing", !.sig = req.sig, !.route = req.route,
                                  !.started = started, !.expires = deadline, !.blocked = NoSig]
           /\ pc' = "prepare_save"
           /\ UNCHANGED <<fileVars, recovered, inv, envVars, opVars>>
        \/ \* session expired, or the feature guard rejects a new session
           /\ deadline <= req.at \/ ~same
           /\ Quit

\* Mutant: the inverter is driven before the owner is saved.
PrepareSaved_Unsaved ==
  /\ pc = "prepare_save"
  /\ pc' = "drive"
  /\ UNCHANGED <<fileVars, recovered, inv, envVars, opVars, cur>>

PrepareSaved ==
  /\ pc = "prepare_save"
  /\ SaveOk(cur)
  /\ pc' = "drive"
  /\ UNCHANGED <<recovered, inv, envVars, opVars, cur>>

PrepareUnsaved ==
  /\ pc = "prepare_save"
  /\ SaveFails(cur) /\ UNCHANGED mem
  /\ Release
  /\ UNCHANGED <<recovered, inv, envVars>>

-----------------------------------------------------------------------------
(* _activate: feature guard, driver, save. *)

DriveOk ==
  /\ pc = "drive"
  /\ inv' = cur.sig
  /\ cur' = [cur EXCEPT !.st = "active"]
  /\ pc' = "active_save"
  /\ UNCHANGED <<fileVars, recovered, envVars, opVars>>

\* Guard or driver raised (a safety stop included) after any part of its writes.
DriveFails ==
  /\ pc = "drive" /\ Fault("driver")
  /\ inv' \in {inv, cur.sig, AUTO}
  /\ EnterStop(cur, "idle", FALSE)
  /\ UNCHANGED <<fileVars, recovered, envVars, req>>

ActiveSaved ==
  /\ pc = "active_save"
  /\ SaveOk(cur)
  /\ Release
  /\ UNCHANGED <<recovered, inv, envVars>>

ActiveUnsaved ==
  /\ pc = "active_save"
  /\ SaveFails(cur) /\ UNCHANGED mem
  /\ EnterStop(cur, "idle", FALSE)
  /\ UNCHANGED <<recovered, inv, envVars, req>>

-----------------------------------------------------------------------------
(* The body of tick. *)

TickIdle ==
  /\ InBody("tick")
  /\ \/ Load.st \notin ActiveStates
     \/ Load.st = "stop_pending" /\ Load.retry > now
  /\ Quit

\* Mutant: the supervisor only retries pending STOPs, authorizations do not run out.
TickStop_NoExpiry ==
  /\ InBody("tick")
  /\ Load.st = "stop_pending" /\ Load.retry <= now
  /\ EnterStop(Load, "idle", FALSE)
  /\ UNCHANGED <<fileVars, recovered, inv, envVars, req>>

\* Retry due, clock moved back, authorization over, or another route configured.
TickStop ==
  /\ InBody("tick")
  /\ \/ Load.st = "stop_pending" /\ Load.retry <= now
     \/ Load.st \in Driving /\ (now < Load.upd \/ now >= Load.expires \/ cfg # Load.route)
  /\ EnterStop(Load, "idle", FALSE)
  /\ UNCHANGED <<fileVars, recovered, inv, envVars, req>>

TickRenew ==
  /\ InBody("tick")
  /\ Load.st \in Driving /\ now >= Load.upd /\ now < Load.expires /\ cfg = Load.route
  /\ cur' = Load /\ pc' = "drive"
  /\ UNCHANGED <<fileVars, recovered, inv, envVars, opVars>>

-----------------------------------------------------------------------------
(* canary: preparing is saved, the test drives both directions, _stop follows. *)

CanaryRefused ==
  /\ InBody("canary")
  /\ Quit

CanaryPrepare ==
  /\ InBody("canary") /\ Load.st \notin ActiveStates
  /\ \E route \in Routes :
       /\ WasConfigured(route)
       /\ cur' = [Load EXCEPT !.st = "preparing", !.sig = CanarySig, !.route = route,
                              !.started = now, !.expires = Cut(now + 1)]
  /\ pc' = "canary_save"
  /\ UNCHANGED <<fileVars, recovered, inv, envVars, opVars>>

CanarySave ==
  /\ pc = "canary_save"
  /\ \/ SaveOk(cur) /\ pc' = "canary_run" /\ UNCHANGED <<cur, opVars>>
     \/ SaveFails(cur) /\ UNCHANGED mem /\ Release
  /\ UNCHANGED <<recovered, inv, envVars>>

\* Whatever the test leaves in the inverter, its finally clause stops it.
CanaryRun ==
  /\ pc = "canary_run"
  /\ inv' \in {CanarySig, AUTO}
  /\ EnterStop(cur, "idle", FALSE)
  /\ UNCHANGED <<fileVars, recovered, envVars, req>>

-----------------------------------------------------------------------------
(* The environment. *)

\* The process dies: the add-on restarts with the file and the inverter as they are.
Crash ==
  /\ Fault("crash") /\ recovered
  /\ recovered' = FALSE /\ mem' = NoRecord
  /\ Release
  /\ UNCHANGED <<disk, inv, envVars>>

ClockAdvances ==
  /\ now < MaxTime /\ now' = now + 1
  /\ UNCHANGED <<fileVars, recovered, inv, cfg, pc, cur, opVars>>

ClockMovedBack ==
  /\ Fault("rollback") /\ now' \in 1..(now - 1)
  /\ UNCHANGED <<fileVars, recovered, inv, cfg, pc, cur, opVars>>

ConfigChanges ==
  /\ Fault("config") /\ cfg' \in (Routes \cup {NoRoute}) \ {cfg}
  /\ UNCHANGED <<fileVars, recovered, inv, now, pc, cur, opVars>>

\* The inverter drops a setpoint that is not refreshed.
InverterTimeout ==
  /\ Fault("watchdog") /\ inv # AUTO /\ inv' = AUTO
  /\ UNCHANGED <<fileVars, recovered, envVars, pc, cur, opVars>>

-----------------------------------------------------------------------------
Stop == \/ StopSave \/ StopAutoOk \/ StopAutoFails \/ StopFailedSave
        \/ StopDoneSaved \/ StopDoneUnsaved

Submit == \/ SubmitPendingStop \/ SubmitExpired \/ SubmitPreserved \/ SubmitAuto
          \/ SubmitStale \/ SubmitEnded \/ SubmitUnsupported \/ SubmitReplace
          \/ SubmitProceed \/ SubmitPrepare \/ PrepareSaved \/ PrepareUnsaved

Activate == DriveOk \/ DriveFails \/ ActiveSaved \/ ActiveUnsaved

TickBody == TickIdle \/ TickStop \/ TickRenew

CanaryBody == CanaryRefused \/ CanaryPrepare \/ CanarySave \/ CanaryRun

\* The steps of the operation that holds the lock.
Running == Recover \/ Stop \/ Submit \/ Activate \/ TickBody \/ CanaryBody

BeginSome ==
  \/ \E manual \in BOOLEAN, sig \in Sigs \cup {NoSig}, until, end \in 1..MaxTime, route \in Routes :
       BeginSubmit(manual, sig, until, end, route)
  \/ Begin(Tick) \/ Begin(Canary)

Environment == ClockAdvances \/ ClockMovedBack \/ ConfigChanges \/ InverterTimeout

Next == BeginSome \/ Running \/ Crash \/ Environment

Spec == Init /\ [][Next]_vars

\* The supervisor ticks and operations run on; the process is not always killed
\* before it reaches the driver, and the driver does not fail forever.  Nothing is
\* assumed of the disk.
Fairness ==
  /\ WF_vars(Running)
  /\ WF_vars(Begin(Tick))
  /\ WF_vars(ClockAdvances)
  /\ SF_vars(Recover)
  /\ SF_vars(StopSave)
  /\ SF_vars(StopAutoOk)

FairSpec == Spec /\ Fairness

-----------------------------------------------------------------------------
\* Every variable has its type, times in the modelled range and the latch a sequence
\* of signatures.
TypeOK ==
  /\ disk \in Record /\ mem \in Record /\ cur \in Record
  /\ recovered \in BOOLEAN /\ clear \in BOOLEAN
  /\ inv \in Sigs \cup {AUTO}
  /\ now \in Time /\ cfg \in Routes \cup {NoRoute}
  /\ pc \in {"idle", "recover", "body", "start", "prepare_save", "drive", "active_save",
             "stop_save", "stop_auto", "stop_failed", "stop_done",
             "canary_save", "canary_run"}
  /\ req \in Requests \cup {Tick, Canary, NoOp}
  /\ after \in {"idle", "body", "start"}

\* Write-ahead ownership: whenever the inverter may be following a remote setpoint,
\* the file names that very session in a state that a restarted process stops.  A
\* crash, a failed save or a failed STOP at any point of any operation keeps it so.
DurableOwner ==
  inv # AUTO => disk.st \in ActiveStates /\ disk.sig = inv

\* status() and the next operation never take the inverter for stopped, not even
\* from the emergency copy of a failed save, while a setpoint may still be in it.
HonestStatus ==
  inv # AUTO => Load.st \in ActiveStates

\* The inverter goes from one session's setpoint to another's only through AUTO:
\* a replaced, expired or interrupted session is stopped and verified first.
NoTakeover ==
  [][inv' # inv => inv = AUTO \/ inv' = AUTO]_vars

\* Remote control ends without the cloud: after its last authorization has run out
\* the inverter returns to AUTO, whatever failed or restarted on the way.
ControlEnds == inv # AUTO ~> inv = AUTO
=============================================================================
