---------------------------- MODULE FoxessDriver ----------------------------
(***************************************************************************)
(* communication/foxess_ems_controller: how one call of the FoxESS H3 driver*)
(* changes the inverter.  A call is a sequence of Modbus reads, verified     *)
(* writes and updates of the owner marker file; any of them may fail, with   *)
(* the write done or not, and the process may die between any two of them.   *)
(* The bus lock keeps other callers of this process out for a whole call.    *)
(*                                                                           *)
(* The caller is the battery runtime, modelled here by what it promises: a   *)
(* session keeps its direction, and after anything but a verified renewal it *)
(* asks for AUTO until AUTO is verified.                                     *)
(***************************************************************************)
EXTENDS Integers, Sequences

CONSTANTS
  Modes, BackUp,      \* work modes; the one remote control needs
  Timeouts, Remote,   \* watchdog settings; REMOTE_TIMEOUT_SECONDS
  NoMarker            \* no owner marker file

ASSUME ConstantsAssumption ==
  /\ BackUp \in Modes /\ Remote \in Timeouts
  /\ \A m \in Modes, t \in Timeouts, p \in -1..1, f \in BOOLEAN :
       NoMarker # [mode |-> m, timeout |-> t, last |-> p, fresh |-> f]

\* A setpoint by its direction: charging is negative.
Directions == {-1, 1}
Powers == {0} \cup Directions

VARIABLES
  mode, timeout, enable, power,  \* registers 41000, 44001, 44000 and 44002
  marker,    \* the owner marker file
  pc,        \* next step of the call, "idle" when there is none
  want,      \* its requested direction, 0 for AUTO
  held,      \* its copy of the marker
  rearmed,   \* one of mode, timeout, enable had to be written
  outcome,   \* how the last call ended
  due,       \* direction the caller may only leave through AUTO, or 0
  user,      \* mode and timeout the user has set
  theirs,    \* another controller holds the remote control
  left       \* setpoint it has left behind, 0 once the driver has overwritten it

registers == <<mode, timeout, enable, power>>
locals == <<want, held, rearmed>>
ghosts == <<due, user, theirs, left>>
vars == <<mode, timeout, enable, power, marker, pc, want, held, rearmed, outcome,
          due, user, theirs, left>>

Marker == [mode : Modes, timeout : Timeouts, last : Powers, fresh : BOOLEAN]
Settings == [mode : Modes, timeout : Timeouts]

-----------------------------------------------------------------------------
Init ==
  /\ mode \in Modes /\ timeout \in Timeouts /\ enable = 0 /\ power = 0
  /\ marker = NoMarker /\ pc = "idle"
  /\ want = 0 /\ held = NoMarker /\ rearmed = FALSE /\ outcome = "none"
  /\ due = 0 /\ user = [mode |-> mode, timeout |-> timeout]
  /\ theirs = FALSE /\ left = 0

\* The call returns or raises; a verified AUTO settles what the caller owes.
End(how) ==
  /\ pc' = "idle" /\ want' = 0 /\ held' = NoMarker /\ rearmed' = FALSE
  /\ outcome' = how
  /\ due' = IF how = "auto" THEN 0 ELSE due
  /\ UNCHANGED <<user, theirs, left>>

Go(place) == pc' = place

\* A read raised: nothing changes, the call fails where it stands.
Abort == End("failed") /\ UNCHANGED <<registers, marker>>

-----------------------------------------------------------------------------
(* apply_foxess_h3_action up to the first write. *)

\* execute_foxess_h3_from_cloud_config with the bus lock taken.
Call(dir) ==
  /\ pc = "idle"
  /\ dir # 0 => due = 0 \/ (due = dir /\ outcome = "driven")
  /\ want' = dir /\ pc' = "check"
  /\ due' = IF dir = 0 THEN due ELSE dir
  /\ UNCHANGED <<registers, marker, held, rearmed, outcome, user, theirs, left>>

\* Remote control without our marker is somebody else's and stays as it is.
RefuseForeign ==
  /\ pc = "check" /\ marker = NoMarker /\ enable = 1
  /\ Abort

CheckFails == pc = "check" /\ Abort

\* AUTO with nothing of ours in the inverter is verified without a write.
AutoIdle ==
  /\ pc = "check" /\ want = 0 /\ marker = NoMarker /\ enable = 0
  /\ End("auto") /\ UNCHANGED <<registers, marker>>

\* Mutant: remote control that is already off counts as restored.
AutoOwned_Expired ==
  /\ pc = "check" /\ want = 0 /\ marker # NoMarker
  /\ IF enable = 0
     THEN marker' = NoMarker /\ End("auto") /\ UNCHANGED registers
     ELSE /\ held' = marker /\ Go("zero_power")
          /\ UNCHANGED <<registers, marker, want, rearmed, outcome, ghosts>>

\* Mutant: a setpoint of zero counts as AUTO.
AutoOwned_Zero ==
  /\ pc = "check" /\ want = 0 /\ marker # NoMarker
  /\ IF power = 0
     THEN End("auto") /\ UNCHANGED <<registers, marker>>
     ELSE /\ held' = marker /\ Go("zero_power")
          /\ UNCHANGED <<registers, marker, want, rearmed, outcome, ghosts>>

AutoOwned ==
  /\ pc = "check" /\ want = 0 /\ marker # NoMarker
  /\ held' = marker /\ Go("zero_power")
  /\ UNCHANGED <<registers, marker, want, rearmed, outcome, ghosts>>

\* State of charge at its limit: restored if ours, then BatteryControlSafetyStop.
SafetyStop ==
  /\ pc = "check" /\ want # 0
  /\ IF marker # NoMarker
     THEN /\ held' = marker /\ Go("zero_power")
          /\ UNCHANGED <<registers, marker, want, rearmed, outcome, ghosts>>
     ELSE enable = 0 /\ Abort

\* Mutant: remote control of somebody else is taken over.
Capture_TakesOver ==
  /\ pc = "check" /\ want # 0 /\ marker = NoMarker
  /\ held' = [mode |-> mode, timeout |-> timeout, last |-> 0, fresh |-> FALSE]
  /\ Go("mark")
  /\ UNCHANGED <<registers, marker, want, rearmed, outcome, ghosts>>

\* First call of a session: remember the user's settings before any write.
Capture ==
  /\ pc = "check" /\ want # 0 /\ marker = NoMarker /\ enable = 0
  /\ held' = [mode |-> mode, timeout |-> timeout, last |-> 0, fresh |-> FALSE]
  /\ Go("mark")
  /\ UNCHANGED <<registers, marker, want, rearmed, outcome, ghosts>>

\* Mutant: a marker that could not be written does not stop the call.
Mark_Ignored ==
  /\ pc = "mark"
  /\ marker' \in {held, NoMarker}
  /\ Go("set_mode") /\ UNCHANGED <<registers, locals, outcome, ghosts>>

Mark ==
  /\ pc = "mark"
  /\ \/ marker' = held /\ Go("set_mode") /\ UNCHANGED <<registers, locals, outcome, ghosts>>
     \/ Abort

\* Mutant: every call remembers the settings it finds.
Renew_Recaptures ==
  /\ pc = "check" /\ want # 0 /\ marker # NoMarker
  /\ held' = [mode |-> mode, timeout |-> timeout, last |-> 0, fresh |-> FALSE]
  /\ Go("set_mode")
  /\ UNCHANGED <<registers, marker, want, rearmed, outcome, ghosts>>

Renew ==
  /\ pc = "check" /\ want # 0 /\ marker # NoMarker
  /\ held' = marker /\ Go("set_mode")
  /\ UNCHANGED <<registers, marker, want, rearmed, outcome, ghosts>>

-----------------------------------------------------------------------------
(* Arming: each register is read and written only when it differs.  A write  *)
(* either is verified or raises, with the register changed or not; then the  *)
(* call restores AUTO before it fails.                                       *)

SetMode ==
  /\ pc = "set_mode"
  /\ \/ mode' = BackUp /\ Go("set_timeout") /\ rearmed' = (rearmed \/ mode # BackUp)
     \/ mode' \in {mode, BackUp} /\ Go("zero_power") /\ UNCHANGED rearmed
  /\ UNCHANGED <<timeout, enable, power, marker, want, held, outcome, ghosts>>

\* Mutant: a watchdog setting that could not be written does not stop the call.
SetTimeout_Ignored ==
  /\ pc = "set_timeout"
  /\ timeout' \in {timeout, Remote} /\ Go("set_enable") /\ UNCHANGED rearmed
  /\ UNCHANGED <<mode, enable, power, marker, want, held, outcome, ghosts>>

SetTimeout ==
  /\ pc = "set_timeout"
  /\ \/ timeout' = Remote /\ Go("set_enable") /\ rearmed' = (rearmed \/ timeout # Remote)
     \/ timeout' \in {timeout, Remote} /\ Go("zero_power") /\ UNCHANGED rearmed
  /\ UNCHANGED <<mode, enable, power, marker, want, held, outcome, ghosts>>

SetEnable ==
  /\ pc = "set_enable"
  /\ \/ enable' = 1 /\ Go("set_power") /\ rearmed' = (rearmed \/ enable # 1)
     \/ enable' \in {enable, 1} /\ Go("zero_power") /\ UNCHANGED rearmed
  /\ UNCHANGED <<mode, timeout, power, marker, want, held, outcome, ghosts>>

\* The setpoint is rewritten when it differs, after re-arming, or every 60 s.
RefreshDue == rearmed \/ power # want \/ held.last # want \/ ~held.fresh

SetPower ==
  /\ pc = "set_power"
  /\ \/ /\ power' = IF RefreshDue THEN want ELSE power
        /\ held' = IF RefreshDue THEN [held EXCEPT !.last = want, !.fresh = TRUE] ELSE held
        /\ left' = 0 /\ Go("confirm")
     \/ power' \in {power, want} /\ Go("zero_power") /\ UNCHANGED <<held, left>>
  /\ UNCHANGED <<mode, timeout, enable, marker, want, rearmed, outcome, due, user, theirs>>

\* Final readbacks, then the marker records the refresh.
Confirm ==
  /\ pc = "confirm"
  /\ \/ /\ enable = 1 /\ power = want
        /\ marker' = held
        /\ End("driven") /\ UNCHANGED registers
     \/ Go("zero_power") /\ UNCHANGED <<registers, marker, locals, outcome, ghosts>>

-----------------------------------------------------------------------------
(* _restore_auto: setpoint, enable, timeout, mode, final readback, marker.   *)

ZeroPower ==
  /\ pc = "zero_power"
  /\ \/ /\ power' = 0 /\ left' = 0 /\ Go("disable")
        /\ UNCHANGED <<marker, locals, outcome, due, user, theirs>>
     \/ power' \in {power, 0} /\ End("failed") /\ UNCHANGED marker
  /\ UNCHANGED <<mode, timeout, enable>>

Disable ==
  /\ pc = "disable"
  /\ \/ enable' = 0 /\ Go("reset_timeout") /\ UNCHANGED <<marker, locals, outcome, ghosts>>
     \/ enable' \in {enable, 0} /\ End("failed") /\ UNCHANGED marker
  /\ UNCHANGED <<mode, timeout, power>>

ResetTimeout ==
  /\ pc = "reset_timeout"
  /\ \/ timeout' = held.timeout /\ Go("reset_mode") /\ UNCHANGED <<marker, locals, outcome, ghosts>>
     \/ timeout' \in {timeout, held.timeout} /\ End("failed") /\ UNCHANGED marker
  /\ UNCHANGED <<mode, enable, power>>

ResetMode ==
  /\ pc = "reset_mode"
  /\ \/ mode' = held.mode /\ Go("unmark") /\ UNCHANGED <<marker, locals, outcome, ghosts>>
     \/ mode' \in {mode, held.mode} /\ End("failed") /\ UNCHANGED marker
  /\ UNCHANGED <<timeout, enable, power>>

\* All four registers read back as expected before the marker goes.
Unmark ==
  /\ pc = "unmark"
  /\ \/ /\ power = 0 /\ enable = 0 /\ timeout = held.timeout /\ mode = held.mode
        /\ marker' = NoMarker
        /\ End(IF want = 0 THEN "auto" ELSE "failed")
     \/ End("failed") /\ UNCHANGED marker
  /\ UNCHANGED registers

-----------------------------------------------------------------------------
(* The environment. *)

Crash == pc # "idle" /\ End("crashed") /\ UNCHANGED <<registers, marker>>

\* No refresh for the watchdog time: the inverter ends remote control by itself.
InverterTimeout ==
  /\ enable = 1 /\ enable' = 0
  /\ theirs' = FALSE
  /\ UNCHANGED <<mode, timeout, power, marker, pc, locals, outcome, due, user, left>>

\* REMOTE_POWER_REFRESH_SECONDS have passed since the last write of the setpoint.
RefreshAges ==
  /\ pc = "idle" /\ marker # NoMarker /\ marker.fresh
  /\ marker' = [marker EXCEPT !.fresh = FALSE]
  /\ UNCHANGED <<registers, pc, locals, outcome, ghosts>>

\* The user changes the settings of an inverter the driver does not hold.
UserSets ==
  /\ pc = "idle" /\ marker = NoMarker
  /\ user' \in Settings
  /\ mode' = user'.mode /\ timeout' = user'.timeout
  /\ UNCHANGED <<enable, power, marker, pc, locals, outcome, due, theirs, left>>

\* Another controller takes an idle inverter, and leaves some setpoint behind.
ForeignTakes ==
  /\ pc = "idle" /\ marker = NoMarker /\ enable = 0
  /\ enable' = 1 /\ power' \in Powers /\ theirs' = TRUE /\ left' = power'
  /\ UNCHANGED <<mode, timeout, marker, pc, locals, outcome, due, user>>

ForeignReleases ==
  /\ theirs /\ enable' = 0 /\ power' \in {power, 0} /\ theirs' = FALSE /\ left' = power'
  /\ UNCHANGED <<mode, timeout, marker, pc, locals, outcome, due, user>>

-----------------------------------------------------------------------------
Check == \/ RefuseForeign \/ CheckFails \/ AutoIdle \/ AutoOwned \/ SafetyStop
         \/ Capture \/ Mark \/ Renew

Arm == SetMode \/ SetTimeout \/ SetEnable \/ SetPower \/ Confirm

RestoreAuto == ZeroPower \/ Disable \/ ResetTimeout \/ ResetMode \/ Unmark

\* The steps of the driver itself.
Driver == Check \/ Arm \/ RestoreAuto

Environment == InverterTimeout \/ RefreshAges \/ UserSets \/ ForeignTakes \/ ForeignReleases

Next == (\E dir \in Powers : Call(dir)) \/ Driver \/ Crash \/ Environment

Spec == Init /\ [][Next]_vars

-----------------------------------------------------------------------------
\* Every variable has its type: no register ever holds a value the driver did not
\* read, or a setpoint that is not one of the request's.
TypeOK ==
  /\ mode \in Modes /\ timeout \in Timeouts /\ enable \in {0, 1} /\ power \in Powers
  /\ marker \in Marker \cup {NoMarker} /\ held \in Marker \cup {NoMarker}
  /\ pc \in {"idle", "check", "mark", "set_mode", "set_timeout", "set_enable", "set_power",
             "confirm", "zero_power", "disable", "reset_timeout", "reset_mode", "unmark"}
  /\ want \in Powers /\ due \in Powers /\ left \in Powers
  /\ rearmed \in BOOLEAN /\ theirs \in BOOLEAN
  /\ outcome \in {"none", "failed", "driven", "auto", "crashed"}
  /\ user \in Settings

Ours == enable = 1 /\ ~theirs

\* Remote control the driver has switched on is never without its owner marker, so
\* a restarted process always knows that it is its own and may end it.
OwnedControl == Ours => marker # NoMarker

\* The user's work mode and watchdog setting are not lost: without a marker they are
\* what the inverter has, with one they are what the marker holds, whatever call was
\* interrupted where and however often.
SettingsReturned ==
  IF marker = NoMarker
  THEN mode = user.mode /\ timeout = user.timeout
  ELSE marker.mode = user.mode /\ marker.timeout = user.timeout

\* Remote control runs only under the dead-man setting: the inverter's own watchdog
\* is at REMOTE_TIMEOUT_SECONDS from before the switch-on until after the switch-off.
DeadMan == Ours => timeout = Remote /\ mode = BackUp

\* The inverter never follows a direction other than the one of the session that was
\* last started, not even between switching remote control on and writing the setpoint;
\* a setpoint that another controller left in the register is the one exception.
NoStaleSetpoint == Ours => power \in {0, due, left}

\* The driver keeps the contract the battery runtime relies on: only a driving call
\* lets the inverter follow a session, and a verified AUTO means that none is followed.
D == INSTANCE BatteryDriver WITH
       Sessions <- Directions, Free <- 0, due <- due,
       inv <- IF Ours THEN due ELSE 0,
       call <- IF pc = "idle" THEN "none" ELSE IF want = 0 THEN "auto" ELSE "drive"
DriverPromise == D!Spec

\* Remote control of another controller is left exactly as it is found.
ForeignUntouched ==
  [][Driver /\ theirs => UNCHANGED registers]_vars
=============================================================================
