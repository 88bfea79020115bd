----------------------------- MODULE GoodweDriver -----------------------------
(***************************************************************************)
(* communication/goodwe_ems_controller: the driver of the GoodWe inverters.*)
(* It writes two registers, the EMS mode and the EMS power, and keeps no    *)
(* marker: AUTO is the inverter's own mode with no power, whoever has set   *)
(* another.  Any transaction may fail, with the write done or not, and the  *)
(* process may die between any two.  The caller is the battery runtime.     *)
(***************************************************************************)
EXTENDS Integers

CONSTANT MaxPower   \* bound: powers of a direction are 1..MaxPower

VARIABLES
  mode,     \* EMS_MODE_REGISTER: 0 AUTO, or the direction it forces
  power,    \* EMS_POWER_REGISTER
  meant,    \* the direction that power was last written for, 0 when it was none
  pc, want, watts, \* the place of the call, its direction and its power
  outcome, due

registers == <<mode, power, meant>>
call == <<want, watts>>
caller == <<outcome, due>>
vars == <<registers, pc, call, caller>>

Directions == {-1, 1}

TypeOK ==
  /\ mode \in {0} \cup Directions /\ power \in 0..MaxPower /\ meant \in {0} \cup Directions
  /\ pc \in {"idle", "check", "power", "mode", "verify", "undo mode", "undo power", "auto mode", "auto power"}
  /\ want \in {0} \cup Directions /\ watts \in 0..MaxPower
  /\ outcome \in {"none", "failed", "driven", "auto"} /\ due \in {0} \cup Directions

Init ==
  /\ mode = 0 /\ power = 0 /\ meant = 0 /\ pc = "idle" /\ want = 0 /\ watts = 0
  /\ outcome = "none" /\ due = 0

Go(place) == pc' = place /\ UNCHANGED <<call, caller>>

End(how) ==
  /\ pc' = "idle" /\ want' = 0 /\ watts' = 0 /\ outcome' = how
  /\ due' = IF how = "auto" THEN 0 ELSE due

\* A request of the runtime, with the bus lock taken.
Call(dir, w) ==
  /\ pc = "idle" /\ pc' = "check"
  /\ IF dir = 0 THEN w = 0 /\ UNCHANGED due
     ELSE w > 0 /\ (due = 0 \/ (due = dir /\ outcome = "driven")) /\ due' = dir
  /\ want' = dir /\ watts' = w
  /\ UNCHANGED <<registers, outcome>>

\* A write of a register that is verified, or fails, done or not.
SetMode(value, next, fails) ==
  /\ \/ mode' = value /\ next
     \/ mode' \in {mode, value} /\ fails
  /\ UNCHANGED <<power, meant>>

SetPower(value, for, next, fails) ==
  /\ \/ power' = value /\ meant' = for /\ next
     \/ power' = value /\ meant' = for /\ fails
     \/ UNCHANGED <<power, meant>> /\ fails
  /\ UNCHANGED mode

-----------------------------------------------------------------------------
(* execute_goodwe_ems_from_cloud_config                                      *)

\* The adapter finds no single photovoltaic runtime or no driver for the action,
\* the request is out of its limits, or a read fails.
CheckFails == pc = "check" /\ End("failed") /\ UNCHANGED registers

\* Both registers have what is asked for: nothing is written.
AlreadyThere ==
  /\ pc = "check" /\ mode = want /\ power = watts
  /\ End(IF want = 0 THEN "auto" ELSE "driven") /\ UNCHANGED registers

\* At its limit the battery goes back to AUTO, then BatteryControlSafetyStop.
SafetyStop ==
  /\ pc = "check" /\ want # 0
  /\ IF mode # 0 \/ power # 0 THEN Go("auto mode") ELSE End("failed")
  /\ UNCHANGED registers

Drive ==
  /\ pc = "check" /\ want # 0 /\ (mode # want \/ power # watts)
  /\ Go("power") /\ UNCHANGED registers

Restore ==
  /\ pc = "check" /\ want = 0 /\ (mode # 0 \/ power # 0)
  /\ Go("auto mode") /\ UNCHANGED registers

-----------------------------------------------------------------------------
(* apply_goodwe_ems_action                                                   *)

\* The power first, then the mode that makes the inverter follow it.
DrivePower == pc = "power" /\ SetPower(watts, want, Go("mode"), Go("undo mode"))
DriveMode == pc = "mode" /\ SetMode(want, Go("verify"), Go("undo mode"))
Verified ==
  /\ pc = "verify" /\ UNCHANGED registers
  /\ IF mode = want THEN End("driven") ELSE Go("undo mode")

\* After a failure AUTO is tried, each write once and unverified.
UndoMode == pc = "undo mode" /\ SetMode(0, Go("undo power"), Go("undo power"))
UndoPower == pc = "undo power" /\ SetPower(0, 0, End("failed"), End("failed"))

AutoMode == pc = "auto mode" /\ SetMode(0, Go("auto power"), End("failed"))

AutoPower ==
  pc = "auto power" /\ SetPower(0, 0, End(IF want = 0 THEN "auto" ELSE "failed"), End("failed"))

Crash == pc # "idle" /\ End("failed") /\ UNCHANGED registers

\* The user or the inverter itself goes back to AUTO.
InverterEnds ==
  /\ mode # 0 /\ mode' = 0 /\ UNCHANGED <<power, meant, pc, call, caller>>

Next ==
  \/ \E dir \in {0} \cup Directions, w \in 0..MaxPower : Call(dir, w)
  \/ CheckFails \/ AlreadyThere \/ SafetyStop \/ Drive \/ Restore
  \/ DrivePower \/ DriveMode \/ Verified \/ UndoMode \/ UndoPower \/ AutoMode \/ AutoPower
  \/ Crash \/ InverterEnds

Spec == Init /\ [][Next]_vars

-----------------------------------------------------------------------------
(* The one power register serves both directions, each with a limit of its *)
(* own: the inverter never moves energy in one direction with a power that *)
(* was written for the other, whatever writes were lost in between.        *)
PowerOfItsDirection == mode # 0 => meant \in {0, mode}

(* The driver implements the abstract promise without any marker.          *)
D == INSTANCE BatteryDriver WITH
       Sessions <- Directions, Free <- 0, inv <- mode, due <- due,
       call <- IF pc = "idle" THEN "none" ELSE IF want = 0 THEN "auto" ELSE "drive"
DriverPromise == D!Spec
=============================================================================
