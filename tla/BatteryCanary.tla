----------------------------- MODULE BatteryCanary -----------------------------
(***************************************************************************)
(* The physical canary of the battery control (battery_control_canary.py): *)
(* with the bus locked it drives the inverter with 500 W out of and into   *)
(* the battery, AUTO before, between and after.  The battery runtime that  *)
(* calls it, with its durable record, is the canary of BatteryRuntime.     *)
(* A driver call ends in its promised state or raises with any part of its *)
(* writes done (BatteryDriver); the inverter may end remote control, and   *)
(* the user of the inverter may change its settings, at any time.          *)
(***************************************************************************)
EXTENDS Naturals

CONSTANT Settings    \* values of work mode and timeout, none of them "none" or RemoteSettings

VARIABLES pc,        \* the step of run_foxess_battery_canary
          inv,       \* what the inverter follows
          marker,    \* the driver's owner marker: the settings it keeps, or "none"
          settings,  \* the settings in the registers
          original,  \* the settings the canary wants to find again
          samples,   \* matching samples in a row
          passed,    \* phases that have passed
          error,     \* has an error been recorded
          result     \* the last report

vars == <<pc, inv, marker, settings, original, samples, passed, error, result>>

Actions == {"discharge_grid", "charge_grid"}
REQUIRED_CONSECUTIVE_SAMPLES == 3
RemoteSettings == "remote"   \* the settings of remote control

TypeOK ==
  /\ pc \in {"idle", "baseline", "discharge_grid", "sample_discharge", "between",
             "charge_grid", "sample_charge", "final"}
  /\ inv \in Actions \cup {"auto"}
  /\ marker \in Settings \cup {"none"}
  /\ settings \in Settings \cup {RemoteSettings} /\ original \in Settings
  /\ samples \in 0..REQUIRED_CONSECUTIVE_SAMPLES /\ passed \in SUBSET Actions
  /\ error \in BOOLEAN /\ result \in {"none", "passed", "failed"}

Init ==
  /\ pc = "idle" /\ inv = "auto" /\ marker = "none"
  /\ settings \in Settings /\ original \in Settings
  /\ samples = 0 /\ passed = {} /\ error = FALSE /\ result = "none"

\* Request, version, profile and port fit; no foreign owner.  What the marker
\* kept is the original state, without a marker what the registers hold.
Begin ==
  /\ pc = "idle" /\ (marker # "none" \/ inv = "auto")
  /\ pc' = "baseline"
  /\ original' = IF marker # "none" THEN marker ELSE settings
  /\ samples' = 0 /\ passed' = {} /\ error' = FALSE /\ result' = "none"
  /\ UNCHANGED <<inv, marker, settings>>

\* A precondition that is not met: nothing was written, nothing is restored.
Reject ==
  /\ pc = "idle" /\ result' = "failed"
  /\ UNCHANGED <<pc, inv, marker, settings, original, samples, passed, error>>

\* An exception anywhere in the phases leads to the final AUTO.
ToFinal == pc' = "final" /\ error' = TRUE

\* Battery level, firmware or a reading is not as it should be.
Stopped ==
  /\ pc \notin {"idle", "final"} /\ ToFinal
  /\ UNCHANGED <<inv, marker, settings, original, samples, passed, result>>

-----------------------------------------------------------------------------
(* The driver, as BatteryDriver promises it.                               *)

Kept == IF marker # "none" THEN marker ELSE settings

\* AUTO is verified and its final readback finds the original settings.
AutoDone ==
  /\ inv' = "auto" /\ marker' = "none" /\ settings' = Kept

AutoPartly ==
  /\ inv' \in {inv, "auto"} /\ marker' = marker /\ settings' \in {settings, Kept}

Apply(action) ==
  /\ inv' = action /\ marker' = Kept /\ settings' = RemoteSettings

ApplyPartly(action) ==
  \/ UNCHANGED <<inv, marker, settings>>
  \/ marker' = Kept /\ inv' \in {inv, action} /\ settings' \in {settings, RemoteSettings}

-----------------------------------------------------------------------------
(* The phases.                                                             *)

\* Mutant: the direction is reversed whether or not AUTO was verified.
Between_Unverified ==
  /\ pc = "between" /\ pc' = "charge_grid"
  /\ (AutoDone \/ AutoPartly)
  /\ UNCHANGED <<original, samples, passed, error, result>>

\* _auto: the driver call and the comparison with the original state.
AutoVerified(from, to) ==
  /\ pc = from /\ AutoDone /\ settings' = original
  /\ pc' = to /\ UNCHANGED error

AutoFailed(from) == pc = from /\ (AutoDone \/ AutoPartly) /\ ToFinal

Baseline ==
  /\ AutoVerified("baseline", "discharge_grid") \/ AutoFailed("baseline")
  /\ UNCHANGED <<original, samples, passed, result>>

Between ==
  /\ AutoVerified("between", "charge_grid") \/ AutoFailed("between")
  /\ UNCHANGED <<original, samples, passed, result>>

Drive(action, next) ==
  /\ pc = action
  /\ \/ Apply(action) /\ pc' = next /\ UNCHANGED error
     \/ ApplyPartly(action) /\ ToFinal
  /\ samples' = 0
  /\ UNCHANGED <<original, passed, result>>

\* A sample: the registers still hold the request, and the measured power is
\* within the tolerance or not; three in a row are enough.
Sample(at, action, next) ==
  /\ pc = at
  /\ inv = action /\ settings = RemoteSettings
  /\ \/ samples' = 0 /\ pc' = at /\ UNCHANGED passed
     \/ /\ samples' = samples + 1
        /\ IF samples' = REQUIRED_CONSECUTIVE_SAMPLES
             THEN pc' = next /\ passed' = passed \cup {action}
             ELSE pc' = at /\ UNCHANGED passed
  /\ UNCHANGED <<inv, marker, settings, original, error, result>>

Passed == ~error /\ passed = Actions

\* The final AUTO is attempted whatever happened before.
Final ==
  /\ pc = "final" /\ pc' = "idle"
  /\ \/ /\ AutoDone /\ settings' = original
        /\ result' = IF Passed THEN "passed" ELSE "failed"
     \/ (AutoDone \/ AutoPartly) /\ result' = "failed"
  /\ UNCHANGED <<original, samples, passed, error>>

-----------------------------------------------------------------------------
\* After a failed final AUTO the runtime retries until AUTO is verified.
RuntimeStops ==
  /\ pc = "idle" /\ marker # "none"
  /\ AutoDone
  /\ UNCHANGED <<pc, original, samples, passed, error, result>>

InverterTimeout ==
  /\ inv # "auto" /\ inv' = "auto"
  /\ UNCHANGED <<pc, marker, settings, original, samples, passed, error, result>>

UserSets ==
  /\ marker = "none" /\ settings' \in Settings
  /\ UNCHANGED <<pc, inv, marker, original, samples, passed, error, result>>

\* The process dies: the marker and the inverter stay as they are.
Crash ==
  /\ pc # "idle" /\ pc' = "idle" /\ result' = "none"
  /\ UNCHANGED <<inv, marker, settings, original, samples, passed, error>>

Next ==
  \/ Begin \/ Reject \/ Stopped
  \/ Baseline
  \/ Drive("discharge_grid", "sample_discharge")
  \/ Sample("sample_discharge", "discharge_grid", "between")
  \/ Between
  \/ Drive("charge_grid", "sample_charge")
  \/ Sample("sample_charge", "charge_grid", "final")
  \/ Final
  \/ RuntimeStops \/ InverterTimeout \/ UserSets \/ Crash

Spec == Init /\ [][Next]_vars

(* The inverter never goes from feeding the grid to charging, or back,     *)
(* without AUTO in between: whatever a driver call that raised has left    *)
(* behind, and over deaths of the process and repeated commands.           *)
NoReversal == [][{inv, inv'} # Actions]_vars
=============================================================================
