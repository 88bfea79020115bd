------------------------- MODULE FoxessDriverProofs -------------------------
(***************************************************************************)
(* Machine-checked proofs about FoxessDriver, for any work modes and        *)
(* watchdog settings, and another controller that takes the idle inverter.   *)
(***************************************************************************)
EXTENDS FoxessDriver, TLAPS

Arming == {"set_mode", "set_timeout", "set_enable", "set_power", "confirm"}
Restoring == {"zero_power", "disable", "reset_timeout", "reset_mode", "unmark"}

-----------------------------------------------------------------------------
(* The inductive invariant: what the marker and the registers say at each    *)
(* place of a call.                                                          *)

\* From the first write of a call to its last, the marker is there and the call's
\* copy of it holds the user's settings.
MarkerInHand ==
  /\ pc = "mark" => marker = NoMarker /\ enable = 0
  /\ pc \in Arming \cup Restoring => marker # NoMarker
  /\ pc \in {"mark"} \cup Arming \cup Restoring =>
       held \in Marker /\ held.mode = user.mode /\ held.timeout = user.timeout

\* Arming goes through work mode and watchdog before it switches on; restoring
\* switches off before it touches either.
Ordered ==
  /\ pc \in Arming \ {"set_mode"} => mode = BackUp
  /\ pc \in Arming \ {"set_mode", "set_timeout"} => timeout = Remote
  /\ pc \in {"reset_timeout", "reset_mode", "unmark"} => enable = 0

\* What a call wants is what is due, and what is followed is due too.
Owed ==
  /\ pc = "idle" => want = 0
  /\ want # 0 => due = want
  /\ pc \in {"mark"} \cup Arming => want # 0
  /\ Ours => due # 0

ForeignAlone == theirs => marker = NoMarker /\ enable = 1 /\ pc \in {"idle", "check"}

Consistent ==
  /\ OwnedControl /\ SettingsReturned /\ DeadMan
  /\ MarkerInHand /\ Ordered /\ Owed /\ ForeignAlone

IInv == TypeOK /\ Consistent

\* The marker file never looks like its absence.
LEMMA MarkerIsNew == NoMarker \notin Marker
BY ConstantsAssumption DEF Marker, Powers, Directions

-----------------------------------------------------------------------------
(* The invariant holds initially and every step keeps it. *)

USE DEF Ours, Arming, Restoring, Go, End, Abort, registers, locals, ghosts

\* Up to the first write.
LEMMA CheckKeeps ==
  ASSUME IInv, Check
  PROVE  IInv'
<1>0. NoMarker \notin Marker
  BY MarkerIsNew
<1>1. CASE RefuseForeign
  <2>1. TypeOK'
    BY <1>0, <1>1
    DEF IInv, TypeOK, Consistent, OwnedControl, SettingsReturned, DeadMan, MarkerInHand, Ordered,
        Owed, ForeignAlone, Marker, Settings, Powers, RefuseForeign
  <2>2. Consistent'
    BY <1>0, <1>1
    DEF IInv, TypeOK, Consistent, OwnedControl, SettingsReturned, DeadMan, MarkerInHand, Ordered,
        Owed, ForeignAlone, Marker, Settings, Powers, RefuseForeign
  <2> QED
    BY <2>1, <2>2 DEF IInv
<1>2. CASE CheckFails
  <2>1. TypeOK'
    BY <1>0, <1>2
    DEF IInv, TypeOK, Consistent, OwnedControl, SettingsReturned, DeadMan, MarkerInHand, Ordered,
        Owed, ForeignAlone, Marker, Settings, Powers, CheckFails
  <2>2. Consistent'
    BY <1>0, <1>2
    DEF IInv, TypeOK, Consistent, OwnedControl, SettingsReturned, DeadMan, MarkerInHand, Ordered,
        Owed, ForeignAlone, Marker, Settings, Powers, CheckFails
  <2> QED
    BY <2>1, <2>2 DEF IInv
<1>3. CASE AutoIdle
  <2>1. TypeOK'
    BY <1>0, <1>3
    DEF IInv, TypeOK, Consistent, OwnedControl, SettingsReturned, DeadMan, MarkerInHand, Ordered,
        Owed, ForeignAlone, Marker, Settings, Powers, AutoIdle
  <2>2. Consistent'
    BY <1>0, <1>3
    DEF IInv, TypeOK, Consistent, OwnedControl, SettingsReturned, DeadMan, MarkerInHand, Ordered,
        Owed, ForeignAlone, Marker, Settings, Powers, AutoIdle
  <2> QED
    BY <2>1, <2>2 DEF IInv
<1>4. CASE AutoOwned
  <2>1. TypeOK'
    BY <1>0, <1>4
    DEF IInv, TypeOK, Consistent, OwnedControl, SettingsReturned, DeadMan, MarkerInHand, Ordered,
        Owed, ForeignAlone, Marker, Settings, Powers, AutoOwned
  <2>2. Consistent'
    BY <1>0, <1>4
    DEF IInv, TypeOK, Consistent, OwnedControl, SettingsReturned, DeadMan, MarkerInHand, Ordered,
        Owed, ForeignAlone, Marker, Settings, Powers, AutoOwned
  <2> QED
    BY <2>1, <2>2 DEF IInv
<1>5. CASE SafetyStop
  <2>1. TypeOK'
    BY <1>0, <1>5
    DEF IInv, TypeOK, Consistent, OwnedControl, SettingsReturned, DeadMan, MarkerInHand, Ordered,
        Owed, ForeignAlone, Marker, Settings, Powers, SafetyStop
  <2>2. Consistent'
    BY <1>0, <1>5
    DEF IInv, TypeOK, Consistent, OwnedControl, SettingsReturned, DeadMan, MarkerInHand, Ordered,
        Owed, ForeignAlone, Marker, Settings, Powers, SafetyStop
  <2> QED
    BY <2>1, <2>2 DEF IInv
<1>6. CASE Capture
  <2>1. TypeOK'
    BY <1>0, <1>6
    DEF IInv, TypeOK, Consistent, OwnedControl, SettingsReturned, DeadMan, MarkerInHand, Ordered,
        Owed, ForeignAlone, Marker, Settings, Powers, Capture
  <2>2. Consistent'
    BY <1>0, <1>6
    DEF IInv, TypeOK, Consistent, OwnedControl, SettingsReturned, DeadMan, MarkerInHand, Ordered,
        Owed, ForeignAlone, Marker, Settings, Powers, Capture
  <2> QED
    BY <2>1, <2>2 DEF IInv
<1>7. CASE Mark
  <2>1. TypeOK'
    BY <1>0, <1>7
    DEF IInv, TypeOK, Consistent, OwnedControl, SettingsReturned, DeadMan, MarkerInHand, Ordered,
        Owed, ForeignAlone, Marker, Settings, Powers, Mark
  <2>2. Consistent'
    BY <1>0, <1>7
    DEF IInv, TypeOK, Consistent, OwnedControl, SettingsReturned, DeadMan, MarkerInHand, Ordered,
        Owed, ForeignAlone, Marker, Settings, Powers, Mark
  <2> QED
    BY <2>1, <2>2 DEF IInv
<1>8. CASE Renew
  <2>1. TypeOK'
    BY <1>0, <1>8
    DEF IInv, TypeOK, Consistent, OwnedControl, SettingsReturned, DeadMan, MarkerInHand, Ordered,
        Owed, ForeignAlone, Marker, Settings, Powers, Renew
  <2>2. Consistent'
    BY <1>0, <1>8
    DEF IInv, TypeOK, Consistent, OwnedControl, SettingsReturned, DeadMan, MarkerInHand, Ordered,
        Owed, ForeignAlone, Marker, Settings, Powers, Renew
  <2> QED
    BY <2>1, <2>2 DEF IInv
<1> QED
  BY <1>1, <1>2, <1>3, <1>4, <1>5, <1>6, <1>7, <1>8 DEF Check

\* Arming, and the fall into restoring when a step of it fails.
LEMMA ArmKeeps ==
  ASSUME IInv, Arm
  PROVE  IInv'
<1>0. NoMarker \notin Marker /\ BackUp \in Modes /\ Remote \in Timeouts
  BY MarkerIsNew, ConstantsAssumption
<1>1. CASE SetMode
  <2>0. rearmed' \in BOOLEAN /\ theirs' \in BOOLEAN
    BY <1>1 DEF IInv, TypeOK, SetMode
  <2>1. TypeOK'
    BY <2>0, <1>0, <1>1
    DEF IInv, TypeOK, Consistent, OwnedControl, SettingsReturned, DeadMan, MarkerInHand, Ordered,
        Owed, ForeignAlone, Marker, Settings, Powers, SetMode, RefreshDue
  <2>2. Consistent'
    BY <1>0, <1>1
    DEF IInv, TypeOK, Consistent, OwnedControl, SettingsReturned, DeadMan, MarkerInHand, Ordered,
        Owed, ForeignAlone, Marker, Settings, Powers, SetMode, RefreshDue
  <2> QED
    BY <2>1, <2>2 DEF IInv
<1>2. CASE SetTimeout
  <2>0. rearmed' \in BOOLEAN /\ theirs' \in BOOLEAN
    BY <1>2 DEF IInv, TypeOK, SetTimeout
  <2>1. TypeOK'
    BY <2>0, <1>0, <1>2
    DEF IInv, TypeOK, Consistent, OwnedControl, SettingsReturned, DeadMan, MarkerInHand, Ordered,
        Owed, ForeignAlone, Marker, Settings, Powers, SetTimeout, RefreshDue
  <2>2. Consistent'
    BY <1>0, <1>2
    DEF IInv, TypeOK, Consistent, OwnedControl, SettingsReturned, DeadMan, MarkerInHand, Ordered,
        Owed, ForeignAlone, Marker, Settings, Powers, SetTimeout, RefreshDue
  <2> QED
    BY <2>1, <2>2 DEF IInv
<1>3. CASE SetEnable
  <2>0. rearmed' \in BOOLEAN /\ theirs' \in BOOLEAN
    BY <1>3 DEF IInv, TypeOK, SetEnable
  <2>1. TypeOK'
    BY <2>0, <1>0, <1>3
    DEF IInv, TypeOK, Consistent, OwnedControl, SettingsReturned, DeadMan, MarkerInHand, Ordered,
        Owed, ForeignAlone, Marker, Settings, Powers, SetEnable, RefreshDue
  <2>2. Consistent'
    BY <1>0, <1>3
    DEF IInv, TypeOK, Consistent, OwnedControl, SettingsReturned, DeadMan, MarkerInHand, Ordered,
        Owed, ForeignAlone, Marker, Settings, Powers, SetEnable, RefreshDue
  <2> QED
    BY <2>1, <2>2 DEF IInv
<1>4. CASE SetPower
  <2>1. TypeOK'
    BY <1>0, <1>4
    DEF IInv, TypeOK, Consistent, OwnedControl, SettingsReturned, DeadMan, MarkerInHand, Ordered,
        Owed, ForeignAlone, Marker, Settings, Powers, SetPower, RefreshDue
  <2>2. Consistent'
    BY <1>0, <1>4
    DEF IInv, TypeOK, Consistent, OwnedControl, SettingsReturned, DeadMan, MarkerInHand, Ordered,
        Owed, ForeignAlone, Marker, Settings, Powers, SetPower, RefreshDue
  <2> QED
    BY <2>1, <2>2 DEF IInv
<1>5. CASE Confirm
  <2>1. TypeOK'
    BY <1>0, <1>5
    DEF IInv, TypeOK, Consistent, OwnedControl, SettingsReturned, DeadMan, MarkerInHand, Ordered,
        Owed, ForeignAlone, Marker, Settings, Powers, Confirm, RefreshDue
  <2>2. Consistent'
    BY <1>0, <1>5
    DEF IInv, TypeOK, Consistent, OwnedControl, SettingsReturned, DeadMan, MarkerInHand, Ordered,
        Owed, ForeignAlone, Marker, Settings, Powers, Confirm, RefreshDue
  <2> QED
    BY <2>1, <2>2 DEF IInv
<1> QED
  BY <1>1, <1>2, <1>3, <1>4, <1>5 DEF Arm

\* Restoring AUTO, completely or up to the step that fails.
LEMMA RestoreKeeps ==
  ASSUME IInv, RestoreAuto
  PROVE  IInv'
<1>0. NoMarker \notin Marker
  BY MarkerIsNew
<1>1. CASE ZeroPower
  <2>1. TypeOK'
    BY <1>0, <1>1
    DEF IInv, TypeOK, Consistent, OwnedControl, SettingsReturned, DeadMan, MarkerInHand, Ordered,
        Owed, ForeignAlone, Marker, Settings, Powers, ZeroPower
  <2>2. Consistent'
    BY <1>0, <1>1
    DEF IInv, TypeOK, Consistent, OwnedControl, SettingsReturned, DeadMan, MarkerInHand, Ordered,
        Owed, ForeignAlone, Marker, Settings, Powers, ZeroPower
  <2> QED
    BY <2>1, <2>2 DEF IInv
<1>2. CASE Disable
  <2>1. TypeOK'
    BY <1>0, <1>2
    DEF IInv, TypeOK, Consistent, OwnedControl, SettingsReturned, DeadMan, MarkerInHand, Ordered,
        Owed, ForeignAlone, Marker, Settings, Powers, Disable
  <2>2. Consistent'
    BY <1>0, <1>2
    DEF IInv, TypeOK, Consistent, OwnedControl, SettingsReturned, DeadMan, MarkerInHand, Ordered,
        Owed, ForeignAlone, Marker, Settings, Powers, Disable
  <2> QED
    BY <2>1, <2>2 DEF IInv
<1>3. CASE ResetTimeout
  <2>1. TypeOK'
    BY <1>0, <1>3
    DEF IInv, TypeOK, Consistent, OwnedControl, SettingsReturned, DeadMan, MarkerInHand, Ordered,
        Owed, ForeignAlone, Marker, Settings, Powers, ResetTimeout
  <2>2. Consistent'
    BY <1>0, <1>3
    DEF IInv, TypeOK, Consistent, OwnedControl, SettingsReturned, DeadMan, MarkerInHand, Ordered,
        Owed, ForeignAlone, Marker, Settings, Powers, ResetTimeout
  <2> QED
    BY <2>1, <2>2 DEF IInv
<1>4. CASE ResetMode
  <2>1. TypeOK'
    BY <1>0, <1>4
    DEF IInv, TypeOK, Consistent, OwnedControl, SettingsReturned, DeadMan, MarkerInHand, Ordered,
        Owed, ForeignAlone, Marker, Settings, Powers, ResetMode
  <2>2. Consistent'
    BY <1>0, <1>4
    DEF IInv, TypeOK, Consistent, OwnedControl, SettingsReturned, DeadMan, MarkerInHand, Ordered,
        Owed, ForeignAlone, Marker, Settings, Powers, ResetMode
  <2> QED
    BY <2>1, <2>2 DEF IInv
<1>5. CASE Unmark
  <2>1. TypeOK'
    BY <1>0, <1>5
    DEF IInv, TypeOK, Consistent, OwnedControl, SettingsReturned, DeadMan, MarkerInHand, Ordered,
        Owed, ForeignAlone, Marker, Settings, Powers, Unmark
  <2>2. Consistent'
    BY <1>0, <1>5
    DEF IInv, TypeOK, Consistent, OwnedControl, SettingsReturned, DeadMan, MarkerInHand, Ordered,
        Owed, ForeignAlone, Marker, Settings, Powers, Unmark
  <2> QED
    BY <2>1, <2>2 DEF IInv
<1> QED
  BY <1>1, <1>2, <1>3, <1>4, <1>5 DEF RestoreAuto

\* The inverter, the user, the clock and other controllers.
LEMMA EnvironmentKeeps ==
  ASSUME IInv, Environment
  PROVE  IInv'
<1>0. NoMarker \notin Marker
  BY MarkerIsNew
<1>1. CASE InverterTimeout
  <2>0. rearmed' \in BOOLEAN /\ theirs' \in BOOLEAN
    BY <1>1 DEF IInv, TypeOK, InverterTimeout
  <2>1. TypeOK'
    BY <2>0, <1>0, <1>1
    DEF IInv, TypeOK, Consistent, OwnedControl, SettingsReturned, DeadMan, MarkerInHand, Ordered,
        Owed, ForeignAlone, Marker, Settings, Powers, InverterTimeout
  <2>2. Consistent'
    BY <1>0, <1>1
    DEF IInv, TypeOK, Consistent, OwnedControl, SettingsReturned, DeadMan, MarkerInHand, Ordered,
        Owed, ForeignAlone, Marker, Settings, Powers, InverterTimeout
  <2> QED
    BY <2>1, <2>2 DEF IInv
<1>2. CASE RefreshAges
  <2>1. TypeOK'
    BY <1>0, <1>2
    DEF IInv, TypeOK, Consistent, OwnedControl, SettingsReturned, DeadMan, MarkerInHand, Ordered,
        Owed, ForeignAlone, Marker, Settings, Powers, RefreshAges
  <2>2. Consistent'
    BY <1>0, <1>2
    DEF IInv, TypeOK, Consistent, OwnedControl, SettingsReturned, DeadMan, MarkerInHand, Ordered,
        Owed, ForeignAlone, Marker, Settings, Powers, RefreshAges
  <2> QED
    BY <2>1, <2>2 DEF IInv
<1>3. CASE UserSets
  <2>1. TypeOK'
    BY <1>0, <1>3
    DEF IInv, TypeOK, Consistent, OwnedControl, SettingsReturned, DeadMan, MarkerInHand, Ordered,
        Owed, ForeignAlone, Marker, Settings, Powers, UserSets
  <2>2. Consistent'
    BY <1>0, <1>3
    DEF IInv, TypeOK, Consistent, OwnedControl, SettingsReturned, DeadMan, MarkerInHand, Ordered,
        Owed, ForeignAlone, Marker, Settings, Powers, UserSets
  <2> QED
    BY <2>1, <2>2 DEF IInv
<1>4. CASE ForeignTakes
  <2>1. TypeOK'
    BY <1>0, <1>4
    DEF IInv, TypeOK, Consistent, OwnedControl, SettingsReturned, DeadMan, MarkerInHand, Ordered,
        Owed, ForeignAlone, Marker, Settings, Powers, ForeignTakes
  <2>2. Consistent'
    BY <1>0, <1>4
    DEF IInv, TypeOK, Consistent, OwnedControl, SettingsReturned, DeadMan, MarkerInHand, Ordered,
        Owed, ForeignAlone, Marker, Settings, Powers, ForeignTakes
  <2> QED
    BY <2>1, <2>2 DEF IInv
<1>5. CASE ForeignReleases
  <2>1. TypeOK'
    BY <1>0, <1>5
    DEF IInv, TypeOK, Consistent, OwnedControl, SettingsReturned, DeadMan, MarkerInHand, Ordered,
        Owed, ForeignAlone, Marker, Settings, Powers, ForeignReleases
  <2>2. Consistent'
    BY <1>0, <1>5
    DEF IInv, TypeOK, Consistent, OwnedControl, SettingsReturned, DeadMan, MarkerInHand, Ordered,
        Owed, ForeignAlone, Marker, Settings, Powers, ForeignReleases
  <2> QED
    BY <2>1, <2>2 DEF IInv
<1> QED
  BY <1>1, <1>2, <1>3, <1>4, <1>5 DEF Environment

\* Calls, crashes and stuttering.
LEMMA OthersKeep ==
  ASSUME IInv, (\E dir \in Powers : Call(dir)) \/ Crash \/ UNCHANGED vars
  PROVE  IInv'
<1>1. CASE \E dir \in Powers : Call(dir)
  <2>1. TypeOK'
    BY <1>1 DEF IInv, TypeOK, Call
  <2>2. Consistent'
    BY <1>1 DEF IInv, TypeOK, Consistent, OwnedControl, SettingsReturned, DeadMan, MarkerInHand, Ordered,
      Owed, ForeignAlone, Call
  <2> QED
    BY <2>1, <2>2 DEF IInv
<1>2. CASE Crash
  <2>1. TypeOK'
    BY <1>2 DEF IInv, TypeOK, Crash, Powers
  <2>2. Consistent'
    BY <1>2 DEF IInv, TypeOK, Consistent, OwnedControl, SettingsReturned, DeadMan, MarkerInHand, Ordered,
      Owed, ForeignAlone, Crash
  <2> QED
    BY <2>1, <2>2 DEF IInv
<1>3. CASE UNCHANGED vars
  <2>1. TypeOK'
    BY <1>3 DEF IInv, TypeOK, vars
  <2>2. Consistent'
    BY <1>3 DEF IInv, Consistent, OwnedControl, SettingsReturned, DeadMan, MarkerInHand, Ordered,
      Owed, ForeignAlone, vars
  <2> QED
    BY <2>1, <2>2 DEF IInv
<1> QED
  BY <1>1, <1>2, <1>3

\* An inverter nobody holds satisfies the invariant.
LEMMA InitIInv == Init => IInv
<1> SUFFICES ASSUME Init PROVE IInv
  OBVIOUS
<1>1. TypeOK
  BY DEF Init, TypeOK, Settings, Powers
<1>2. Consistent
  BY DEF Init, Consistent, OwnedControl, SettingsReturned, DeadMan, MarkerInHand, Ordered,
      Owed, ForeignAlone
<1> QED
  BY <1>1, <1>2 DEF IInv

\* Every step keeps the inductive invariant.
LEMMA NextKeeps == IInv /\ [Next]_vars => IInv'
BY CheckKeeps, ArmKeeps, RestoreKeeps, EnvironmentKeeps, OthersKeep DEF Next, Driver

-----------------------------------------------------------------------------
(* The results. *)

\* The inductive invariant holds in every reachable state.
THEOREM Invariance == Spec => []IInv
BY InitIInv, NextKeeps, PTL DEF Spec

\* Every register and local of the driver has its type.
THEOREM TypeCorrect == Spec => []TypeOK
BY Invariance, PTL DEF IInv

\* Remote control switched on by foxess_ems_controller always has its owner marker.
THEOREM ControlIsOwned == Spec => []OwnedControl
<1>1. IInv => OwnedControl
  BY DEF IInv, Consistent
<1> QED
  BY <1>1, Invariance, PTL

\* The user's work mode and watchdog setting survive every interrupted call.
THEOREM SettingsAreKept == Spec => []SettingsReturned
<1>1. IInv => SettingsReturned
  BY DEF IInv, Consistent
<1> QED
  BY <1>1, Invariance, PTL

\* Remote control never runs without the dead-man watchdog of 180 s.
THEOREM DeadManHolds == Spec => []DeadMan
<1>1. IInv => DeadMan
  BY DEF IInv, Consistent
<1> QED
  BY <1>1, Invariance, PTL

\* The inverter follows no direction but that of the session last started, unless
\* another controller has left its setpoint in the register.
THEOREM SetpointIsDue == Spec => []NoStaleSetpoint
<1> DEFINE Clean == power \in {0, due, left} /\ (marker = NoMarker => power \in {0, left})
<1>1. Init => Clean
  BY DEF Init
<1>2. IInv /\ Clean /\ [Next]_vars => Clean'
  <2> SUFFICES ASSUME IInv, Clean, [Next]_vars PROVE Clean'
    OBVIOUS
  <2>0. NoMarker \notin Marker
    BY MarkerIsNew
  <2>1. CASE Check
    BY <2>0, <2>1
    DEF Check, RefuseForeign, CheckFails, AutoIdle, AutoOwned, SafetyStop, Capture, Mark,
        Renew, IInv, Consistent, MarkerInHand
  <2>2. CASE Arm
    <3>1. CASE SetMode \/ SetTimeout \/ SetEnable
      BY <3>1 DEF SetMode, SetTimeout, SetEnable, ghosts
    <3>2. CASE SetPower
      <4>1. marker # NoMarker /\ want = due
        BY <3>2 DEF SetPower, IInv, Consistent, MarkerInHand, Owed
      <4>2. power' \in {power, want} /\ (power' = want \/ left' = left)
        BY <3>2 DEF SetPower, RefreshDue
      <4> QED
        BY <3>2, <4>1, <4>2 DEF SetPower
    <3>3. CASE Confirm
      BY <2>0, <3>3
      DEF Confirm, End, registers, locals, ghosts, IInv, Consistent, MarkerInHand
    <3> QED
      BY <2>2, <3>1, <3>2, <3>3 DEF Arm
  <2>3. CASE RestoreAuto
    BY <2>3
    DEF RestoreAuto, ZeroPower, Disable, ResetTimeout, ResetMode, Unmark, IInv, Consistent,
        MarkerInHand
  <2>4. CASE \E dir \in Powers : Call(dir)
    BY <2>4 DEF Call
  <2>5. CASE Crash \/ UNCHANGED vars
    BY <2>5 DEF Crash, vars
  <2>6. CASE Environment
    BY <2>0, <2>6
    DEF Environment, InverterTimeout, RefreshAges, UserSets, ForeignTakes, ForeignReleases,
        IInv, TypeOK, Marker
  <2> QED
    BY <2>1, <2>2, <2>3, <2>4, <2>5, <2>6 DEF Next, Driver
<1>3. Clean => NoStaleSetpoint
  BY DEF NoStaleSetpoint
<1> QED
  BY <1>1, <1>2, <1>3, Invariance, PTL DEF Spec

\* Whatever another controller does, the driver leaves its remote control alone.
THEOREM ForeignIsUntouched == Spec => ForeignUntouched
<1>1. IInv /\ [Next]_vars => [Driver /\ theirs => UNCHANGED registers]_vars
  <2> SUFFICES ASSUME IInv, Driver, theirs PROVE UNCHANGED registers
    BY DEF vars
  <2>1. marker = NoMarker /\ enable = 1 /\ pc \in {"idle", "check"}
    BY DEF IInv, Consistent, ForeignAlone
  <2> QED
    BY <2>1
    DEF Driver, Check, RefuseForeign, CheckFails, AutoIdle, AutoOwned, SafetyStop, Capture,
        Mark, Renew, Arm, SetMode, SetTimeout, SetEnable, SetPower, Confirm, RestoreAuto,
        ZeroPower, Disable, ResetTimeout, ResetMode, Unmark
<1> QED
  BY <1>1, Invariance, PTL DEF Spec, ForeignUntouched

-----------------------------------------------------------------------------
(* The driver implements BatteryDriver. *)

\* The inverter follows the due session or none; a call drives or asks for AUTO.
Followed == IF Ours THEN due ELSE 0
Calling == IF pc = "idle" THEN "none" ELSE IF want = 0 THEN "auto" ELSE "drive"

\* Every step of the driver and its surroundings is one of BatteryDriver, or none.
THEOREM KeepsDriverPromise == Spec => DriverPromise
<1>1. Init => D!Init
  BY DEF Init, D!Init
<1>2. IInv /\ [Next]_vars => [D!Next]_<<Followed, due, Calling>>
  <2> SUFFICES ASSUME IInv, [Next]_vars, ~UNCHANGED <<Followed, due, Calling>>
              PROVE  D!Next
    OBVIOUS
  <2>1. CASE \E dir \in Powers : Call(dir)
    <3>1. PICK dir \in Powers : Call(dir)
      BY <2>1
    <3>2. CASE dir = 0
      BY <3>1, <3>2
      DEF Call, D!Next, D!StopCall, IInv, Consistent, Owed
    <3>3. CASE dir # 0
      <4>1. dir \in Directions
        BY <3>3 DEF Powers
      <4>2. D!Drive(dir)
        BY <3>1, <3>3 DEF Call, D!Drive, IInv, Consistent, Owed
      <4> QED
        BY <4>1, <4>2 DEF D!Next
    <3> QED
      BY <3>2, <3>3
  <2>2. CASE Crash
    BY <2>2 DEF Crash, D!Next, D!Return
  <2>3. CASE Environment
    BY <2>3
    DEF Environment, InverterTimeout, RefreshAges, UserSets, ForeignTakes, ForeignReleases,
        D!Next, D!LetGo, Followed, Calling, IInv, Consistent, ForeignAlone
  <2>4. CASE Check
    BY <2>4
    DEF Check, RefuseForeign, CheckFails, AutoIdle, AutoOwned, SafetyStop, Capture, Mark,
        Renew, D!Next, D!Return, D!Verified, Followed, Calling
  <2>5. CASE Arm
    BY <2>5
    DEF Arm, SetMode, SetTimeout, SetEnable, SetPower, Confirm, D!Next, D!Follow, D!Return,
        Followed, Calling, IInv, TypeOK, Consistent, Owed, ForeignAlone
  <2>6. CASE RestoreAuto
    BY <2>6
    DEF RestoreAuto, ZeroPower, Disable, ResetTimeout, ResetMode, Unmark, D!Next, D!LetGo,
        D!Return, D!Verified, Followed, Calling, IInv, TypeOK
  <2> QED
    BY <2>1, <2>2, <2>3, <2>4, <2>5, <2>6 DEF Next, Driver, vars, Followed, Calling
<1> QED
  BY <1>1, <1>2, Invariance, PTL DEF Spec, DriverPromise, D!Spec, Followed, Calling
=============================================================================
