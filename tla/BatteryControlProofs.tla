------------------------- MODULE BatteryControlProofs -------------------------
(***************************************************************************)
(* Machine-checked proofs about what MCBatteryControl runs beside the       *)
(* FoxESS driver: the drivers of SolaX and GoodWe, the two commissioning    *)
(* services, and the ports that all threads share; for any work modes,      *)
(* powers, settings and number of transfers.                                *)
(***************************************************************************)
EXTENDS MCBatteryControl, TLAPS

\* A behaviour of the composition is one of each of its parts.
LEMMA PartsRun == ControlSpec => X!Spec /\ G!Spec /\ Z!Spec /\ C!Spec /\ U!Spec
<1>1. ControlInit => X!Init /\ G!Init /\ Z!Init /\ C!Init /\ U!Init
  BY DEF ControlInit
<1> DEFINE Step == Foxess \/ Solax \/ Goodwe \/ Release \/ Canary \/ Owner \/ Bus
<1>2. [Step]_all => [X!Next]_(X!vars)
  BY DEF Foxess, Solax, Goodwe, Release, Canary, Owner, Bus, all, solax, X!vars, X!inverter, X!caller, X!others
<1>3. [Step]_all => [G!Next]_(G!vars)
  BY DEF Foxess, Solax, Goodwe, Release, Canary, Owner, Bus, all, goodwe, G!vars, G!registers, G!call, G!caller
<1>4. [Step]_all => [Z!Next]_(Z!vars)
  BY DEF Foxess, Solax, Goodwe, Release, Canary, Owner, Bus, all, release, Z!vars
<1>5. [Step]_all => [C!Next]_(C!vars)
  BY DEF Foxess, Solax, Goodwe, Release, Canary, Owner, Bus, all, canary, C!vars
<1>6. [Step]_all => [U!Next]_(U!vars)
  BY DEF Foxess, Solax, Goodwe, Release, Canary, Owner, Bus, all, bus, U!vars
<1> QED
  BY <1>1, <1>2, <1>3, <1>4, <1>5, <1>6, PTL DEF ControlSpec, X!Spec, G!Spec, Z!Spec, C!Spec, U!Spec

-----------------------------------------------------------------------------
(* SolaX.                                                                    *)

\* The places of a call that owns the inverter.
Driving == {"unlock", "attempt", "drive", "read back"}
Ending == {"restore", "cancel unlock", "cancel", "quiet", "verify", "relock", "unmark"}

\* What the marker on disk says while nothing is owned, and in a call.
MarkerSays ==
  /\ xWork \in WorkModes /\ xLock \in {0, 1} /\ xMarker \in X!Marker \cup {NoMarker}
  /\ xMarker = NoMarker => xLock = xLocked
  /\ xMarker # NoMarker => xMarker.lock = xLocked
  /\ xPc = "mark" => xMarker = NoMarker
  /\ xPc \in Driving \cup Ending => xMarker # NoMarker

\* What the copy of the call says, and how far it is on disk.
CopySays ==
  /\ xPc \in {"mark"} \cup Driving \cup Ending => xHeld \in X!Marker /\ xHeld.lock = xLocked
  /\ xPc = "mark" => ~xHeld.attempted
  /\ xPc \in Driving /\ xHeld.attempted => xMarker.attempted
  /\ xPc \in {"drive", "read back"} => xHeld.attempted
  /\ xPc \in Driving \cup Ending /\ xMarker.attempted => xHeld.attempted

\* The direction of a command that is still on its way.
Sent == IF xLate = <<>> THEN 0 ELSE xLate[1]

\* What a step does to it.
LEMMA SentNext ==
  /\ xLate' = xLate => Sent' = Sent
  /\ xLate' = <<>> => Sent' = 0
  /\ \A d : xLate' = <<d>> => Sent' = d
BY DEF Sent

\* It is recorded, meant for what the call wants, and gone when AUTO has been verified.
SentSays ==
  /\ X!Ours \/ Sent # 0 => xMarker # NoMarker /\ xMarker.attempted
  /\ Sent \in {0, xWant}
  /\ xPc \in {"verify", "relock", "unmark"} => Sent = 0
  /\ xPc \in {"relock", "unmark"} => xRemote = 0
  /\ xPc = "unmark" => xLock = xLocked

\* The inductive invariant.
SolaxInv ==
  /\ MarkerSays /\ CopySays /\ SentSays
  /\ (xPc = "idle" => xWant = 0) /\ (xWant # 0 => xDue = xWant)

\* The invariant of the driver of SolaX holds initially and every step keeps it.
LEMMA SolaxStarts == X!Init => SolaxInv
BY DEF X!Init, SolaxInv, X!Ours, MarkerSays, CopySays, SentSays, Sent, Driving, Ending

\* Every step of the driver, crashes and users included, keeps it.
LEMMA SolaxKeeps == SolaxInv /\ [X!Next]_(X!vars) => SolaxInv'
<1> SUFFICES ASSUME SolaxInv, [X!Next]_(X!vars) PROVE SolaxInv'
  OBVIOUS
<1> USE NoSolaxMarker, SentNext DEF SolaxInv, X!Ours, MarkerSays, CopySays, SentSays, Driving, Ending,
        X!Go, X!End, X!Abort, X!inverter, X!caller, X!others
<1>1. CASE X!CheckFails \/ X!AutoIdle \/ X!AutoOwned
  BY <1>1 DEF X!CheckFails, X!AutoIdle, X!AutoOwned
<1>2. CASE X!Capture
  BY <1>2 DEF X!Capture, X!Marker, X!Foreign
<1>3. CASE X!Renew \/ X!Mark
  BY <1>3 DEF X!Renew, X!Mark
<1>4. CASE X!Unlock
  BY <1>4 DEF X!Unlock, X!Marker
<1>5. CASE X!Attempt
  <2>1. xHeld \in X!Marker /\ xHeld' = [xHeld EXCEPT !.attempted = TRUE]
    BY <1>5 DEF X!Attempt
  <2>2. xHeld' \in X!Marker /\ xHeld'.lock = xHeld.lock /\ xHeld'.attempted
    BY <2>1 DEF X!Marker
  <2>3. \/ xMarker' = xHeld' /\ xPc' = "drive"
        \/ xMarker' \in {xMarker, xHeld'} /\ xPc' = "restore"
    BY <1>5 DEF X!Attempt
  <2> QED
    BY <1>5, <2>2, <2>3 DEF X!Attempt
<1>6. CASE X!Drive
  BY <1>6 DEF X!Drive, X!Command
<1>7. CASE X!Restore \/ X!CancelUnlock
  BY <1>7 DEF X!Restore, X!CancelUnlock, X!Marker
<1>8. CASE X!Cancel
  BY <1>8 DEF X!Cancel, X!Command
<1>9. CASE X!Verify \/ X!Relock \/ X!Unmark
  BY <1>9 DEF X!Verify, X!Relock, X!Unmark, X!Marker
<1>10. CASE X!InverterEnds \/ X!UserSets \/ X!ForeignTakes
  BY <1>10 DEF X!InverterEnds, X!UserSets, X!ForeignTakes
<1>11. CASE X!Crash \/ \E dir \in X!Powers : X!Call(dir)
  BY <1>11 DEF X!Crash, X!Call
<1>12. CASE UNCHANGED X!vars
  BY <1>12 DEF X!vars
<1>13. CASE X!Driven \/ X!Quiet
  BY <1>13 DEF X!Driven, X!Quiet
<1>14. CASE X!Arrives
  BY <1>14 DEF X!Arrives, Sent
<1> QED
  BY <1>1, <1>2, <1>3, <1>4, <1>5, <1>6, <1>7, <1>8, <1>9, <1>10, <1>11, <1>12, <1>13, <1>14 DEF X!Next, X!Driver

\* So it holds in every reachable state of the composition.
LEMMA SolaxInvariance == ControlSpec => []SolaxInv
<1>1. X!Spec => []SolaxInv
  BY SolaxStarts, SolaxKeeps, PTL DEF X!Spec
<1> QED
  BY <1>1, PartsRun, PTL

-----------------------------------------------------------------------------
(* GoodWe.                                                                   *)

\* The mode follows what is due, and in a call that drives, what the call wants.
GoodweInv ==
  /\ G!PowerOfItsDirection
  /\ gMode \in {0, gDue}
  /\ (gPc = "idle" => gWant = 0) /\ (gWant # 0 => gDue = gWant)
  /\ gPc \in {"power", "mode", "verify"} => gWant # 0
  /\ gPc = "mode" => gMeant = gWant
  /\ gPc = "auto power" => gMode = 0

\* It holds initially and every step keeps it.
LEMMA GoodweStarts == G!Init => GoodweInv
BY DEF G!Init, GoodweInv, G!PowerOfItsDirection

\* Every step of the driver keeps it.
LEMMA GoodweKeeps == GoodweInv /\ [G!Next]_(G!vars) => GoodweInv'
<1> SUFFICES ASSUME GoodweInv, [G!Next]_(G!vars) PROVE GoodweInv'
  OBVIOUS
<1> USE DEF GoodweInv, G!PowerOfItsDirection, G!Go, G!End, G!registers, G!call, G!caller
<1>1. CASE G!CheckFails \/ G!AlreadyThere \/ G!SafetyStop \/ G!Drive \/ G!Restore
  BY <1>1 DEF G!CheckFails, G!AlreadyThere, G!SafetyStop, G!Drive, G!Restore
<1>2. CASE G!DrivePower \/ G!DriveMode \/ G!Verified
  BY <1>2 DEF G!DrivePower, G!DriveMode, G!Verified, G!SetPower, G!SetMode
<1>3. CASE G!UndoMode \/ G!UndoPower \/ G!AutoMode \/ G!AutoPower
  BY <1>3 DEF G!UndoMode, G!UndoPower, G!AutoMode, G!AutoPower, G!SetPower, G!SetMode
<1>4. CASE G!Crash \/ G!InverterEnds
  BY <1>4 DEF G!Crash, G!InverterEnds
<1>5. CASE \E dir \in {0} \cup G!Directions, w \in 0..MaxPower : G!Call(dir, w)
  BY <1>5 DEF G!Call
<1>6. CASE UNCHANGED G!vars
  BY <1>6 DEF G!vars
<1> QED
  BY <1>1, <1>2, <1>3, <1>4, <1>5, <1>6 DEF G!Next

\* So it holds in every reachable state of the composition.
LEMMA GoodweInvariance == ControlSpec => []GoodweInv
<1>1. G!Spec => []GoodweInv
  BY GoodweStarts, GoodweKeeps, PTL DEF G!Spec
<1> QED
  BY <1>1, PartsRun, PTL

\* The SolaX marker authorizes the end of whatever may have begun, the parameter lock is
\* given back, and GoodWe never follows a power of the other direction.
THEOREM TracesAreKept == ControlSpec => []OthersKept
<1>1. SolaxInv /\ GoodweInv => OthersKept
  BY DEF SolaxInv, MarkerSays, SentSays, Sent, X!AttemptRecorded, X!LockReturned, GoodweInv, OthersKept
<1> QED
  BY <1>1, SolaxInvariance, GoodweInvariance, PTL

-----------------------------------------------------------------------------
(* The promises of the drivers. *)

\* The SolaX call as BatteryDriver sees it.
SolaxInverter == IF X!Ours THEN xRemote ELSE 0
SolaxCall == IF xPc = "idle" THEN "none" ELSE IF xWant = 0 THEN "auto" ELSE "drive"

\* Every step of the SolaX driver, late commands included, is one of BatteryDriver.
LEMMA SolaxPromise == ControlSpec => X!DriverPromise
<1>1. X!Init => X!D!Init
  BY DEF X!Init, X!D!Init, X!Ours
<1>2. SolaxInv /\ [X!Next]_(X!vars) => [X!D!Next]_<<SolaxInverter, xDue, SolaxCall>>
  <2> SUFFICES ASSUME SolaxInv, [X!Next]_(X!vars), ~UNCHANGED <<SolaxInverter, xDue, SolaxCall>>
               PROVE  X!D!Next
    OBVIOUS
  <2>0. /\ UNCHANGED <<xRemote, xTheirs>> => UNCHANGED SolaxInverter
        /\ xTheirs' = FALSE => SolaxInverter' = xRemote'
    BY DEF SolaxInverter, X!Ours
  <2> USE DEF SolaxInv, X!Ours, SolaxInverter, SolaxCall, X!Go, X!End, X!Abort, X!inverter, X!caller, X!others
  <2>1. CASE X!CheckFails \/ X!AutoIdle \/ X!AutoOwned \/ X!Capture \/ X!Renew \/ X!Mark
    BY <2>1
    DEF X!CheckFails, X!AutoIdle, X!AutoOwned, X!Capture, X!Renew, X!Mark, X!Foreign,
        X!D!Next, X!D!Return, X!D!Verified
  <2>2. CASE X!Unlock \/ X!Attempt \/ X!Driven \/ X!Quiet \/ X!Restore \/ X!CancelUnlock \/ X!Verify \/ X!Relock
    <3>1. UNCHANGED <<xRemote, xTheirs, xDue>> /\ ((UNCHANGED xWant /\ xPc # "idle" /\ xPc' # "idle") \/ xPc' = "idle")
      BY <2>2
      DEF X!Unlock, X!Attempt, X!Driven, X!Quiet, X!Restore, X!CancelUnlock, X!Verify, X!Relock
    <3>2. UNCHANGED SolaxInverter /\ (UNCHANGED SolaxCall \/ SolaxCall' = "none")
      BY <2>0, <3>1
    <3> QED
      BY <3>1, <3>2 DEF X!D!Next, X!D!Return
  <2>3. CASE X!Drive \/ X!Cancel
    <3>1. UNCHANGED <<xDue, SolaxCall>> /\ xPc # "idle"
      BY <2>3 DEF X!Drive, X!Cancel, X!Command
    <3>2. UNCHANGED <<xRemote, xTheirs>> \/ (xTheirs' = FALSE /\ xRemote' \in {xWant, 0})
      BY <2>3 DEF X!Drive, X!Cancel, X!Command
    <3>3. SolaxInverter' \in {SolaxInverter, 0, xWant}
      BY <2>0, <3>2
    <3> QED
      BY <3>1, <3>3 DEF X!D!Next, X!D!Follow, X!D!LetGo
  <2>4. CASE X!Unmark
    BY <2>4 DEF X!Unmark, X!D!Next, X!D!Return, X!D!Verified, SentSays
  <2>5. CASE X!Arrives
    BY <2>5 DEF X!Arrives, X!D!Next, X!D!Follow, X!D!LetGo, Sent, SentSays
  <2>6. CASE X!InverterEnds \/ X!UserSets \/ X!ForeignTakes \/ X!Crash
    BY <2>6 DEF X!InverterEnds, X!UserSets, X!ForeignTakes, X!Crash, X!D!Next, X!D!LetGo, X!D!Return
  <2>7. CASE \E dir \in X!Powers : X!Call(dir)
    <3>1. PICK dir \in X!Powers : X!Call(dir)
      BY <2>7
    <3>2. CASE dir = 0
      BY <3>1, <3>2 DEF X!Call, X!D!Next, X!D!StopCall
    <3>3. CASE dir # 0
      <4>1. X!D!Drive(dir) /\ dir \in X!Directions
        BY <3>1, <3>3 DEF X!Call, X!D!Drive, X!Powers
      <4> QED
        BY <4>1 DEF X!D!Next
    <3> QED
      BY <3>2, <3>3
  <2>8. CASE UNCHANGED X!vars
    BY <2>8 DEF X!vars
  <2> QED
    BY <2>1, <2>2, <2>3, <2>4, <2>5, <2>6, <2>7, <2>8 DEF X!Next, X!Driver
<1>3. X!Spec /\ []SolaxInv => X!DriverPromise
  BY <1>1, <1>2, PTL DEF X!Spec, X!DriverPromise, X!D!Spec, SolaxInverter, SolaxCall
<1> QED
  BY <1>3, SolaxInvariance, PartsRun, PTL

\* The GoodWe call as BatteryDriver sees it.
GoodweCall == IF gPc = "idle" THEN "none" ELSE IF gWant = 0 THEN "auto" ELSE "drive"

\* Every step of the GoodWe driver is one of BatteryDriver.
LEMMA GoodwePromise == ControlSpec => G!DriverPromise
<1>1. G!Init => G!D!Init
  BY DEF G!Init, G!D!Init
<1>2. GoodweInv /\ [G!Next]_(G!vars) => [G!D!Next]_<<gMode, gDue, GoodweCall>>
  <2> SUFFICES ASSUME GoodweInv, [G!Next]_(G!vars), ~UNCHANGED <<gMode, gDue, GoodweCall>>
               PROVE  G!D!Next
    OBVIOUS
  <2> USE DEF GoodweInv, GoodweCall, G!Go, G!End, G!registers, G!call, G!caller
  <2>1. CASE G!CheckFails \/ G!AlreadyThere \/ G!SafetyStop \/ G!Drive \/ G!Restore
    BY <2>1
    DEF G!CheckFails, G!AlreadyThere, G!SafetyStop, G!Drive, G!Restore, G!D!Next, G!D!Return, G!D!Verified
  <2>2. CASE G!DrivePower \/ G!DriveMode \/ G!Verified
    BY <2>2
    DEF G!DrivePower, G!DriveMode, G!Verified, G!SetPower, G!SetMode, G!D!Next, G!D!Follow, G!D!Return
  <2>3. CASE G!UndoMode \/ G!UndoPower \/ G!AutoMode \/ G!AutoPower
    BY <2>3
    DEF G!UndoMode, G!UndoPower, G!AutoMode, G!AutoPower, G!SetPower, G!SetMode, G!D!Next, G!D!LetGo,
        G!D!Return, G!D!Verified
  <2>4. CASE G!Crash \/ G!InverterEnds
    BY <2>4 DEF G!Crash, G!InverterEnds, G!D!Next, G!D!Return, G!D!LetGo
  <2>5. CASE \E dir \in {0} \cup G!Directions, w \in 0..MaxPower : G!Call(dir, w)
    <3>1. PICK dir \in {0} \cup G!Directions, w \in 0..MaxPower : G!Call(dir, w)
      BY <2>5
    <3>2. CASE dir = 0
      BY <3>1, <3>2 DEF G!Call, G!D!Next, G!D!StopCall
    <3>3. CASE dir # 0
      <4>1. G!D!Drive(dir) /\ dir \in G!Directions
        BY <3>1, <3>3 DEF G!Call, G!D!Drive
      <4> QED
        BY <4>1 DEF G!D!Next
    <3> QED
      BY <3>2, <3>3
  <2>6. CASE UNCHANGED G!vars
    BY <2>6 DEF G!vars
  <2> QED
    BY <2>1, <2>2, <2>3, <2>4, <2>5, <2>6 DEF G!Next
<1>3. G!Spec /\ []GoodweInv => G!DriverPromise
  BY <1>1, <1>2, PTL DEF G!Spec, G!DriverPromise, G!D!Spec, GoodweCall
<1> QED
  BY <1>3, GoodweInvariance, PartsRun, PTL

\* Both drivers implement the abstract one: an inverter follows only the session that is
\* due, and none once AUTO was verified.
THEOREM DriversPromise == ControlSpec => OthersPromise
BY SolaxPromise, GoodwePromise DEF OthersPromise

-----------------------------------------------------------------------------
(* The commissioning services. *)

\* The right to write is consumed on disk before it is used.
RightConsumed ==
  /\ writes \in Nat /\ Z!OneWrite
  /\ zPc \in {"first", "second", "intent"} => (previous <=> audit # "none")
  /\ zPc = "intent" /\ enabled => ~previous
  /\ zPc = "write" => writes = 0 /\ audit # "none"

\* Every step of the release keeps it.
LEMMA ReleaseKeepsRight == RightConsumed /\ [Z!Next]_(Z!vars) => RightConsumed'
<1> SUFFICES ASSUME RightConsumed, [Z!Next]_(Z!vars) PROVE RightConsumed'
  OBVIOUS
<1> USE DEF RightConsumed, Z!OneWrite, Z!device
<1>1. CASE Z!Begin
  <2>1. previous' <=> audit # "none"
    BY <1>1, Zenon DEF Z!Begin
  <2> QED
    BY <1>1, <2>1 DEF Z!Begin
<1>6. CASE Z!Fail \/ Z!Look \/ Z!Crash
  BY <1>6 DEF Z!Fail, Z!Look, Z!Crash
<1>7. CASE Z!LookAgain
  BY <1>7 DEF Z!LookAgain, Z!Authorized
<1>2. CASE Z!Intend
  <2>1. /\ UNCHANGED <<previous, enabled, writes>> /\ zPc = "intent"
        /\ (zPc' = "write" /\ enabled /\ audit' # "none") \/ zPc' \in {"after", "idle"}
        /\ audit # "none" => audit' # "none"
    BY <1>2 DEF Z!Intend, Z!Save
  <2> QED
    BY <2>1
<1>3. CASE Z!Write
  <2>1. writes' = 1 /\ zPc' = "after" /\ audit' = audit /\ audit # "none"
    BY <1>3 DEF Z!Write
  <2> QED
    BY <2>1
<1>4. CASE Z!Verify \/ Z!Stop \/ Z!StopRefused \/ Z!Probe \/ Z!Complete
  BY <1>4 DEF Z!Verify, Z!Stop, Z!StopRefused, Z!Probe, Z!Complete, Z!Save
<1>5. CASE Z!Others \/ Z!RuntimeStarts \/ Z!RuntimeStops \/ UNCHANGED Z!vars
  BY <1>5 DEF Z!Others, Z!RuntimeStarts, Z!RuntimeStops, Z!vars
<1> QED
  BY <1>1, <1>2, <1>3, <1>4, <1>5, <1>6, <1>7 DEF Z!Next

\* A direction is commanded to an inverter that follows none.
FromAuto == cPc \in C!Actions => cInv = "auto"

\* A step of the canary never reverses the inverter.
LEMMA CanaryKeepsAuto ==
  FromAuto /\ [C!Next]_(C!vars) => FromAuto' /\ {cInv, cInv'} # C!Actions
<1> SUFFICES ASSUME FromAuto, [C!Next]_(C!vars) PROVE FromAuto' /\ {cInv, cInv'} # C!Actions
  OBVIOUS
<1> USE DEF FromAuto, C!Actions, C!ToFinal
<1>1. CASE C!Begin \/ C!Reject \/ C!Stopped \/ C!Crash \/ C!UserSets \/ C!InverterTimeout
  BY <1>1 DEF C!Begin, C!Reject, C!Stopped, C!Crash, C!UserSets, C!InverterTimeout
<1>2. CASE C!Baseline \/ C!Between \/ C!Final \/ C!RuntimeStops
  BY <1>2 DEF C!Baseline, C!Between, C!Final, C!RuntimeStops, C!AutoVerified, C!AutoFailed, C!AutoDone, C!AutoPartly
<1>3. CASE C!Drive("discharge_grid", "sample_discharge")
  BY <1>3 DEF C!Drive, C!Apply, C!ApplyPartly
<1>4. CASE C!Drive("charge_grid", "sample_charge")
  BY <1>4 DEF C!Drive, C!Apply, C!ApplyPartly
<1>5. CASE C!Sample("sample_discharge", "discharge_grid", "between")
  BY <1>5 DEF C!Sample
<1>6. CASE C!Sample("sample_charge", "charge_grid", "final")
  BY <1>6 DEF C!Sample
<1>7. CASE UNCHANGED C!vars
  BY <1>7 DEF C!vars
<1> QED
  BY <1>1, <1>2, <1>3, <1>4, <1>5, <1>6, <1>7 DEF C!Next

\* Register 44000 is written once at most, after the attempt is on disk, and the canary
\* reverses the inverter only through AUTO, over failures, deaths and repeats.
THEOREM ServicesKeepPromise == ControlSpec => ServicePromise
<1>1. Z!Init => RightConsumed
  BY DEF Z!Init, RightConsumed, Z!OneWrite
<1>2. C!Init => FromAuto
  BY DEF C!Init, FromAuto, C!Actions
<1>3. RightConsumed' => Z!OneWrite'
  BY DEF RightConsumed
<1>4. [Foxess \/ Solax \/ Goodwe \/ Release \/ Canary \/ Owner \/ Bus]_all =>
        [Z!Next]_(Z!vars) /\ [C!Next]_(C!vars)
  BY DEF Foxess, Solax, Goodwe, Release, Canary, Owner, Bus, all, release, canary, Z!vars, C!vars
<1> QED
  BY <1>1, <1>2, <1>3, <1>4, ReleaseKeepsRight, CanaryKeepsAuto, PartsRun, PTL
  DEF ControlSpec, Z!Spec, C!Spec, ServicePromise

-----------------------------------------------------------------------------
(* The ports.  The proof looks at a program only through the order of its   *)
(* steps: a port is taken, used and given back before another is taken, and *)
(* the lock of the runtime is around all of it or not there at all.         *)

Transfers == {"read", "drive"}
PortSteps == [what : {"acquire", "read", "drive", "release"}, on : U!Ports]

\* What follows a step of a program.
OneUse(s, i) ==
  /\ s[i].what \in {"acquire", "read", "drive", "release"} /\ s[i].on \in U!Ports
  /\ s[i].what = "acquire" => i < Len(s) /\ s[i + 1].what \in Transfers /\ s[i + 1].on = s[i].on
  /\ s[i].what \in Transfers => i < Len(s) /\ s[i + 1].what = "release" /\ s[i + 1].on = s[i].on
  /\ s[i].what = "drive" => s[i].on = "rtu"
  /\ s[i].what = "release" /\ i < Len(s) => s[i + 1].what \in {"acquire", "unlock"}

\* One use of a port after another.
Uses(s) ==
  /\ s \in Seq(PortSteps) /\ Len(s) > 0
  /\ s[1].what = "acquire" /\ s[Len(s)].what = "release"
  /\ \A i \in 1..Len(s) : OneUse(s, i)

\* The same with the lock of the runtime around it, or without.
Disciplined(s, owned) ==
  /\ Len(s) \in Nat \ {0}
  /\ s[1].what = (IF owned THEN "lock" ELSE "acquire")
  /\ \A i \in 1..Len(s) :
       \/ OneUse(s, i) /\ (i = Len(s) => s[i].what = "release" /\ ~owned)
       \/ s[i].what = "lock" /\ owned /\ i = 1 /\ i < Len(s) /\ s[i + 1].what = "acquire"
       \/ s[i].what = "unlock" /\ owned /\ i = Len(s)

\* Uses in a row are a row of uses.
LEMMA UsesInARow ==
  ASSUME NEW a, NEW b, Uses(a), Uses(b)
  PROVE  Uses(a \o b)
<1> DEFINE c == a \o b
<1>1. /\ a \in Seq(PortSteps) /\ b \in Seq(PortSteps)
      /\ Len(a) > 0 /\ Len(b) > 0
      /\ a[1].what = "acquire" /\ a[Len(a)].what = "release"
      /\ b[1].what = "acquire" /\ b[Len(b)].what = "release"
  BY DEF Uses
<1>2. c \in Seq(PortSteps) /\ Len(c) = Len(a) + Len(b) /\ Len(a) \in Nat /\ Len(b) \in Nat
  BY <1>1
<1>3. \A i \in 1..Len(a) : c[i] = a[i]
  BY <1>1
<1>4. \A i \in 1..Len(b) : c[Len(a) + i] = b[i]
  BY <1>1
<1> HIDE DEF c
<1>5. c[1].what = "acquire" /\ c[Len(c)].what = "release" /\ Len(c) > 0
  BY <1>1, <1>2, <1>3, <1>4
<1>6. ASSUME NEW i \in 1..Len(c)
      PROVE  OneUse(c, i)
  <2>1. CASE i < Len(a)
    <3>1. i \in 1..Len(a) /\ i + 1 \in 1..Len(a) /\ i < Len(c)
      BY <2>1, <1>1, <1>2
    <3>2. OneUse(a, i) /\ c[i] = a[i] /\ c[i + 1] = a[i + 1]
      BY <3>1, <1>3 DEF Uses
    <3> QED
      BY <2>1, <3>1, <3>2 DEF OneUse
  <2>2. CASE i = Len(a)
    <3>1. c[i].what = "release" /\ c[i + 1].what = "acquire" /\ c[i].on \in U!Ports
      <4>1. c[i] = a[i] /\ c[i + 1] = b[1] /\ i \in 1..Len(a)
        BY <2>2, <1>1, <1>2, <1>3, <1>4
      <4>2. OneUse(a, i)
        BY <4>1 DEF Uses
      <4> QED
        BY <4>1, <4>2, <2>2, <1>1 DEF OneUse
    <3> QED
      BY <3>1 DEF OneUse, Transfers
  <2>3. CASE i > Len(a)
    <3>1. PICK j \in 1..Len(b) : i = Len(a) + j
      BY <2>3, <1>2
    <3>2. c[i] = b[j] /\ (j < Len(b) => c[i + 1] = b[j + 1]) /\ (j < Len(b) <=> i < Len(c))
      <4>1. j < Len(b) => j + 1 \in 1..Len(b) /\ i + 1 = Len(a) + (j + 1)
        BY <3>1, <1>2
      <4> QED
        BY <4>1, <3>1, <1>2, <1>4
    <3>3. OneUse(b, j)
      BY DEF Uses
    <3> QED
      BY <3>2, <3>3 DEF OneUse
  <2> QED
    BY <2>1, <2>2, <2>3, <1>2
<1> QED
  BY <1>2, <1>5, <1>6 DEF Uses, c

\* Without the lock of the runtime ...
LEMMA UsesAlone ==
  ASSUME NEW s, Uses(s)
  PROVE  Disciplined(s, FALSE)
BY DEF Uses, Disciplined

\* ... and with it.
LEMMA UsesOwned ==
  ASSUME NEW s, Uses(s)
  PROVE  Disciplined(U!Owned(s), TRUE)
<1> DEFINE c == U!Owned(s)
<1>1. Len(c) = Len(s) + 2 /\ Len(s) \in Nat \ {0}
  BY DEF U!Owned, Uses, U!Op
<1>2. c[1].what = "lock" /\ c[Len(s) + 2].what = "unlock"
  BY DEF U!Owned, Uses, U!Op
<1>3. \A i \in 1..Len(s) : c[i + 1] = s[i]
  BY DEF U!Owned, Uses, U!Op
<1> HIDE DEF c
<1>4. ASSUME NEW i \in 2..Len(s)+1
      PROVE  OneUse(c, i)
  <2>1. PICK j \in 1..Len(s) : i = j + 1
    BY <1>1
  <2>2. c[i] = s[j] /\ (j < Len(s) => c[i + 1] = s[j + 1]) /\ (j = Len(s) => c[i + 1].what = "unlock")
    BY <2>1, <1>1, <1>2, <1>3
  <2>3. OneUse(s, j) /\ (j = Len(s) => s[j].what = "release")
    BY DEF Uses
  <2>4. CASE j < Len(s)
    BY <2>1, <2>2, <2>3, <2>4, <1>1 DEF OneUse
  <2>5. CASE j = Len(s)
    BY <2>1, <2>2, <2>3, <2>5, <1>1 DEF OneUse, Transfers
  <2> QED
    BY <2>4, <2>5, <1>1
<1>5. c[2].what = "acquire" /\ 2 \in 2..Len(s)+1
  BY <1>3, <1>1 DEF Uses
<1>6. \A i \in 1..Len(c) : i = 1 \/ i \in 2..Len(s) + 1 \/ i = Len(c)
  BY <1>1
<1>7. Disciplined(c, TRUE)
  BY <1>1, <1>2, <1>4, <1>5, <1>6 DEF Disciplined
<1> QED
  BY <1>7 DEF c

\* A driver call and a read are one use each.
LEMMA DriveUses == Uses(U!Drive)
<1>1. Len(U!Drive) = 3 /\ U!Drive \in Seq(PortSteps)
  BY DEF U!Drive, U!Op, PortSteps, U!Ports
<1>2. OneUse(U!Drive, 1) /\ OneUse(U!Drive, 2) /\ OneUse(U!Drive, 3)
  BY DEF OneUse, Transfers, U!Drive, U!Op, U!Ports
<1>3. U!Drive[1].what = "acquire" /\ U!Drive[3].what = "release"
  BY DEF U!Drive, U!Op
<1> QED
  BY <1>1, <1>2, <1>3 DEF Uses

\* A read of a port is one disciplined use of it.
LEMMA ReadUses == ASSUME NEW p \in U!Ports PROVE Uses(U!Read(p))
<1>1. Len(U!Read(p)) = 3 /\ U!Read(p) \in Seq(PortSteps)
  BY DEF U!Read, U!Op, PortSteps
<1>2. OneUse(U!Read(p), 1) /\ OneUse(U!Read(p), 2) /\ OneUse(U!Read(p), 3)
  BY DEF OneUse, Transfers, U!Read, U!Op
<1>3. U!Read(p)[1].what = "acquire" /\ U!Read(p)[3].what = "release"
  BY DEF U!Read, U!Op
<1> QED
  BY <1>1, <1>2, <1>3 DEF Uses

\* The jobs that hold the lock of the runtime.
OwnedJobs == {"tick", "intent", "canary", "release"}
BusJobs == OwnedJobs \cup {"snapshot", "probe", "console"}

\* Whatever a thread is asked to do, its program is disciplined.
LEMMA ProgramsAreDisciplined ==
  ASSUME NEW what \in BusJobs
  PROVE  Disciplined(U!Program(what), what \in OwnedJobs)
<1>1. "rtu" \in U!Ports /\ "console" \in U!Ports
  BY DEF U!Ports
<1>2. CASE what = "snapshot"
  <2>1. U!Program(what) = U!Read("rtu") \o U!Read("console")
    BY <1>2, Zenon DEF U!Program, U!ReadInverter, U!ReadBattery
  <2>2. Disciplined(U!Program(what), FALSE)
    BY <2>1, <1>1, ReadUses, UsesInARow, UsesAlone
  <2>3. (what \in OwnedJobs) = FALSE
    BY <1>2 DEF OwnedJobs
  <2> QED
    BY <2>2, <2>3, Zenon
<1>3. CASE what \in {"probe", "console"}
  <2>1. U!Program(what) = U!Read("rtu") \/ U!Program(what) = U!Read("console")
    BY <1>3, Zenon DEF U!Program, U!Probe, U!ReadBattery
  <2>2. Disciplined(U!Program(what), FALSE)
    BY <2>1, <1>1, ReadUses, UsesAlone
  <2>3. (what \in OwnedJobs) = FALSE
    BY <1>3 DEF OwnedJobs
  <2> QED
    BY <2>2, <2>3, Zenon
<1>4. CASE what = "tick"
  <2>1. U!Program(what) = U!Owned(U!Drive)
    BY <1>4, Zenon DEF U!Program
  <2> QED
    BY <2>1, <1>4, DriveUses, UsesOwned DEF OwnedJobs
<1>5. CASE what \in {"intent", "canary"}
  <2>1. U!Program(what) = U!Owned(U!Drive \o U!Drive)
    BY <1>5, Zenon DEF U!Program, U!DriveTwice
  <2> QED
    BY <2>1, <1>5, DriveUses, UsesInARow, UsesOwned DEF OwnedJobs
<1>6. CASE what = "release"
  <2>1. U!Program(what) = U!Owned(U!Drive \o U!Drive \o U!Read("rtu"))
    BY <1>6, Zenon DEF U!Program, U!ReleaseRemote, U!Probe
  <2>2. Uses(U!Drive \o U!Drive) /\ Uses(U!Read("rtu"))
    BY DriveUses, UsesInARow, ReadUses, <1>1
  <2>3. Uses(U!Drive \o U!Drive \o U!Read("rtu"))
    BY <2>2, UsesInARow
  <2> QED
    BY <2>1, <2>3, <1>6, UsesOwned DEF OwnedJobs
<1> QED
  BY <1>2, <1>3, <1>4, <1>5, <1>6 DEF BusJobs, OwnedJobs

-----------------------------------------------------------------------------
\* The lock of the runtime is held inside an owned job, a port where it is used or
\* given back.
Inside(t) == job[t] \in OwnedJobs /\ at[t] > 1
Using(t, p) == U!Now(t).on = p /\ U!Now(t).what \in Transfers \cup {"release"}

\* The places of the threads, and the types of what they share.
BusTypes ==
  /\ job \in [U!Threads -> BusJobs \cup {"rest"}]
  /\ at \in [U!Threads -> Nat \ {0}] /\ done \in [U!Threads -> Nat] /\ failed \in [U!Threads -> BOOLEAN]
  /\ runtime \in U!Threads \cup {U!Nobody} /\ port \in [U!Ports -> U!Threads \cup {U!Nobody}]
  /\ open \in [U!Ports -> SUBSET U!Threads]
  /\ busWrites \in Nat /\ seen \in [U!Threads -> SUBSET Nat]
  /\ \A t \in U!Threads : job[t] # "rest" => at[t] <= Len(U!Program(job[t]))

\* A lock is held exactly where a program is inside it.
Holders ==
  /\ \A t \in U!Threads : runtime = t <=> Inside(t)
  /\ \A t \in U!Threads, p \in U!Ports : port[p] = t <=> Using(t, p)

\* A client is open, has transferred or has failed only during a use of its port.
Clients ==
  /\ \A t \in U!Threads, p \in U!Ports : t \in open[p] => U!Now(t).on = p /\ U!Now(t).what \in Transfers
  /\ \A t \in U!Threads : done[t] > 0 => t \in open[U!Now(t).on] /\ U!Now(t).what \in Transfers
  /\ \A t \in U!Threads : failed[t] => U!Now(t).what \in Transfers \cup {"release"}

\* What a reader has seen since it opened the port.
Undisturbed ==
  \A t \in U!Threads :
    U!Now(t).what = "read" /\ t \in open["rtu"] =>
      seen[t] \subseteq {busWrites} /\ (done[t] = 0 => seen[t] = {})

\* The inductive invariant.
BusInv == BusTypes /\ Holders /\ Clients /\ Undisturbed

\* A thread whose place does not change is where it was.
LEMMA SameNow ==
  ASSUME NEW u, job'[u] = job[u], at'[u] = at[u]
  PROVE  U!Now(u)' = U!Now(u) /\ (Inside(u)' <=> Inside(u))
BY DEF U!Now, Inside

\* Where a thread is in its program.
LEMMA NowInProgram ==
  ASSUME BusTypes, NEW t \in U!Threads, U!Now(t).what # "rest"
  PROVE  /\ job[t] \in BusJobs /\ Disciplined(U!Program(job[t]), job[t] \in OwnedJobs)
         /\ at[t] \in 1..Len(U!Program(job[t])) /\ U!Now(t) = U!Program(job[t])[at[t]]
<1>1. job[t] # "rest"
  BY DEF U!Now, U!Op
<1>2. job[t] \in BusJobs /\ at[t] \in Nat \ {0} /\ at[t] <= Len(U!Program(job[t]))
  BY <1>1 DEF BusTypes
<1>3. Disciplined(U!Program(job[t]), job[t] \in OwnedJobs)
  BY <1>2, ProgramsAreDisciplined
<1>4. Len(U!Program(job[t])) \in Nat
  BY <1>3 DEF Disciplined
<1> QED
  BY <1>1, <1>2, <1>3, <1>4 DEF U!Now

\* The end of a step, at the next one or out of the program.
LEMMA GoesOn ==
  ASSUME BusTypes, NEW t \in U!Threads, U!Now(t).what # "rest", NEW n \in Nat \ {0}, U!GoOn(t, n)
  PROVE  /\ job' \in [U!Threads -> BusJobs \cup {"rest"}] /\ at' \in [U!Threads -> Nat \ {0}]
         /\ \A u \in U!Threads : job'[u] # "rest" => at'[u] <= Len(U!Program(job'[u]))
         /\ \A u \in U!Threads \ {t} : job'[u] = job[u] /\ at'[u] = at[u]
         /\ n <= Len(U!Program(job[t])) =>
              job'[t] = job[t] /\ at'[t] = n /\ U!Now(t)' = U!Program(job[t])[n]
         /\ ~(n <= Len(U!Program(job[t]))) => job'[t] = "rest" /\ U!Now(t)'.what = "rest"
<1>1. job[t] # "rest"
  BY DEF U!Now, U!Op
<1>2. CASE n <= Len(U!Program(job[t]))
  <2>1. at' = [at EXCEPT ![t] = n] /\ job' = job
    BY <1>2 DEF U!GoOn
  <2> QED
    BY <1>1, <1>2, <2>1 DEF BusTypes, U!Now
<1>3. CASE ~(n <= Len(U!Program(job[t])))
  <2>1. at' = [at EXCEPT ![t] = 1] /\ job' = [job EXCEPT ![t] = "rest"]
    BY <1>3 DEF U!GoOn
  <2>2. job'[t] = "rest" /\ U!Now(t)'.what = "rest"
    BY <2>1 DEF BusTypes, U!Now, U!Op
  <2> QED
    BY <1>3, <2>1, <2>2 DEF BusTypes
<1> QED
  BY <1>2, <1>3

\* From a step to the one after it.
LEMMA StepAfter ==
  ASSUME BusTypes, NEW t \in U!Threads, U!Now(t).what # "rest", U!GoOn(t, at[t] + 1)
  PROVE  /\ U!Now(t).what = "acquire" => U!Now(t)'.what \in Transfers /\ U!Now(t)'.on = U!Now(t).on
         /\ U!Now(t).what \in Transfers => U!Now(t)'.what = "release" /\ U!Now(t)'.on = U!Now(t).on
         /\ U!Now(t).what = "release" => U!Now(t)'.what \in {"acquire", "unlock", "rest"}
         /\ U!Now(t).what = "lock" => U!Now(t)'.what = "acquire" /\ Inside(t)'
         /\ U!Now(t).what = "unlock" => U!Now(t)'.what = "rest" /\ ~Inside(t)' /\ Inside(t)
         /\ U!Now(t).what \notin {"lock", "unlock"} => (Inside(t)' <=> Inside(t))
<1> DEFINE s == U!Program(job[t])
           i == at[t]
<1>1. /\ job[t] \in BusJobs /\ Disciplined(s, job[t] \in OwnedJobs)
      /\ i \in 1..Len(s) /\ U!Now(t) = s[i]
  BY NowInProgram
<1>2. /\ i + 1 <= Len(s) => job'[t] = job[t] /\ at'[t] = i + 1 /\ U!Now(t)' = s[i + 1]
      /\ ~(i + 1 <= Len(s)) => job'[t] = "rest" /\ U!Now(t)'.what = "rest"
  <2>1. i + 1 \in Nat \ {0}
    BY <1>1
  <2> QED
    BY <2>1, GoesOn
<1> HIDE DEF s, i
<1>3. Len(s) \in Nat \ {0}
  BY <1>1 DEF Disciplined
<1>4. "rest" \notin OwnedJobs
  BY DEF OwnedJobs
<1>5. Inside(t) <=> job[t] \in OwnedJobs /\ i > 1
  BY DEF Inside, i
<1>6. Inside(t)' <=> job'[t] \in OwnedJobs /\ at'[t] > 1
  BY DEF Inside
<1>7. CASE OneUse(s, i) /\ (i = Len(s) => s[i].what = "release" /\ job[t] \notin OwnedJobs)
  <2>1. s[i].what \in {"acquire", "read", "drive", "release"}
    BY <1>7 DEF OneUse
  <2>2. i = 1 => job[t] \notin OwnedJobs
    BY <1>1, <1>3, <2>1 DEF Disciplined
  <2>3. Inside(t)' <=> Inside(t)
    BY <1>1, <1>2, <1>3, <1>4, <1>5, <1>6, <1>7, <2>2
  <2>4. /\ s[i].what = "acquire" => U!Now(t)'.what \in Transfers /\ U!Now(t)'.on = s[i].on
        /\ s[i].what \in Transfers => U!Now(t)'.what = "release" /\ U!Now(t)'.on = s[i].on
        /\ s[i].what = "release" => U!Now(t)'.what \in {"acquire", "unlock", "rest"}
    BY <1>1, <1>2, <1>3, <1>7 DEF OneUse
  <2> QED
    BY <1>1, <2>1, <2>3, <2>4
<1>8. CASE s[i].what = "lock" /\ job[t] \in OwnedJobs /\ i = 1 /\ i < Len(s) /\ s[i + 1].what = "acquire"
  BY <1>1, <1>2, <1>3, <1>6, <1>8 DEF Transfers
<1>9. CASE s[i].what = "unlock" /\ job[t] \in OwnedJobs /\ i = Len(s)
  <2>1. i > 1
    <3>1. s[1].what = "lock"
      BY <1>1, <1>9 DEF Disciplined
    <3> QED
      BY <3>1, <1>1, <1>3, <1>9
  <2> QED
    BY <1>1, <1>2, <1>3, <1>4, <1>5, <1>6, <1>9, <2>1 DEF Transfers
<1> QED
  BY <1>1, <1>7, <1>8, <1>9 DEF Disciplined

\* Where a thread goes on after it has given a port back, also when its use failed.
LEMMA AfterRelease ==
  ASSUME BusTypes, NEW t \in U!Threads, U!Now(t).what = "release",
         NEW n \in U!WayOut(t), U!GoOn(t, n)
  PROVE  U!Now(t)'.what \in {"acquire", "unlock", "rest"} /\ (Inside(t)' <=> Inside(t))
<1>1. CASE n = at[t] + 1
  BY <1>1, StepAfter
<1>2. CASE n # at[t] + 1
  <2> DEFINE s == U!Program(job[t])
  <2>1. /\ job[t] \in BusJobs /\ Disciplined(s, job[t] \in OwnedJobs)
        /\ at[t] \in 1..Len(s) /\ U!Now(t) = s[at[t]]
    BY NowInProgram
  <2>2. n = (IF job[t] \in OwnedJobs THEN Len(s) ELSE Len(s) + 1)
    BY <1>2 DEF U!WayOut, OwnedJobs
  <2>3. Len(s) \in Nat \ {0} /\ n \in Nat \ {0}
    BY <2>1, <2>2 DEF Disciplined
  <2>4. /\ n <= Len(s) => job'[t] = job[t] /\ at'[t] = n /\ U!Now(t)' = s[n]
        /\ ~(n <= Len(s)) => job'[t] = "rest" /\ U!Now(t)'.what = "rest"
    BY <2>3, GoesOn
  <2> HIDE DEF s
  <2>5. "rest" \notin OwnedJobs
    BY DEF OwnedJobs
  <2>6. CASE job[t] \in OwnedJobs
    <3>1. s[1].what = "lock" /\ s[Len(s)].what = "unlock"
      BY <2>1, <2>3, <2>6 DEF Disciplined, OneUse
    <3>2. at[t] > 1 /\ Len(s) > 1
      BY <3>1, <2>1, <2>3
    <3> QED
      BY <2>2, <2>3, <2>4, <2>6, <3>1, <3>2 DEF Inside
  <2>7. CASE job[t] \notin OwnedJobs
    BY <2>2, <2>3, <2>4, <2>5, <2>7 DEF Inside
  <2> QED
    BY <2>6, <2>7
<1> QED
  BY <1>1, <1>2

-----------------------------------------------------------------------------
\* A thread begins what it is asked to do, and takes or gives back a lock.
LEMMA BeginKeeps ==
  ASSUME BusInv, NEW t \in U!Threads, NEW what \in U!Jobs(t), U!Begin(t, what)
  PROVE  BusInv'
<1>1. what \in BusJobs /\ what # "rest"
  BY Zenon DEF U!Jobs, U!Threads, BusJobs, OwnedJobs
<1>2. Disciplined(U!Program(what), what \in OwnedJobs)
  BY <1>1, ProgramsAreDisciplined
<1>3. Len(U!Program(what)) >= 1 /\ U!Program(what)[1].what \in {"acquire", "lock"}
  BY <1>2 DEF Disciplined
<1>4. job' = [job EXCEPT ![t] = what] /\ at' = [at EXCEPT ![t] = 1] /\ job[t] = "rest"
      /\ UNCHANGED <<done, failed, runtime, port, open, busWrites, seen>>
  BY DEF U!Begin
<1>5. U!Now(t)' = U!Program(what)[1] /\ ~Inside(t)' /\ ~Inside(t) /\ U!Now(t).what = "rest"
  BY <1>1, <1>4 DEF BusInv, BusTypes, U!Now, Inside, U!Op, OwnedJobs
<1>6. \A u \in U!Threads \ {t} : U!Now(u)' = U!Now(u) /\ (Inside(u)' <=> Inside(u))
  BY <1>4, SameNow DEF BusInv, BusTypes
<1>7. BusTypes'
  BY <1>1, <1>3, <1>4 DEF BusInv, BusTypes
<1>8. Holders'
  BY <1>3, <1>4, <1>5, <1>6 DEF BusInv, Holders, Using, Transfers
<1>9. Clients'
  BY <1>3, <1>4, <1>5, <1>6 DEF BusInv, Clients, Transfers
<1>10. Undisturbed'
  BY <1>3, <1>4, <1>5, <1>6 DEF BusInv, Undisturbed
<1> QED
  BY <1>7, <1>8, <1>9, <1>10 DEF BusInv

\* Taking and giving back the lock of the runtime keeps the order of the bus.
LEMMA LockKeeps ==
  ASSUME BusInv, NEW t \in U!Threads, U!Lock(t) \/ U!Unlock(t)
  PROVE  BusInv'
<1>1. U!Now(t).what \in {"lock", "unlock"} /\ U!GoOn(t, at[t] + 1)
      /\ UNCHANGED <<done, failed, port, open, busWrites, seen>>
  BY DEF U!Lock, U!Unlock
<1>2. BusTypes /\ at[t] + 1 \in Nat \ {0}
  BY DEF BusInv, BusTypes
<1>3. /\ U!Now(t).what = "lock" => U!Now(t)'.what = "acquire" /\ Inside(t)'
      /\ U!Now(t).what = "unlock" => U!Now(t)'.what = "rest" /\ ~Inside(t)' /\ Inside(t)
  BY <1>1, <1>2, StepAfter
<1>4. /\ job' \in [U!Threads -> BusJobs \cup {"rest"}] /\ at' \in [U!Threads -> Nat \ {0}]
      /\ \A u \in U!Threads : job'[u] # "rest" => at'[u] <= Len(U!Program(job'[u]))
      /\ \A u \in U!Threads \ {t} : job'[u] = job[u] /\ at'[u] = at[u]
  BY <1>1, <1>2, GoesOn
<1>5. \A u \in U!Threads \ {t} : U!Now(u)' = U!Now(u) /\ (Inside(u)' <=> Inside(u))
  BY <1>4, SameNow
<1>6. BusTypes'
  BY <1>1, <1>2, <1>4 DEF BusTypes, U!Lock, U!Unlock
<1>7. Holders'
  <2>1. \A u \in U!Threads : runtime' = u <=> Inside(u)'
    <3>1. U!Nobody \notin U!Threads
      BY DEF U!Nobody, U!Threads
    <3>2. \A u \in U!Threads : runtime = u <=> Inside(u)
      BY DEF BusInv, Holders
    <3>3. CASE U!Lock(t)
      BY <1>3, <1>5, <3>1, <3>2, <3>3 DEF U!Lock
    <3>4. CASE U!Unlock(t)
      BY <1>3, <1>5, <3>1, <3>2, <3>4 DEF U!Unlock
    <3> QED
      BY <3>3, <3>4
  <2>2. \A u \in U!Threads, p \in U!Ports : port'[p] = u <=> Using(u, p)'
    BY <1>1, <1>3, <1>5 DEF BusInv, Holders, Using, Transfers
  <2> QED
    BY <2>1, <2>2 DEF Holders
<1>8. Clients'
  BY <1>1, <1>3, <1>5 DEF BusInv, Clients, Transfers
<1>9. Undisturbed'
  BY <1>1, <1>3, <1>5 DEF BusInv, Undisturbed
<1> QED
  BY <1>6, <1>7, <1>8, <1>9 DEF BusInv

\* Taking a port keeps it: nobody else is inside.
LEMMA AcquireKeeps ==
  ASSUME BusInv, NEW t \in U!Threads, U!Acquire(t)
  PROVE  BusInv'
<1> DEFINE p == U!Now(t).on
<1>1. /\ U!Now(t).what = "acquire" /\ port[p] = U!Nobody /\ port' = [port EXCEPT ![p] = t]
      /\ U!GoOn(t, at[t] + 1) /\ UNCHANGED <<done, failed, runtime, open, busWrites, seen>>
  BY DEF U!Acquire
<1>2. BusTypes /\ at[t] + 1 \in Nat \ {0}
  BY DEF BusInv, BusTypes
<1>3. U!Now(t)'.what \in Transfers /\ U!Now(t)'.on = p /\ (Inside(t)' <=> Inside(t))
  BY <1>1, <1>2, StepAfter
<1>4. /\ job' \in [U!Threads -> BusJobs \cup {"rest"}] /\ at' \in [U!Threads -> Nat \ {0}]
      /\ \A u \in U!Threads : job'[u] # "rest" => at'[u] <= Len(U!Program(job'[u]))
      /\ \A u \in U!Threads \ {t} : job'[u] = job[u] /\ at'[u] = at[u]
  BY <1>1, <1>2, GoesOn
<1>5. \A u \in U!Threads \ {t} : U!Now(u)' = U!Now(u) /\ (Inside(u)' <=> Inside(u))
  BY <1>4, SameNow
<1>6. p \in U!Ports
  BY <1>1, <1>2, NowInProgram DEF Disciplined, OneUse
<1> HIDE DEF p
<1>7. BusTypes'
  BY <1>1, <1>2, <1>4, <1>6 DEF BusTypes
<1>8. Holders'
  <2>1. U!Nobody \notin U!Threads /\ p \in DOMAIN port
    BY <1>2, <1>6 DEF U!Nobody, U!Threads, BusTypes
  <2>2. \A u \in U!Threads, q \in U!Ports : port'[q] = u <=> Using(u, q)'
    <3> TAKE u \in U!Threads, q \in U!Ports
    <3>1. port[q] = u <=> Using(u, q)
      BY DEF BusInv, Holders
    <3>2. port'[q] = IF q = p THEN t ELSE port[q]
      BY <1>1, <1>2 DEF BusTypes
    <3>3. CASE u = t
      BY <1>1, <1>3, <3>1, <3>2, <3>3 DEF Using, Transfers, p
    <3>4. CASE u # t
      BY <1>1, <1>5, <2>1, <3>1, <3>2, <3>4 DEF Using
    <3> QED
      BY <3>3, <3>4
  <2> QED
    BY <1>1, <1>3, <1>5, <2>2 DEF BusInv, Holders
<1>9. Clients'
  BY <1>1, <1>3, <1>5 DEF BusInv, Clients, Transfers
<1>10. Undisturbed'
  <2>1. t \notin open["rtu"]
    BY <1>1 DEF BusInv, Clients, Transfers, U!Ports
  <2> QED
    BY <1>1, <1>3, <1>5, <2>1 DEF BusInv, Undisturbed
<1> QED
  BY <1>7, <1>8, <1>9, <1>10 DEF BusInv

\* A step inside one use of a port: the client is opened, it transfers or it fails.
LEMMA UseKeeps ==
  ASSUME BusInv, NEW t \in U!Threads, U!Connect(t) \/ U!Fails(t) \/ U!Transfer(t)
  PROVE  BusInv'
<1> DEFINE p == U!Now(t).on
<1>1. /\ U!Now(t).what \in Transfers /\ UNCHANGED <<job, at, runtime, port>>
  BY DEF U!Connect, U!Fails, U!Transfer, Transfers
<1>2. BusTypes
  BY DEF BusInv
<1>3. \A u \in U!Threads : U!Now(u)' = U!Now(u) /\ (Inside(u)' <=> Inside(u))
  BY <1>1, SameNow
<1>4. p \in U!Ports /\ (U!Now(t).what = "drive" => p = "rtu")
  BY <1>1, <1>2, NowInProgram DEF Disciplined, OneUse, Transfers
<1>5. port[p] = t
  BY <1>1, <1>4 DEF BusInv, Holders, Using
<1> HIDE DEF p
<1>6. Holders'
  BY <1>1, <1>3 DEF BusInv, Holders, Using
<1>7. CASE U!Connect(t)
  <2>1. /\ open' = [open EXCEPT ![p] = @ \cup {t}] /\ seen' = [seen EXCEPT ![t] = {}]
        /\ done[t] = 0 /\ UNCHANGED <<done, failed, busWrites>>
    BY <1>7 DEF U!Connect, p
  <2>2. BusTypes'
    BY <1>1, <1>2, <1>4, <2>1 DEF BusTypes
  <2>3. \A u \in U!Threads, q \in U!Ports : u \in open'[q] <=> (u \in open[q] \/ (u = t /\ q = p))
    BY <1>2, <1>4, <2>1 DEF BusTypes
  <2>4. Clients'
    <3>1. \A u \in U!Threads, q \in U!Ports :
            u \in open'[q] => U!Now(u)'.on = q /\ U!Now(u)'.what \in Transfers
      BY <1>1, <1>3, <2>3 DEF BusInv, Clients, p
    <3>2. \A u \in U!Threads : done'[u] > 0 =>
            u \in open'[U!Now(u)'.on] /\ U!Now(u)'.what \in Transfers
      <4> TAKE u \in U!Threads
      <4> HAVE done'[u] > 0
      <4>1. u \in open[U!Now(u).on] /\ U!Now(u).what \in Transfers
        BY <2>1 DEF BusInv, Clients
      <4>2. U!Now(u).on \in U!Ports
        BY <1>2, <4>1, NowInProgram DEF Disciplined, OneUse, Transfers
      <4> QED
        BY <1>3, <2>3, <4>1, <4>2
    <3> QED
      BY <1>3, <2>1, <3>1, <3>2 DEF BusInv, Clients
  <2>5. Undisturbed'
    <3> SUFFICES ASSUME NEW u \in U!Threads, U!Now(u)'.what = "read", u \in open'["rtu"]
                 PROVE  seen'[u] \subseteq {busWrites'} /\ (done'[u] = 0 => seen'[u] = {})
      BY DEF Undisturbed
    <3>1. CASE u = t
      BY <1>2, <2>1, <3>1 DEF BusTypes
    <3>2. CASE u # t
      BY <1>2, <1>3, <2>1, <2>3, <3>2 DEF BusInv, BusTypes, Undisturbed, U!Ports
    <3> QED
      BY <3>1, <3>2
  <2> QED
    BY <1>6, <2>2, <2>4, <2>5 DEF BusInv
<1>8. CASE U!Fails(t)
  <2>1. failed' = [failed EXCEPT ![t] = TRUE] /\ UNCHANGED <<done, open, busWrites, seen>>
    BY <1>8 DEF U!Fails
  <2>2. BusTypes'
    BY <1>1, <1>2, <2>1 DEF BusTypes
  <2>3. Clients'
    BY <1>1, <1>2, <1>3, <2>1 DEF BusInv, Clients, BusTypes
  <2>4. Undisturbed'
    BY <1>3, <2>1 DEF BusInv, Undisturbed
  <2> QED
    BY <1>6, <2>2, <2>3, <2>4 DEF BusInv
<1>9. CASE U!Transfer(t)
  <2>1. /\ done' = [done EXCEPT ![t] = @ + 1] /\ seen' = [seen EXCEPT ![t] = @ \cup {busWrites}]
        /\ t \in open[p] /\ UNCHANGED <<failed, open>>
        /\ (busWrites' = busWrites \/ (U!Now(t).what = "drive" /\ busWrites' = busWrites + 1))
    BY <1>9 DEF U!Transfer, p
  <2>2. BusTypes'
    BY <1>1, <1>2, <2>1 DEF BusTypes
  <2>3. Clients'
    BY <1>1, <1>2, <1>3, <2>1 DEF BusInv, Clients, BusTypes, p
  <2>4. Undisturbed'
    <3> SUFFICES ASSUME NEW u \in U!Threads, U!Now(u)'.what = "read", u \in open'["rtu"]
                 PROVE  seen'[u] \subseteq {busWrites'} /\ (done'[u] = 0 => seen'[u] = {})
      BY DEF Undisturbed
    <3>1. U!Now(u).what = "read" /\ u \in open["rtu"] /\ seen[u] \subseteq {busWrites}
          /\ (done[u] = 0 => seen[u] = {})
      BY <1>3, <2>1 DEF BusInv, Undisturbed
    <3>2. CASE u = t
      BY <1>2, <2>1, <3>1, <3>2 DEF BusTypes
    <3>3. CASE u # t
      <4>1. port["rtu"] = u
        BY <3>1 DEF BusInv, Holders, Clients, Using, U!Ports
      <4>2. busWrites' = busWrites
        BY <1>4, <1>5, <2>1, <3>3, <4>1
      <4> QED
        BY <1>2, <2>1, <3>1, <3>3, <4>2 DEF BusTypes
    <3> QED
      BY <3>2, <3>3
  <2> QED
    BY <1>6, <2>2, <2>3, <2>4 DEF BusInv
<1> QED
  BY <1>7, <1>8, <1>9

\* The end of a use: the client is closed, then the port is given back.
LEMMA CloseKeeps ==
  ASSUME BusInv, NEW t \in U!Threads, U!Close(t)
  PROVE  BusInv'
<1> DEFINE p == U!Now(t).on
<1>1. /\ U!Now(t).what \in Transfers /\ U!GoOn(t, at[t] + 1)
      /\ open' = [open EXCEPT ![p] = @ \ {t}] /\ done' = [done EXCEPT ![t] = 0]
      /\ UNCHANGED <<failed, runtime, port, busWrites, seen>>
  BY DEF U!Close, Transfers
<1>2. BusTypes /\ at[t] + 1 \in Nat \ {0} /\ U!Now(t).what # "rest"
      /\ U!Now(t).what \notin {"lock", "unlock", "acquire", "release"}
  BY <1>1 DEF BusInv, BusTypes, Transfers
<1>3. U!Now(t)'.what = "release" /\ U!Now(t)'.on = p /\ (Inside(t)' <=> Inside(t))
  BY <1>1, <1>2, StepAfter
<1>4. /\ job' \in [U!Threads -> BusJobs \cup {"rest"}] /\ at' \in [U!Threads -> Nat \ {0}]
      /\ \A u \in U!Threads : job'[u] # "rest" => at'[u] <= Len(U!Program(job'[u]))
      /\ \A u \in U!Threads \ {t} : job'[u] = job[u] /\ at'[u] = at[u]
  BY <1>1, <1>2, GoesOn
<1>5. \A u \in U!Threads \ {t} : U!Now(u)' = U!Now(u) /\ (Inside(u)' <=> Inside(u))
  BY <1>4, SameNow
<1>6. p \in U!Ports
  BY <1>1, <1>2, NowInProgram DEF Disciplined, OneUse, Transfers
<1>7. \A q \in U!Ports : t \in open[q] => q = p
  BY DEF BusInv, Clients
<1>8. \A u \in U!Threads, q \in U!Ports : u \in open'[q] <=> (u \in open[q] /\ u # t)
  BY <1>1, <1>2, <1>6, <1>7 DEF BusTypes
<1>9. BusTypes'
  BY <1>1, <1>2, <1>4, <1>6 DEF BusTypes
<1>10. Holders'
  <2>1. \A q \in U!Ports : Using(t, q)' <=> Using(t, q)
    BY <1>1, <1>3 DEF Using
  <2>2. \A u \in U!Threads \ {t}, q \in U!Ports : Using(u, q)' <=> Using(u, q)
    BY <1>5 DEF Using
  <2> QED
    BY <1>1, <1>3, <1>5, <2>1, <2>2 DEF BusInv, Holders
<1>11. Clients'
  <2>1. \A u \in U!Threads, q \in U!Ports :
          u \in open'[q] => U!Now(u)'.on = q /\ U!Now(u)'.what \in Transfers
    BY <1>5, <1>8 DEF BusInv, Clients
  <2>2. \A u \in U!Threads : done'[u] > 0 =>
          u \in open'[U!Now(u)'.on] /\ U!Now(u)'.what \in Transfers
    <3> TAKE u \in U!Threads
    <3> HAVE done'[u] > 0
    <3>1. u # t /\ done[u] > 0
      BY <1>1, <1>2 DEF BusTypes
    <3>2. u \in open[U!Now(u).on] /\ U!Now(u).what \in Transfers
      BY <3>1 DEF BusInv, Clients
    <3>3. U!Now(u).on \in U!Ports
      BY <1>2, <3>2, NowInProgram DEF Disciplined, OneUse, Transfers
    <3> QED
      BY <1>5, <1>8, <3>1, <3>2, <3>3
  <2>3. \A u \in U!Threads : failed'[u] => U!Now(u)'.what \in Transfers \cup {"release"}
    BY <1>1, <1>3, <1>5 DEF BusInv, Clients
  <2> QED
    BY <2>1, <2>2, <2>3 DEF Clients
<1>12. Undisturbed'
  <2>1. \A u \in U!Threads : u \in open'["rtu"] => u # t /\ u \in open["rtu"] /\ done'[u] = done[u]
    BY <1>1, <1>2, <1>8 DEF U!Ports, BusTypes
  <2> QED
    BY <1>1, <1>5, <2>1 DEF BusInv, Undisturbed
<1> QED
  BY <1>9, <1>10, <1>11, <1>12 DEF BusInv

\* Giving a port back keeps it, and lets the next thread in.
LEMMA ReleaseKeeps ==
  ASSUME BusInv, NEW t \in U!Threads, U!Release(t)
  PROVE  BusInv'
<1> DEFINE p == U!Now(t).on
<1>1. /\ U!Now(t).what = "release" /\ port' = [port EXCEPT ![p] = U!Nobody]
      /\ failed' = [failed EXCEPT ![t] = FALSE]
      /\ UNCHANGED <<done, runtime, open, busWrites, seen>>
  BY DEF U!Release
<1>2. BusTypes /\ at[t] + 1 \in U!WayOut(t)
  BY DEF BusInv, U!WayOut
<1>3. PICK n \in U!WayOut(t) : U!GoOn(t, n)
  BY <1>2 DEF U!Release
<1>4. U!Now(t)'.what \in {"acquire", "unlock", "rest"} /\ (Inside(t)' <=> Inside(t))
  BY <1>1, <1>2, <1>3, AfterRelease
<1>5. n \in Nat \ {0}
  <2>1. at[t] \in Nat \ {0}
    BY <1>2 DEF BusTypes
  <2>2. Len(U!Program(job[t])) \in Nat \ {0}
    BY <1>1, <1>2, NowInProgram DEF Disciplined
  <2> QED
    BY <2>1, <2>2, <1>3 DEF U!WayOut
<1>6. /\ job' \in [U!Threads -> BusJobs \cup {"rest"}] /\ at' \in [U!Threads -> Nat \ {0}]
      /\ \A u \in U!Threads : job'[u] # "rest" => at'[u] <= Len(U!Program(job'[u]))
      /\ \A u \in U!Threads \ {t} : job'[u] = job[u] /\ at'[u] = at[u]
  BY <1>1, <1>2, <1>3, <1>5, GoesOn
<1>7. \A u \in U!Threads \ {t} : U!Now(u)' = U!Now(u) /\ (Inside(u)' <=> Inside(u))
  BY <1>6, SameNow
<1>8. p \in U!Ports
  BY <1>1, <1>2, NowInProgram DEF Disciplined, OneUse
<1>9. BusTypes'
  BY <1>1, <1>2, <1>6, <1>8 DEF BusTypes
<1>10. Holders'
  <2>1. \A u \in U!Threads, q \in U!Ports : port'[q] = u <=> Using(u, q)'
    <3> TAKE u \in U!Threads, q \in U!Ports
    <3>1. port[q] = u <=> Using(u, q)
      BY DEF BusInv, Holders
    <3>2. port'[q] = IF q = p THEN U!Nobody ELSE port[q]
      BY <1>1, <1>2 DEF BusTypes
    <3>3. port[p] = t
      BY <1>1, <1>8 DEF BusInv, Holders, Using
    <3>4. U!Nobody # u
      BY DEF U!Nobody, U!Threads
    <3>5. CASE u = t
      BY <1>1, <1>4, <3>1, <3>2, <3>4, <3>5 DEF Using, Transfers
    <3>6. CASE u # t
      BY <1>7, <3>1, <3>2, <3>3, <3>4, <3>6 DEF Using
    <3> QED
      BY <3>5, <3>6
  <2> QED
    BY <1>1, <1>4, <1>7, <2>1 DEF BusInv, Holders
<1>11. Clients'
  <2>1. \A q \in U!Ports : t \notin open[q]
    BY <1>1 DEF BusInv, Clients, Transfers
  <2>2. ~(done[t] > 0)
    BY <1>1 DEF BusInv, Clients, Transfers
  <2>3. failed'[t] = FALSE /\ \A u \in U!Threads \ {t} : failed'[u] = failed[u]
    BY <1>1, <1>2 DEF BusTypes
  <2> QED
    BY <1>1, <1>7, <2>1, <2>2, <2>3 DEF BusInv, Clients
<1>12. Undisturbed'
  BY <1>1, <1>4, <1>7 DEF BusInv, Undisturbed
<1> QED
  BY <1>9, <1>10, <1>11, <1>12 DEF BusInv

\* Every step of the threads keeps the invariant, which holds before the first.
LEMMA BusNextKeeps == BusInv /\ [U!Next]_(U!vars) => BusInv'
<1> SUFFICES ASSUME BusInv, [U!Next]_(U!vars) PROVE BusInv'
  OBVIOUS
<1>1. CASE UNCHANGED U!vars
  <2>1. UNCHANGED <<job, at, done, failed, runtime, port, open, busWrites, seen>>
    BY <1>1 DEF U!vars
  <2>2. \A u \in U!Threads : U!Now(u)' = U!Now(u) /\ (Inside(u)' <=> Inside(u))
    BY <2>1, SameNow
  <2> QED
    BY <2>1, <2>2 DEF BusInv, BusTypes, Holders, Clients, Undisturbed, Using
<1>2. CASE U!Next
  <2>1. PICK t \in U!Threads :
          \/ \E what \in U!Jobs(t) : U!Begin(t, what)
          \/ U!Lock(t) \/ U!Acquire(t) \/ U!Connect(t) \/ U!Fails(t) \/ U!Transfer(t) \/ U!Close(t)
          \/ U!Release(t) \/ U!Unlock(t)
    BY <1>2 DEF U!Next
  <2> QED
    BY <2>1, BeginKeeps, LockKeeps, AcquireKeeps, UseKeeps, CloseKeeps, ReleaseKeeps
<1> QED
  BY <1>1, <1>2

\* All threads rest at first.
LEMMA BusStarts == U!Init => BusInv
<1> SUFFICES ASSUME U!Init PROVE BusInv
  OBVIOUS
<1>1. \A t \in U!Threads : U!Now(t).what = "rest" /\ ~Inside(t)
  BY DEF U!Init, U!Now, U!Op, Inside
<1>2. BusTypes
  BY DEF U!Init, BusTypes
<1>3. U!Nobody \notin U!Threads
  BY DEF U!Nobody, U!Threads
<1>4. Holders
  <2>1. \A t \in U!Threads, p \in U!Ports : ~Using(t, p)
    BY <1>1 DEF Using, Transfers
  <2> QED
    BY <1>1, <1>3, <2>1 DEF U!Init, Holders
<1>5. \A p \in U!Ports : open[p] = {}
  BY DEF U!Init
<1>6. \A t \in U!Threads : done[t] = 0 /\ failed[t] = FALSE
  BY DEF U!Init
<1>7. Clients /\ Undisturbed
  BY <1>1, <1>5, <1>6 DEF Clients, Undisturbed
<1> QED
  BY <1>2, <1>4, <1>7 DEF BusInv

\* The locks say where the threads are, and the clients and readings fit them.
THEOREM BusIsOrderly == ControlSpec => []BusInv
<1>1. U!Spec => []BusInv
  BY BusStarts, BusNextKeeps, PTL DEF U!Spec
<1> QED
  BY <1>1, PartsRun, PTL

\* Who has a port open holds it, so there is one at most.
LEMMA BusOneMoment == BusInv => OneMoment
<1> SUFFICES ASSUME BusInv PROVE OneMoment
  OBVIOUS
<1>1. \A p \in U!Ports : \A t, u \in open[p] : t = u
  <2>1. \A t \in U!Threads, p \in U!Ports : t \in open[p] => port[p] = t
    BY DEF BusInv, Holders, Clients, Using
  <2>2. \A p \in U!Ports : open[p] \subseteq U!Threads
    BY DEF BusInv, BusTypes
  <2> QED
    BY <2>1, <2>2
<1>2. \A t \in U!Threads : U!Now(t) = U!Op("read", "rtu") /\ done[t] > 0 => seen[t] \subseteq {busWrites}
  BY DEF BusInv, Clients, Undisturbed, U!Op
<1> QED
  BY <1>1, <1>2 DEF OneMoment, U!OneMoment

\* A snapshot of telemetry is of one state of the inverter: while a thread reads, no
\* other opens its port or writes registers (modbus_bus_lock.py).
THEOREM SnapshotsOfOneMoment == ControlSpec => []OneMoment
BY BusIsOrderly, BusOneMoment, PTL

\* A chain of waiting threads has at most two links.
LEMMA BusNoCircularWait == BusInv => NoCircularWait
<1> SUFFICES ASSUME BusInv PROVE NoCircularWait
  OBVIOUS
<1>1. U!Nobody \notin U!Threads
  BY DEF U!Nobody, U!Threads
<1>2. \A t \in U!Threads : U!Now(t).what \notin {"lock", "acquire"} => U!WaitsFor(t) = U!Nobody
  BY Zenon DEF U!WaitsFor
<1>3. \A t \in U!Threads : U!Now(t).what = "lock" => U!WaitsFor(t) \in {runtime, U!Nobody} /\ U!WaitsFor(t) # t
  <2> TAKE t \in U!Threads
  <2> HAVE U!Now(t).what = "lock"
  <2>1. CASE runtime # t
    <3>1. U!WaitsFor(t) = runtime
      BY <2>1, Zenon DEF U!WaitsFor
    <3> QED
      BY <2>1, <3>1
  <2>2. CASE runtime = t
    <3>1. U!Now(t).what # "acquire"
      OBVIOUS
    <3>2. U!WaitsFor(t) = U!Nobody
      BY <2>2, <3>1, Zenon DEF U!WaitsFor
    <3> QED
      BY <3>2, <1>1
  <2> QED
    BY <2>1, <2>2
<1>4. \A t \in U!Threads : U!Now(t).what = "acquire" => U!WaitsFor(t) = port[U!Now(t).on]
  <2> TAKE t \in U!Threads
  <2> HAVE U!Now(t).what = "acquire"
  <2>1. U!Now(t).what # "lock"
    OBVIOUS
  <2> QED
    BY <2>1, Zenon DEF U!WaitsFor
\* Who has a port waits for nobody; who waits for a port waits for one who has it; who
\* waits for the runtime waits for one inside it, and that one no longer does.
<1>5. \A t \in U!Threads, p \in U!Ports : port[p] = t => U!WaitsFor(t) = U!Nobody
  BY <1>2 DEF BusInv, Holders, Using, Transfers
<1>6. \A t \in U!Threads : U!Now(t).what = "acquire" /\ U!WaitsFor(t) \in U!Threads =>
        U!WaitsFor(U!WaitsFor(t)) = U!Nobody
  <2> TAKE t \in U!Threads
  <2> HAVE U!Now(t).what = "acquire" /\ U!WaitsFor(t) \in U!Threads
  <2>1. U!Now(t).on \in U!Ports
    BY NowInProgram DEF BusInv, Disciplined, OneUse
  <2> QED
    BY <2>1, <1>4, <1>5
<1>7. \A t \in U!Threads : Inside(t) => U!Now(t).what # "lock"
  <2> SUFFICES ASSUME NEW t \in U!Threads, Inside(t), U!Now(t).what = "lock" PROVE FALSE
    OBVIOUS
  <2>1. at[t] = 1
    BY NowInProgram DEF BusInv, Disciplined, OneUse
  <2> QED
    BY <2>1 DEF Inside
<1>8. \A t \in U!Threads : U!Now(t).what = "lock" /\ U!WaitsFor(t) \in U!Threads =>
        U!Now(U!WaitsFor(t)).what # "lock"
  BY <1>1, <1>3, <1>7 DEF BusInv, Holders
<1>9. ASSUME NEW S \in (SUBSET U!Threads) \ {{}}
      PROVE  \E t \in S : U!WaitsFor(t) \notin S
  <2> SUFFICES ASSUME \A t \in S : U!WaitsFor(t) \in S PROVE FALSE
    OBVIOUS
  <2>1. S \subseteq U!Threads /\ U!Nobody \notin S
    BY <1>1
  <2>2. \A t \in S : U!Now(t).what # "acquire"
    BY <1>6, <2>1
  <2>3. \A t \in S : U!Now(t).what = "lock"
    BY <1>2, <2>1, <2>2
  <2>4. PICK t \in U!Threads : t \in S
    BY <2>1
  <2>5. U!WaitsFor(t) \in U!Threads /\ U!WaitsFor(t) \in S
    BY <2>1, <2>4
  <2> QED
    BY <1>8, <2>3, <2>4, <2>5
<1>10. \A t \in U!Threads : job[t] = "rest" => runtime # t /\ \A p \in U!Ports : port[p] # t
  <2> TAKE t \in U!Threads
  <2> HAVE job[t] = "rest"
  <2>1. U!Now(t).what = "rest" /\ ~Inside(t)
    BY DEF U!Now, U!Op, Inside, OwnedJobs
  <2> QED
    BY <2>1 DEF BusInv, Holders, Using, Transfers
<1> QED
  BY <1>9, <1>10 DEF NoCircularWait, U!NoCircularWait

\* The threads that share the ports and the lock of the runtime never wait in a circle,
\* and keep no lock when they rest.
THEOREM NobodyWaitsInACircle == ControlSpec => []NoCircularWait
BY BusIsOrderly, BusNoCircularWait, PTL
=============================================================================
