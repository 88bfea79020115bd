--------------------------- MODULE MCBatteryControl ---------------------------
(* What stands between the local battery owner and the inverter: the drivers of *)
(* the three brands, the commissioning test and the release of a remote control *)
(* that nobody owns; the owner itself, from which control must return; and the   *)
(* ports that all of them share with telemetry.                                  *)
(* They share no state here: in a behaviour the one named by "part" moves, the  *)
(* others stay where they began.                                                *)
EXTENDS FoxessDriver

CONSTANTS WorkModes, MaxPower, CanarySettings,
          Sigs, ManualSigs, CanarySig, NoSig, AUTO, Routes, NoRoute, MaxTime, SessionCap,
          BackoffOf, LatchCap, Faults,
          Blocks, MaxWrites

VARIABLES
  part,
  xRemote, xWork, xLock, xMarker, xPc, xWant, xHeld, xLate, xOutcome, xDue, xTheirs, xLocked,
  gMode, gPower, gMeant, gPc, gWant, gWatts, gOutcome, gDue,
  audit, zEnable, fixed, zMarker, rt, zPc, previous, enabled, zResult, writes,
  cPc, cInv, cMarker, settings, original, samples, passed, error, cResult,
  disk, mem, recovered, inv, now, cfg, bPc, req, cur, after, clear,
  job, at, done, failed, runtime, port, open, busWrites, seen

X == INSTANCE SolaxDriver WITH
       remote <- xRemote, work <- xWork, lock <- xLock, marker <- xMarker, pc <- xPc,
       want <- xWant, held <- xHeld, late <- xLate, outcome <- xOutcome, due <- xDue,
       theirs <- xTheirs, locked <- xLocked
G == INSTANCE GoodweDriver WITH
       mode <- gMode, power <- gPower, meant <- gMeant, pc <- gPc, want <- gWant,
       watts <- gWatts, outcome <- gOutcome, due <- gDue
Z == INSTANCE ZeroRemoteRelease WITH
       pc <- zPc, enable <- zEnable, marker <- zMarker, result <- zResult
C == INSTANCE BatteryCanary WITH
       Settings <- CanarySettings, pc <- cPc, inv <- cInv, marker <- cMarker, result <- cResult
\* a failed STOP is retried after one time unit
OneStep == <<1>>
B == INSTANCE BatteryRuntime WITH pc <- bPc
U == INSTANCE ModbusBus WITH writes <- busWrites

\* The marker file of SolaX, too, never looks like its absence.
ASSUME NoSolaxMarker == NoMarker \notin X!Marker

foxess == vars
solax == <<xRemote, xWork, xLock, xMarker, xPc, xWant, xHeld, xLate, xOutcome, xDue, xTheirs, xLocked>>
goodwe == <<gMode, gPower, gMeant, gPc, gWant, gWatts, gOutcome, gDue>>
release == <<audit, zEnable, fixed, zMarker, rt, zPc, previous, enabled, zResult, writes>>
canary == <<cPc, cInv, cMarker, settings, original, samples, passed, error, cResult>>
owner == <<disk, mem, recovered, inv, now, cfg, bPc, req, cur, after, clear>>
bus == <<job, at, done, failed, runtime, port, open, busWrites, seen>>
all == <<part, foxess, solax, goodwe, release, canary, owner, bus>>

ControlInit ==
  /\ part \in {"foxess", "solax", "goodwe", "release", "canary", "owner", "bus"}
  /\ Init /\ X!Init /\ G!Init /\ Z!Init /\ C!Init /\ B!Init /\ U!Init
  \* Choices of a part that does not move are of no interest.
  /\ part # "foxess" => mode = BackUp /\ timeout = Remote
  /\ part # "solax" => xWork = 0 /\ xLock = 0
  /\ part # "release" => ~zEnable
  /\ part # "canary" => settings = (CHOOSE s \in CanarySettings : TRUE) /\ original = settings

Foxess == part = "foxess" /\ Next /\ UNCHANGED <<part, solax, goodwe, release, canary, owner, bus>>
Solax == part = "solax" /\ X!Next /\ UNCHANGED <<part, foxess, goodwe, release, canary, owner, bus>>
Goodwe == part = "goodwe" /\ G!Next /\ UNCHANGED <<part, foxess, solax, release, canary, owner, bus>>
Release == part = "release" /\ Z!Next /\ UNCHANGED <<part, foxess, solax, goodwe, canary, owner, bus>>
Canary == part = "canary" /\ C!Next /\ UNCHANGED <<part, foxess, solax, goodwe, release, owner, bus>>
Owner == part = "owner" /\ B!Next /\ UNCHANGED <<part, foxess, solax, goodwe, release, canary, bus>>

Bus == part = "bus" /\ U!Next /\ UNCHANGED <<part, foxess, solax, goodwe, release, canary, owner>>

\* The fairness of the battery runtime where it moves (see BatteryRuntime!Fairness).
ControlFairness ==
  /\ WF_owner(part = "owner" /\ B!Running)
  /\ WF_owner(part = "owner" /\ B!Begin(B!Tick))
  /\ WF_owner(part = "owner" /\ B!ClockAdvances)
  /\ SF_owner(part = "owner" /\ B!Recover)
  /\ SF_owner(part = "owner" /\ B!StopSave)
  /\ SF_owner(part = "owner" /\ B!StopAutoOk)

ControlSpec ==
  /\ ControlInit
  /\ [][Foxess \/ Solax \/ Goodwe \/ Release \/ Canary \/ Owner \/ Bus]_all
  /\ ControlFairness

\* The SolaX marker authorizes the end of what the driver may have begun, its lock is
\* given back; and GoodWe never follows a power of the other direction.
OthersKept == X!AttemptRecorded /\ X!LockReturned /\ G!PowerOfItsDirection

\* The drivers of SolaX and GoodWe implement the abstract one as well.
OthersPromise == X!DriverPromise /\ G!DriverPromise

\* A step of the commissioning services: a command never releases the remote control
\* twice; the canary drives the inverter from one direction to the other only through AUTO.
ServicePromise == [][Z!OneWrite' /\ {cInv, cInv'} # C!Actions]_<<release, canary>>

\* A snapshot is of one moment, and the threads that share a port never wait in a circle.
OneMoment == U!OneMoment
NoCircularWait == U!NoCircularWait

\* Remote control ends without the cloud.
ControlEnds == B!ControlEnds
=============================================================================
