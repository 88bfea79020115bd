------------------------------ MODULE MCNetwork ------------------------------
(* The parts that keep an installation on its network, with its devices,    *)
(* and restart it.  They share no state here: in a behaviour the one named  *)
(* by "part" moves, the others stay where they began.                       *)
EXTENDS WifiRegistry

CONSTANTS Attempts, MaxFaults,
          DeviceCount, Workers, Silent, MaxChanges, MaxLate,
          MaxCrashes, MaxUserEntries,
          Runs,
          Zigbee, Foreign, OldDevice, MaxEvents,
          Commands, None, Cooldown, MaxTime,
          MaxVersion

\* Ten minutes are longer than no time, and no command is none.
ASSUME ResetAssumption == Cooldown \in Nat \ {0} /\ MaxTime \in Nat /\ None \notin Commands

\* The device to replace is a Zigbee device, and an outcome is no device.
ASSUME PairingAssumption ==
  OldDevice \in Zigbee /\ {"none", "failed"} \cap (Zigbee \cup Foreign) = {}

VARIABLES
  part,
  sPc, attempt, wlan, origin, marker, asleep, configured, ok, refused, faults,
  tAddress, value, stored, cycle, rotation, queue, asked, known, late, report, there, heard,
  tMoves, changes, lates,
  bPc, form, orphan, entries, ready, begun, wasEmpty, crashes, byUser,
  status, place, saved,
  zha, entities, zPc, mode, zhaBefore, entitiesBefore, detected, result, touched, events,
  clock, expires, rPc, hand, now, file, core, restarts,
  published, cached, event, sync, got, short, beat, told, wanted

S == INSTANCE ShellyOnboarding WITH pc <- sPc
T == INSTANCE WifiTelemetry WITH address <- tAddress, moves <- tMoves
B == INSTANCE ZhaBootstrap WITH pc <- bPc
H == INSTANCE HostOnboarding
Z == INSTANCE ZigbeePairing WITH pc <- zPc, found <- detected, Old <- OldDevice
R == INSTANCE ResetOs WITH pc <- rPc
F == INSTANCE ConfigSync WITH asked <- wanted

shelly == <<sPc, attempt, wlan, origin, marker, asleep, configured, ok, refused, faults>>
telemetry == <<tAddress, value, stored, cycle, rotation, queue, asked, known, late, report, there,
               heard, tMoves, changes, lates>>
bootstrap == <<bPc, form, orphan, entries, ready, begun, wasEmpty, crashes, byUser>>
host == <<status, place, saved>>
pairing == <<zha, entities, zPc, mode, zhaBefore, entitiesBefore, detected, result, touched, events>>
reset == <<clock, expires, rPc, hand, now, file, core, restarts>>
config == <<published, cached, event, sync, got, short, beat, told, wanted>>
all == <<part, vars, shelly, telemetry, bootstrap, host, pairing, reset, config>>

NetworkInit ==
  /\ part \in {"registry", "shelly", "telemetry", "bootstrap", "host", "pairing", "reset", "config"}
  /\ Init /\ S!Init /\ T!Init /\ B!Init /\ H!Init /\ Z!Init /\ R!Init /\ F!Init
  \* Choices of a part that does not move are of no interest.
  /\ part # "registry" => \A d \in Devices : address[d] = (CHOOSE f \in [Devices -> Addresses] : IsInjective(f))[d]
  /\ part # "bootstrap" => entries = 0 /\ ready = 0
  /\ part # "pairing" => zha[OldDevice].available
  /\ part # "reset" => \A c \in Commands : expires[c] = 1

Registry == part = "registry" /\ Next /\ UNCHANGED <<part, shelly, telemetry, bootstrap, host, pairing, reset, config>>
Shelly == part = "shelly" /\ S!Next /\ UNCHANGED <<part, vars, telemetry, bootstrap, host, pairing, reset, config>>
Telemetry == part = "telemetry" /\ T!Next /\ UNCHANGED <<part, vars, shelly, bootstrap, host, pairing, reset, config>>
Bootstrap == part = "bootstrap" /\ B!Next /\ UNCHANGED <<part, vars, shelly, telemetry, host, pairing, reset, config>>
Host == part = "host" /\ H!Next /\ UNCHANGED <<part, vars, shelly, telemetry, bootstrap, pairing, reset, config>>
Pairing == part = "pairing" /\ Z!Next /\ UNCHANGED <<part, vars, shelly, telemetry, bootstrap, host, reset, config>>
Reset == part = "reset" /\ R!Next /\ UNCHANGED <<part, vars, shelly, telemetry, bootstrap, host, pairing, config>>

Config == part = "config" /\ F!Next /\ UNCHANGED <<part, vars, shelly, telemetry, bootstrap, host, pairing, reset>>

\* The fairness of the part that moves.
NetworkFairness ==
  /\ WF_shelly(part = "shelly" /\ S!Work /\ sPc # "idle")
  /\ \A a \in Attempts : WF_shelly(part = "shelly" /\ S!Wake(a))
  /\ WF_telemetry(part = "telemetry" /\ T!Begin) /\ WF_telemetry(part = "telemetry" /\ T!Take)
  /\ WF_telemetry(part = "telemetry" /\ T!Deadline)
  /\ \A d \in 1..DeviceCount : WF_telemetry(part = "telemetry" /\ T!LateEnd(d))
  /\ \A d \in (1..DeviceCount) \ Silent : WF_telemetry(part = "telemetry" /\ T!Poll(d))

NetworkSpec ==
  /\ NetworkInit
  /\ [][Registry \/ Shelly \/ Telemetry \/ Bootstrap \/ Host \/ Pairing \/ Reset \/ Config]_all
  /\ NetworkFairness

\* The agent comes back to the Wi-Fi of the house.
ReturnsHome == S!ReturnsHome

\* Telemetry reports what it has read from the right device, and a status that says an
\* onboarding is under way is true.
TrueReports == T!TrueReport /\ H!UnderWay

\* Telemetry reads every device that stays and answers again and again.
KeepsUp == T!Served

\* One automatic attempt to create the Zigbee network, and the right device paired.
ZigbeeOnce == B!OneAttempt /\ Z!PairedRight

\* What the cloud asks for is done once and without delay: a Reset OS command restarts the
\* system once, and a new configuration the heartbeat has seen does not wait for the
\* regular synchronisation.
CloudHeard == R!OncePerCommand /\ F!Noticed
=============================================================================
