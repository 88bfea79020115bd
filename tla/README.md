# TLA+ models and proofs of the iQFanda agent

This directory holds the formal models of the iQFanda energy agent, the Home
Assistant add-on under `src/iqfanda-agent` and its host companion under
`src/iqfanda-host-agent`. Paths below are relative to
`src/iqfanda-agent/rootfs/app/` unless they begin with `src/` or `host:` (the host
agent's `rootfs/usr/local/bin/`).

- [The system](#the-system): components, their state, what is hard about them
- [The modules](#the-modules): which module models which part, and how
- [The runs](#the-runs): what TLC checks, on which bounds, under which fairness
- [The proofs](#the-proofs): what TLAPS proves, from what, and along which argument
- [Findings](#findings)
- [Not modelled](#not-modelled), and the [plan](#plan)

`PROJECT.json` is the machine-readable index: every run with its properties, every
definition with the source lines it models, the hazards with the properties that
cover them, and for each property of a passing run a plausible bug (`..._<Mutant>`
operators in the modules) that the property catches.

## The system

`startup.py` starts one thread per service in one process and ends the process when
a thread dies; s6 restarts it. What survives is JSON files under the data directory
and what was written to devices. The cloud is polled: commands are claimed one at a
time, executed, and reported.

| component | state it keeps | operations | interacts with |
|---|---|---|---|
| local battery owner (`manual_battery_runtime.py`) | `manual_battery_runtime.json`: state, signature, route, deadlines, retry, ended signatures, STOP barrier; an in-memory copy after a failed save | `submit`, `tick`, `canary`, recovery, `_stop` with backoff | command worker and supervisor thread call it; calls an inverter driver; reads the cached configuration |
| FoxESS H3 driver (`communication/foxess_ems_controller.py`) | owner marker file; registers of the inverter | one call: preflight, arming or restore to AUTO, readbacks | battery owner; inverter over Modbus; other controllers of the same inverter; the user |
| other drivers (`goodwe_ems_controller.py`, `solax_ems_controller.py`, `deye_50_hybrid_hv.py`) | registers, owner markers | the same contract | battery owner |
| local mixing (`f47_local_mixer_00013.py`) | configuration, status file, last-pulse ledger, two relays | supervisor loop, pulse with guard thread, `enable`, `set_local_target` | command worker, Home Assistant switches and sensors |
| command worker (`command_worker.py`) | markers of pending update and pending Zigbee reconfiguration | `process_once`: expired PV intents, pending update, pending reconfiguration, claim, execute, report | everything below |
| agent update (`agent_updater.py`) | update marker: target and stage | trigger, staged versions, reconciliation after the restart | Supervisor API, worker |
| PV surplus targets (`pv_surplus_target_control.py`, `pv_surplus_target_intent.py`) | intent store, relays | apply, expiry with fail-safe OFF | worker, Home Assistant switches |
| Reset OS (`reset_os.py`) | cooldown file under a lock file | one restart per ten minutes | worker, Home Assistant |
| first installation (`installer/setup_manager.py`, `host:setup_manager.py`) | setup state, Wi-Fi request | start, status, reset, setup thread | access point, network, cloud |
| access point (`src/iqfanda-agent/rootfs/app/host/access_point_manager.py`, `installer/access_point_service.py`) | request file, running hostapd | start, stop, release and wait | setup |
| Installer V2 (`installer_v2/`) | write-once identity files, state file | factory identity, bootstrap, cloud registration | cloud |
| identity and provisioning (`provisioning.py`, `factory/`, `manufacturing.py`) | serial number, device identity | serial assignment, registration, factory reset | cloud |
| configuration sync and heartbeat (`device_config.py`, `heartbeat.py`) | cached configuration and its version | sync, heartbeat | cloud; every reader of the cache |
| Zigbee (`zigbee_manager.py`, `zha_bootstrap.py`, parts of `command_worker.py`) | reconfiguration marker, bootstrap flow | switching with readback, reconfiguration, ZHA bootstrap | Home Assistant |
| servo commissioning of model 00013 (`servo_*.py`) | one-time gates | supervised pulses with an off-watchdog | worker |
| RS485 and telemetry (`communication/`, `telemetrie_modulu.py`) | bus locks, state of the PV surplus decision | polling, decoding, switching surplus loads | inverters, batteries, meters, relays |
| Wi-Fi devices (`wifi_manager.py`, `wifi_native_onboarding.py`, `wifi_runtime_telemetry.py`) | registry of devices, rollback marker, rotation of polls | discovery, onboarding, switching, polling | network, Shelly devices, worker and heartbeat threads |
| commissioning of battery control (`battery_control_canary.py`, `foxess_zero_remote_release.py`) | audit file of one write | the canary in both directions, one release of an unowned remote control | battery owner, FoxESS driver |

What makes this code hard to get right, and what the properties are about:

- **Crashes between two effects.** A device write and a file write are never atomic.
  The battery owner and the mixer write ahead; the driver has an owner marker; the
  worker has markers for restarts it causes itself.
- **Failed steps in the middle.** A save that raises may have replaced the file; a
  verified Modbus write that raises may have changed the register; the cleanup may
  fail too.
- **Late, repeated and reordered commands.** The cloud repeats what it does not know
  to be done, so an ended session may be asked for again.
- **Time.** Authorizations run out, retries back off, watchdogs fire, the wall clock is
  corrected.
- **Interleavings.** The supervisor threads and the worker share files and devices; some
  accesses are outside the lock that protects the others. Telemetry and the worker
  switch the same relays and share no lock at all.
- **Stale knowledge.** A cycle acts on a configuration, outputs, addresses or an
  inventory that it has read some steps before.

A correct battery owner leaves no remote control without a durable owner, never lets
one session take over from another without AUTO, does not bring back a session that
ended, respects its time cap and ends by itself. A correct driver never loses the
user's settings or somebody else's control. A correct mixer never drives the valve
both ways, bounds the travel on one reading, and does not move after a failure. Surplus
starts a load only when it is confirmed, no fail-safe OFF hits an output that
somebody holds on, and the outputs settle. A correct installation claims one serial number
and stays reachable; the network part comes back to the Wi-Fi of the house, forgets no
name, reports no value of another device and does nothing twice that must be done
once.

## The modules

```
BatteryOwner  <--implements--  BatteryHistory --extends--> BatteryRuntime
                                 ^
                                 +-- MCBattery, MCBatteryHistory, BatteryRuntimeProofs

BatteryDriver <--implements--  FoxessDriver <-- FoxessDriverProofs
              <--implements--  SolaxDriver
              <--implements--  GoodweDriver

MCBatteryControl <-- BatteryControlProofs          the three drivers, BatteryCanary,
                                                   ZeroRemoteRelease, BatteryRuntime, ModbusBus
CommandWorker   <-- CommandWorkerProofs, MCCommandWorker
MCMixingValve   <-- MixingValveProofs              LocalMixer, ServoPulse
SurplusControl  <-- SurplusControlProofs, MCSurplusControl
Installation    <-- InstallationProofs
MCNetwork       <-- NetworkProofs                  WifiRegistry, ShellyOnboarding, WifiTelemetry,
                                                   ZhaBootstrap, ZigbeePairing, HostOnboarding,
                                                   ResetOs, ConfigSync
```

An arrow without a word is `EXTENDS`; right of a composite stand its `INSTANCE`s. What interacts in the code
is one module: the two threads that drive surplus loads with their store and their
relays; portal, access point manager, `main` and cloud of an installation; the worker
with the update machinery; all threads that share a port. The battery stack is layered
instead: each driver is shown to implement BatteryDriver, and BatteryRuntime and
BatteryCanary take of a driver only the freedom that BatteryDriver allows.

The composites MCBattery, MCBatteryControl, MCMixingValve and MCNetwork check several
modules, or one at several bounds, in one run. `part` says which of them moves in
a behaviour; the others stay in one fixed initial state, so that the state spaces add up
and do not multiply. They say nothing of interactions between the parts, which share
no state in the code either, except where the modules above say so.

### Battery

**BatteryRuntime** is `LocalBatteryRuntime`. `submit`, `tick` and `canary` hold one
lock, so one operation runs at a time: `pc` is the place it has reached, `req` its
arguments, `cur` its local state dict, `after`/`clear` the return place and argument of
`_stop`. `disk` is the state file, `mem` the emergency copy, `recovered` the flag of
the process. Each read, save and driver call is a step of its own, so a crash or the
clock may come between any two. `Load` prefers the emergency copy as `_load` does.
`SaveFails` leaves the file old or new: `_save` may raise after `os.replace`, when it
syncs the directory. A signature is a model value that fixes action, power and
session; requests differ in signature, validity, session end and route. `cfg` is the
route in the cached configuration; a command may have been read under an older one.
The inverter is `inv`: whose setpoint it may be following. A driver call either ends in
its promised state or raises with any part of its writes done. `Faults` selects what
the environment may do, so that each question is asked with the faults it concerns.

**BatteryHistory** adds what a user can observe (the session commanded, the manual
sessions ended, the latest reported STOP) without restricting any step, and states
`OwnerPromise` as a refinement of **BatteryOwner**: one session at a time, AUTO in
between, and an ended manual session begins again only after an explicit STOP. `live`
and `ended` follow verified STOPs; the refinement maps `owner` to `inv`. A session
that its own request moves to another route is not counted as ended; background AUTO
and the inverter's watchdog are `Drop`.

**FoxessDriver** is one call of `apply_foxess_h3_action`, step by step: preflight reads,
the marker, the four registers (each read, compared, written, verified), the final
readback, `_restore_auto`, and every failure of each of them. Each write has three
outcomes: verified; raised with the register changed; raised without. Power is
abstracted to its direction, the 60 s refresh to a flag in the marker that ages. The
caller is modelled by what `BatteryRuntime` guarantees: a session keeps its direction,
and after anything but a verified renewal it asks for AUTO until AUTO is verified. The
user changes settings while the driver holds no marker, another controller takes and
releases an idle inverter, the inverter's watchdog ends remote control at any time.
It implements **BatteryDriver**, the contract the battery owner relies on, in which
`Return` and `LetGo` are the freedom that `DriveFails`, `StopAutoFails` and
`InverterTimeout` of BatteryRuntime take.

**SolaxDriver** (`solax_ems_controller.py`) has no watchdog to rely on, a parameter lock
that must be given back, and commands that take effect after the call that sent them has
given up (`late`). `held` is the call's copy of the marker; `attempted` in it is what
`_save_marker` records before the first command. A command is carried out, is on its
way, or is lost, each with or without an acknowledgement. **GoodweDriver** has no marker
either: mode and power are two registers written and undone one by one, and `meant` is
history, the direction the power was written for. A power is a small number, so that a
renewal with another power writes the power register alone.

**BatteryCanary** is the commissioning test, `run_foxess_battery_canary`: AUTO, one
direction until three samples in a row fit, AUTO, the other direction, AUTO, over driver
calls that may raise half-way. **ZeroRemoteRelease** is the one permitted write to
a remote control that is enabled and belongs to nobody: two equal looks, the
audit file before the write and after each stage, AUTO by the runtime, the final probe.

**ModbusBus** is about locks only: what each thread (telemetry, worker, supervisor) does
is a program of `lock`, `acquire`, `read`, `drive`, `release` and `unlock`, taken from the
callers of `modbus_bus_lock`; a use of a port may fail before any transfer, and then the
operation goes on where its `except` or `finally` does (`WayOut`).

### Valve of model 00013

**LocalMixer** is the supervisor thread, the pulse with its guard thread, `enable` and
`set_local_target`. `cycle` and `set_local_target` exclude each other by `MODEL_LOCK`;
`run_forever` looks at the status before and saves the outcome after a cycle without
it. `relays` are the relays that are on, `pending` a switch-on the radio still
delivers, `sample` the last temperature report with its age class. `moved` and
`broken` are history. Its dead band is equality, and MAX_PULSES_PER_READING is
a constant. The overlap of a setpoint command with an unfinished cycle is the fault
`"overlap"`; with it the code does not keep its promises (see Findings), so the
passing run has every fault but that.

**ServoPulse** is the other way of moving the valve: the supervised commands of the cloud
(`servo_*.py`). Their executors share one course (check, arm a watchdog thread, one ON,
wait, OFF of both outputs, readback, join) and differ by `kind` in what they require
before (`MayDrive`), what they watch meanwhile (`Unsafe`, `Look`) and how they report.
`dog` is the watchdog thread, `old` the one of an earlier command whose OFF was not
proven; it outlives the report. A switch may be lost, raise although it was done, or
arrive late. `timed` pulses end by themselves where the device's `firmware` does that,
which a commissioning pulse has to witness. The loop and these commands exclude each
other in the dispatcher, hence two modules.

### Surplus loads

**SurplusControl** is telemetry's surplus cycle and the worker's intents on the same
relays. `Evaluate` is the part of `odeslat_telemetrie_jednou` that reads configuration,
inverter, outputs and temperatures and decides, once for all targets; `Drive` switches
one output after another from this `plan`, where only a valid intent of that moment
takes the place of the decision. The decision itself (`nacti_pv_vykon_w`,
`nacti_sitovy_vykon_w`, hysteresis, confirmation, grace over missing data, heat demand)
is given as operators and `energy` is its state. The worker switches off the outputs of
expired intents from one reading of store and configuration (`Reconcile`, `Expire`,
`Reconciled`), accepts an intent (`AcceptIntent`, `SwitchIntent`, `RemoveIntent`),
stores a boiler intent, or executes a plain switch command. Configurations change
between any two steps.

### Worker

**CommandWorker** is the thread that runs `process_once` round after round, together with
`agent_updater.py` and the Zigbee reconfiguration. `pc` is the place in a round, `hand`
the command. `marker` and `zmarker` are the two marker files, a command with an age in
place of its time stamps: an age at its bound is a marker whose deadline has passed.
`told` is what the cloud has recorded of updates and reconfigurations; a report may
raise whether or not it was recorded. Home Assistant is `version`, `latest` and
`installing`; an installation ends the process wherever it is, one that the user
started as well. `by` is history: the command that asked for the installation. The
store publishes one version after another, so a target may be reached over a stage:
the code then installs the stage and its marker still waits for the target, which is
reached only when somebody installs the rest, and times out otherwise. A command of
another kind is one step, `ExecutePlain`; what it does is in the module of its
component. The reports after `update.install` change nothing that is kept and are
part of `TriggerUpdate`. The first call of a round, to the PV surplus targets, shares
no state with the rest and is in SurplusControl. The wall clock never goes back.

### Installation and network

**Installation** is a first installation: requests of the portal, each on its own thread
(`at`: its place, provisioning id and credential), the manager that gives `wlan0` an
access point when the request file asks for it, and `main` with its wait for a
registration and its fallback. The four identity files are created by a hard link, so the
first one stays (`Once`); a drawn id is named after the handler that drew it. A call to the
cloud fails before the cloud acts, after it acted, or not. `WaitStopped` does not see an
access point that is only being brought up; `Carry` carries out the request the manager
read, whatever the file says by then. One `Handling` record stands for the locals of
a thread.

**HostOnboarding** is the host's `SetupManager`: `start` checks the state under the lock
and sets it later, and `reset` does not stop the thread. **ShellyOnboarding** leaves the
Wi-Fi of the house for the access point of a new device; `asleep` are the detached
shells of the rollback watchdog, which act if the `marker` of their attempt is still
there. **WifiRegistry** is the file of known devices with the layers of a discovery
(`Base`, `Entities`, `Merge`, `EnrichMeters`), registration, and a switch command that
saves the copy it has loaded. **WifiTelemetry** is one cycle of polls after another: few
workers, a deadline, a rotation, polls that outlive their cycle, and devices that
change address meanwhile. **ZhaBootstrap** walks through a config flow of Home Assistant,
where each answer may be lost after it has taken effect. **ZigbeePairing** takes a
picture of the house and then looks for what is new, by two ways in turns, while devices
join, fall silent and come back. **ResetOs** is the cooldown over the one attempt the file
remembers, with a clock that is set to any value at any time. **ConfigSync** is the event
and the cached file between the heartbeat and the synchronisation.

## The runs

Seven runs must pass; together they fire every action of every module. Five show a
finding and must be violated.

| run | asks | bounds |
|---|---|---|
| Battery, part "faults" | does the file always name the session the inverter may follow (`DurableOwner`), is the runtime's own view never too optimistic (`HonestStatus`), does every takeover pass through AUTO (`NoTakeover`): over crashes, failed saves and drivers, the inverter's watchdog and a clock set back | one manual, one automatic request, the canary; 2 moments |
| Battery, part "ownership" | is an ended manual session never driven again (`OwnerPromise`, the refinement), and no start older than a reported STOP (`StaleStartRefused`) | two manual requests, the canary; 2 moments; crashes, failed saves, failed drivers |
| Battery, part "sessions" | do renewals and retries never exceed the session cap (`SessionCapped`) | one manual request, the canary; 4 moments, cap 2; crashes, changes of the configuration |
| BatteryControl | are control, settings, watchdog, setpoints and other controllers respected by the FoxESS driver (`OwnedControl`, `SettingsReturned`, `DeadMan`, `NoStaleSetpoint`, `ForeignUntouched`), does each driver keep the contract (`DriverPromise`, `OthersPromise`), are lock, marker and power of the others kept (`OthersKept`), one write of the release and no reversal in the canary (`ServicePromise`), no mixed snapshot and no circular wait on the ports, and does control end without the cloud (`ControlEnds`) | 3 work modes and 3 watchdog settings (FoxESS), 2 work modes (SolaX), 2 powers (GoodWe); one write and one transfer per use of a port; owner: one manual request, the canary, 3 moments, cap 1 |
| CommandWorker | are updates answered honestly, never orphaned, and does the worker get back to claiming commands | two updates (a staged one and a direct one), one reconfiguration, one other command; 3 versions; every fault |
| MixingValve | interlock, write-ahead status, bounded travel, no resumption and lasting lock of the loop; both relays off and a native witness for the supervised pulses | loop: 2 setpoints, 4 temperatures, 2 reports, 2 pulses per report; pulses: 3 faults of switching since the outputs were last idle |
| SurplusControl | is surplus confirmed before it starts a load, does a fail-safe OFF never hit an output held on, do all outputs settle | 2 targets, 2 outputs, 3 configurations (each output with each target, one shared, one owned by the thermostat), 3 snapshots; 3 moments; 2 events from outside |
| Installation | one serial number, identities backed by the cloud, and a device that stays reachable | two requests at once; one fault |
| Network | is no name lost, is every report true, is nothing done twice, is there always a way home, is every device and every new version served | see below |
| BatteryRearm, BatteryReorder, WorkerForgets, MixerResume, SurplusWeekly | findings | the smallest instance that shows each |

**Bounds of the battery runs.** Deadlines later than `MaxTime` are cut to it, so that every
session ends within the model; one that outlives the model would be of no interest to
the invariants, which speak of every single state. What an operation reads from the
file are the state, the signature and comparisons of times, so two or three moments
give every outcome of these comparisons, in every order with the other steps. The part
"sessions" needs more: a cap, a renewal after it began, and a moment beyond the cap. One
route suffices where routes only matter by being equal; a route change appears as
a configuration without a route. `LatchCap` covers the manual signatures of each part,
so the latch never forgets here, as it does after 64 sessions in the code. Reordered
commands are not in this run: with them the property is false (BatteryReorder).
The owner part of BatteryControl ends each session at moment 2 of 3, so that time is left
for a failed STOP to be retried after its backoff.

**FoxESS and others.** The three by three settings of FoxessDriver are the one remote
control needs and two others, so that the user's change during a captured session is
visible; the run covers all sequences of calls, since the state space is finite without
any counter, and so are those of SolaxDriver, GoodweDriver, BatteryCanary and
ZeroRemoteRelease. In ModbusBus one write already separates the states of the registers
before and after; a use of a port with one transfer fails before it or not.

**Valve, worker, surplus.** In LocalMixer two reports and two pulses suffice to spend
a budget, to use a report in both directions and to meet an older report; the setpoints
lie between temperatures. In CommandWorker a wait is one step of ageing long: within its
time and at its end are all that the code tells apart; three versions are the fewest
with a stage between the first and a target. In SurplusControl a confirmation and
a grace period take one moment, an intent two, so that each can be running, just over
and long over within three moments; two events are two commands, or a command and
a change of the configuration or a fault. Snapshots are a full battery, an empty one, and
one without a meter.

**Network.** Registry: one meter, one switch, two addresses given anew twice. Shelly: two
attempts, one fault (a crash, a way back out of time, a shell that wakes too early).
Telemetry: three devices of which two may be silent, two workers, so that the silent ones
can occupy every worker. Bootstrap: one crash and one entry added by the user. Host: two
runs. Pairing: two Zigbee devices, one of another integration, three events of the house.
Reset: two commands, a cooldown of three validities, eight readings of the clock.
Configuration: three versions.

Deadlock checking is off in Installation and Network only: an installation that is done, and
parts whose bounded events are used up and whose one-time thread is parked, have nothing
left to do.

**Fairness.** In every case it is that of a thread that is started once, loops, and has time-outs
on everything it calls; `startup.py` ends the process when such a thread dies and s6
restarts it. Nothing is assumed of the environment unless named.
- BatteryControl, owner part: `WF(Running)`: an operation that holds the lock goes on.
  `WF(Begin(Tick))`: `main` runs `tick` every second. `WF(ClockAdvances)`. Strong fairness
  of `Recover`, `StopSave` and `StopAutoOk`: the process is not always killed before it
  gets to the driver, and the driver does not fail on every attempt. `StopSave` has
  a failing twin: saves may fail every time, and then the emergency copy carries the
  STOP. Under a driver that fails forever no program could end remote control but for
  the inverter's own watchdog.
- CommandWorker: `WF(Worker)`: `main` starts a round every few seconds and catches what it
  raises; weak fairness of ageing and of the polling interval; strong fairness of
  `Answered` and `Cleared`: a wait that has come to its end is, sometime, answered to
  a cloud that takes the answer, by a process that is not killed before it removes the
  marker. The code needs exactly that: with a cloud that never takes the result of an
  update, the worker claims no command again.
- SurplusControl: both threads go on, and time does up to its bound, after which the battery
  is at rest. Events are bounded, so commands and failures come to an end; that is
  where outputs have to settle.
- Installation: threads of requests, the manager, `main` and NetworkManager's own
  reconnection go on. No request has to come.
- Network: the worker and the sleeping shells of ShellyOnboarding; the polling loop, its
  deadline, and the answers of devices that are not silent in WifiTelemetry.
`Reachable`, `ReturnsHome` and `Served` name their exceptions: a request for the access
point that could not be written, a recorded connection that NetworkManager refuses, and
a device that moved away from its stored address.

A constant definition such as `Time` is evaluated by TLC once, also where instances give its
constants other values. MCBattery has instances with two different `MaxTime`, so
`BeginSome` writes the range `1..MaxTime` out. The constants of MCBattery itself are the
union of its parts, over which the properties are stated. In the part "faults" the clock
may be set back, so no history is kept there: how long a session lasts is not defined by
such a clock.

## The proofs

Every invariant and every action property of the passing runs is also a theorem; so are the
refinements. The proof modules are for every value of the constants that satisfies the
named assumptions: `ConstantsAssumption`, `InstallationAssumption`, `RegistryAssumption`,
and three in the composites, `NoSolaxMarker` (no marker is none of the markers),
`ResetAssumption` (the cooldown and the time bound are numbers) and `PairingAssumption`
(the device to be replaced is a Zigbee device). TLC evaluates them on the runs. Within them: a clock with
any bound, any requests, backoff and faults; any work modes, powers and timeouts; any
temperatures, setpoints and pulse budget; any commands, targets and timeouts of the worker;
any targets, outputs and configurations of surplus; any number of requests of the portal;
any devices, addresses and versions. TLC checked the inductive invariants on small
instances before they were proved.

| module | theorems |
|---|---|
| BatteryRuntimeProofs | `TypeCorrect`, `OwnerIsDurable`, `StatusIsHonest`, `NoDirectTakeover`; with the history `SessionsAreCapped`, `StaleStartsRefused`, `KeepsOwnerPromise` |
| FoxessDriverProofs | `TypeCorrect`, `ControlIsOwned`, `SettingsAreKept`, `DeadManHolds`, `SetpointIsDue`, `ForeignIsUntouched`, `KeepsDriverPromise` |
| BatteryControlProofs | `TracesAreKept`, `DriversPromise`, `ServicesKeepPromise`, `BusIsOrderly`, `SnapshotsOfOneMoment`, `NobodyWaitsInACircle` |
| CommandWorkerProofs | `TypeCorrect`, `UpdateIsHonest`, `InstallIsAccounted`, `UpdateIsAlone` |
| MixingValveProofs | `TypeCorrect`, `MotorInterlock`, `OnIsAlwaysMarked`, `TravelIsBounded`, `InterruptedNeverResumes`, `LockLasts`, `ReportedIsOff`, `WitnessIsNative` |
| SurplusControlProofs | `TypeCorrect`, `StartsAreConfirmed`, `HeldOutputsStay` |
| InstallationProofs | `TypeCorrect`, `ClaimIsOne`, `IdentityIsBacked` |
| NetworkProofs | `EntriesAreWhole`, `NamesAreKept`, `ReportsAreTrue`, `ZigbeeIsRight`, `CloudIsHeard`, `FileNeverGoesBack` |

The theorems about BatteryRuntime, FoxessDriver, CommandWorker, SurplusControl and
Installation are about the module's own specification, whatever constants a composite gives
it. Those of the other three are about the composites (`ControlSpec`, `ValveSpec`,
`NetworkSpec`): the lemma `PartsRun` of each says that a behaviour of the composite is one
of each part, and the rest is proved part by part.

**BatteryRuntimeProofs.** `IInv == TypeOK /\ Consistent`. The safety invariants are not
inductive: whether a step keeps `DurableOwner` depends on the local copy an operation
is about to save and on the emergency copy. `Consistent` adds
- `EmergencyIsStop`: an emergency copy is only ever a stopping or stopped record;
- `LoadsOwner`: what `_load` returns names the followed session as an active one;
- `DrivingHasSession`: a record that is renewed has a signature;
- `StopInHand`, `StartInHand`, `DriveInHand`, `CanaryInHand`: at each place of an
  operation, what its local copy says about the inverter and the file: in `_stop` the
  copy names the session that is followed; between verifying AUTO and saving it,
  nothing is followed; a start is saved before it is driven.

`NextKeeps` has one lemma per group of actions, and under it one step per action and
conjunct. From it: `TypeCorrect`, `OwnerIsDurable`, `StatusIsHonest`, and
`NoDirectTakeover` (an action property, from the invariant and each step that changes
`inv`).

What BatteryHistory promises needs more, because a session is named by its record while
the record travels between file, emergency copy and the hand of an operation.
`HistoryIsNamed` is the common part: `LiveIsNamed` (the session last commanded is the one
in the file, in what is loaded and in the hand of an operation), `ClearedByUser` (only the
user's STOP clears the latch), `HasRecovered`, and the kind of a request. On it stand
- `SessionsAreCapped` with `CapKept`: every record of a running session began no later
  than its first command and is authorized for no longer than the cap from then on
  (`InTime`, `BeforeCommand`). It supposes that the clock is not set back, without which
  the length of a session has no meaning;
- `StaleStartsRefused` with `BarrierKept`: every copy of the record that may still be loaded
  or saved has a barrier as new as the last reported STOP, also between a failed save and
  the next good one. It supposes that explicit STOPs arrive in the order they were issued;
  BatteryReorder shows the code's behaviour without that;
- `KeepsOwnerPromise`, the refinement of BatteryOwner, with `EndedKept` (wherever the
  record is, it carries every ended session: in its latch, or as the session that its
  own STOP will latch) and `NotRevived` (a file that still names an ended session as
  running is not acted upon before that session is stopped again). It supposes `Roomy`,
  that the latch has room for every manual session: `LatchAdds` shows that then nothing
  is forgotten. The code remembers 64; beyond that the oldest would be.

Each step is put in one of seven kinds (`StepCases`), and each kind has one lemma on what
it does to the record (`HaltingEffect`, `PrepareEffect`, `CanaryEffect`) and one per
invariant.

**FoxessDriverProofs.** `IInv == TypeOK /\ Consistent`, where `Consistent` is
`OwnedControl`, `SettingsReturned` and `DeadMan` together with `MarkerInHand` (from
the first write to the last the marker is there, and the call's copy has the user's
settings), `Ordered` (work mode and watchdog before switching on, switching off before
either), `Owed` (what is wanted is due) and `ForeignAlone`. From it `TypeCorrect`,
`ControlIsOwned`, `SettingsAreKept`, `DeadManHolds`, `ForeignIsUntouched`; `SetpointIsDue`
with one more conjunct on the setpoint; and `KeepsDriverPromise`, the refinement of
BatteryDriver: initial states map to initial states, every step to a step or a stutter.

**CommandWorkerProofs.** `IInv` is `TypeOK`, `UpdateHonest` and `InstallAccounted` with
- `OnePending`: beyond the first step of a round no update is pending, except the one that
  is just being triggered; one that is about to be cleared has its result;
- `InHand`: the command in hand is of the kind of its place;
- `ZPending`: a marker without a command has no age.

`OnePending` is what the order of `process_once` achieves (markers first, then the
claim), and what the mutant that lets a round pass a pending update breaks. From `IInv`:
`TypeCorrect`, `UpdateIsHonest`, `InstallIsAccounted` and `UpdateIsAlone`.

**MixingValveProofs.** The local loop: all its properties in the run, under the further assumption
`NoOverlap` that a setpoint command does not overlap an unsaved cycle (`"overlap"` is not
among the faults); with the overlap two of them are false, as the findings show. `IInv`
is `TypeOK`, the type of the history, and
- `OneWay` (what is on, or may still come on, is one relay), `Warned` (then the status is
  `pulse_active` or `locked`) and `AtPlace` (what status, relays and a late switch-on may
  be at each place of the loop): from these `Interlock` and `OnIsMarked`;
- `Unarmed`, `CommandInHand` (a setpoint command has seen the present status) and `Ended`
  (after an interrupted pulse the loop only looks at the status): from these
  `NeverResumes` and, with `AtPlace`, `LockSticks`;
- `Budgeted` and `LedgerRight` for `BoundedTravel`, which holds over crashes although the
  ledger is written after the pulse: whenever the ledger is behind (`Behind`), the status
  is `pulse_active`, so no other pulse is made; otherwise it is exact (`Exact`).

The supervised pulses, for any number of faults and `Overlap = FALSE`, the case in which
the promises hold (see the findings). `ServoInv` is the two promises with
- `OneCommand`: no watchdog of an earlier command waits, and its own is there from before
  the ON until it is joined;
- `OffStays`: an ON that is still on its way is known to the command as a failure, so
  an OFF that was read back is not undone;
- `SelfOff`: only a device with native firmware ends a timed pulse before the watchdog,
  which makes a witness of the commissioning pulse;
- `OneFault`: after at most one fault, whatever is on has a watchdog that has not yet made
  its first OFF.

`ReportedIsOff` (`ValveOff`) and `WitnessIsNative` (`NativeWitness`) are parts of it.

**SurplusControlProofs.** For any targets, outputs, configurations, snapshots,
thresholds, delays and lifetimes. `IInv` is `TypeOK` and `ConfirmedStart` with
- `Confirmed`: the confirmation that is running, and the one that made the surplus
  active, began after the last evaluation against it. `ConfirmedStart` speaks of results
  that are still to be driven; it is kept because time only goes on, and it is
  established because an evaluation starts a load only from an active state that is not
  bridging missing data (lemma `Decision`, the decision for every snapshot);
- `OneOwner`: no two intents in the store are for one output. It holds of expired ones as
  well, since accepting an intent drops them;
- `Expiring`: what the worker is expiring has expired, and is still in the store.

`HeldOutputsStay` follows: an intent that holds the output of an expired one would be a
second one for the same output. The configuration the worker has read before plays no
part, because the store decides.

**InstallationProofs.** For any number of requests and faults. `IInv` is `TypeOK`,
`OneClaim` and `BackedByCloud` with
- `WorksForDisk`: a request works for the provisioning id on disk, and from its claim on
  with the credential on disk, whoever drew them. This is what reading back after the
  hard link achieves, and what the mutant `PutCredential_Own` breaks;
- `InOrder`: it finalises only what the cloud has given, registers only an identity that is
  there, publishes only what is registered;
- `IdentityOfDisk`: the identity is that of the provisioning id on disk.

One lemma per operation; all steps of the network share `NetworkKeeps`, since they touch
neither files nor cloud.

**BatteryControlProofs.** SolaX: the marker on disk, the copy in the hand of a call, and the
command that may still be on its way to the inverter. `MarkerSays` (the marker keeps the
user's parameter lock, and is there from the first write to the last), `CopySays` (the
copy never knows less than the marker) and `SentSays` (what controls or may yet control
the inverter was recorded as attempted, and is gone once AUTO was verified) give its part of
`OthersKept` and its refinement of BatteryDriver. GoodWe: `GoodweInv` says that the mode is
off or the one that is due, and what a call has written so far. Release: `RightConsumed`, the
write is consumed on disk before it is made. Canary: `FromAuto`, a direction is only
commanded to an inverter that follows none.

The ports, for any number of writes and transfers: every program of ModbusBus is
`Disciplined` (one use of a port after another, inside the lock of the runtime or without
it), and `BusInv` says of every thread that it holds exactly the locks its place is inside
of (`Holders`), has clients and transfers only during a use (`Clients`), and has seen one
state of the registers since it opened the port (`Undisturbed`). `OneMoment` follows from
the last. For `NoCircularWait`: a holder of a port never waits, a holder of the runtime
lock waits for ports only, so a chain of waiting threads has at most two links.

**NetworkProofs.** Part by part:
- registry: `TypeOK`, and the names in the file and, while a switch command is under
  way, in the copy it is about to save: nothing registers a device in between, as one
  thread does both;
- telemetry: `ReadsAreHeard`. What has been heard of a device in this cycle includes
  whatever its stored address answers now, so that a poll that has identified its device
  reads a value of that device even when addresses move under it;
- host: a status that says that an onboarding runs has a thread that runs;
- bootstrap: a flow is begun only by a process that has seen no network and begun none;
- pairing: `PictureSays`, `DetectedSays`. Whatever differs from the picture was touched
  since, so what the two ways of looking detect was, too;
- Reset OS: `AttemptsAreOrdered`. The file names the last attempt only, but its time is
  never before the moment at which a command that has already restarted the system was
  valid; whenever the clock makes that command valid again, the cooldown refuses it;
- configuration: `Noticed` with `VersionsKnown` (nobody knows a version the cloud has not
  published; what is fetched and not yet saved is not older than the file).

**Only model-checked** are the liveness properties `ControlEnds`, `MarkersClear`, `Settles`,
`Reachable`, `ReturnsHome` and `KeepsUp`: liveness under fairness is out of the prover's
reach. ShellyOnboarding, whose only property is of that kind, is the one component module
without a theorem. No module declares a RECURSIVE operator.

## Findings

Each is a run whose property quotes the code or a test, and which TLC violates:

- **BatteryRearm** (`RefusedOnlyIfEnded`; `manual_battery_runtime.py:291`): a background AUTO after an explicit
  STOP stops the stopped record once more and latches again the session that the STOP
  had released. The user's next start of the same request is refused.
- **BatteryReorder** (`StaleStartRefused`; `:290`): the STOP barrier is set to that of the STOP last received,
  even when it is lower; a delayed older STOP lets a start from before the newer STOP
  through. With STOPs in order the property holds (`StaleStartsRefused`).
- **MixerResume** (`f47_local_mixer_00013.py:326`): a setpoint command before the first look
  of a restarted process replaces `pulse_active` by `hold`, so that the interrupted
  movement resumes.
- **WorkerForgets** (`WaitingKept`; `command_worker.py:2706`, also `:2699` and `:2728`): one marker file serves all
  reconfigurations, and other commands are claimed while one waits for its device. A
  second reconfiguration replaces the marker of the first, or removes it when it is
  refused; the first never gets a result.
- **SurplusWeekly** (`WeeklyExclusive`; `telemetrie_modulu.py:1871`): a cycle checks the weekly thermostat in
  the configuration it loaded at its start; one that is synchronised before the output
  is switched makes the thermostat the owner, and the old decision still switches.

Two more can be seen by changing a configuration file:
- `LockSticks` as the property of `MixerResume.cfg`: a setpoint command that read the
  status before `run_forever` locked overwrites the lock (same line).
- `Overlap = TRUE` in `MixingValve.cfg`: a supervised command whose OFF was not proven leaves a
  watchdog behind that switches both outputs off later; during the commissioning pulse
  of a timed command, `servo_atomic_timed_executor.py:146` takes that for the device's own
  OFF, and `NativeWitness` fails.

Observations without a property, because the code promises nothing definite of them:
- A renewal of a manual session after a route change (`manual_battery_runtime.py:302`)
  latches its own signature as ended and then drives it, so its later renewals are
  refused until it expires.
- The second way of finding a paired device (`zigbee_manager.py`, `wait_for_new_device`) takes
  entities of any integration, although the function speaks of ZHA devices.
- After a successful onboarding the status of the host stays `heartbeat`, so a later start
  is refused until a reset. The older setup manager of the agent, which nothing starts,
  imports for its first heartbeat (`installer/setup_manager.py:316`) a
  `load_device_config` that `heartbeat.py` does not have.
- `iqf_host_api.py` compares the refusal of a second start with correctly encoded text,
  while `setup_manager.py` raises it in mangled encoding, so the answer 409 is never given.

## Not modelled

Of the modelled parts:
- BatteryRuntime: the fingerprint pin a passed canary writes, evidence and status
  texts, validation of payloads; the canary's own steps are in BatteryCanary (here it may
  leave anything of its session, and is stopped). Times are a few units, the wall clock is
  the only clock.
- FoxessDriver: numeric power and state of charge (a safety stop may happen at any
  call); a power loss that loses the rename of the marker; another controller that
  takes over while the driver's marker is still there, which the registers cannot tell
  from the driver's own control; a user who changes settings during a session, which
  the restore overwrites. SolaxDriver and GoodweDriver: the limits of power, and register
  addresses of the models.
- LocalMixer: torn writes through the one fixed `.tmp` name of `_atomic`, and entity
  identification. ServoPulse: the probes, which only read, and `servo_pulse_guard`, which
  the dispatcher cannot reach with a device timer.
- SurplusControl: monotonic and wall clock are one; the store is never corrupt; the
  temperatures are classes, whose limits the code compares with.
- CommandWorker: the retry of a refused update entity within one execution, a corrupt
  marker file, a wall clock that is set back, and an update whose target is below the
  installed version (it is refused like any other version that is not offered).
- Installation: the pages of the portal, checks of form fields, read-only state helpers.
- WifiRegistry: a file that cannot be read counts as empty in the code, and every name is
  lost with the next save; no property covers that.

Of the other components, which `PROJECT.json` lists with their status: the older
`installer/setup_manager.py` and its web pages, which nothing starts; `provisioning.py`, the
factory tools and manufacturing records, which people run one step at a time; the
inventory of ports in `communication/`; the heuristics that recognise devices on a
network; and release tooling. Decoding of registers (`inverter_adapter.py`,
`goodwe_probe.py`, `deye_50_hybrid_hv.py`, `fve_entity_mapper.py`) is a table of pure
conversions without state: a model of it would be its transliteration.

## Plan

1. The type invariants of SolaxDriver, GoodweDriver and ModbusBus as theorems of their own,
   and safety lemmas behind `ReturnsHome`: what the rollback shell of ShellyOnboarding
   has saved before the device leaves the network.
2. What `ControlEnds` and `MarkersClear` rest on, as invariants: from every place, the
   condition under which the step that fairness speaks of is the one that is enabled.
3. A property for a registry or a store that cannot be read, once the code decides what
   it means.
4. Decoding of registers against reference definitions over bounded words.
