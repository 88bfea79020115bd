SPECIFICATION ControlSpec
CONSTANTS
  Modes = {0, 1, 2}
  BackUp = 2
  Timeouts = {0, 60, 180}
  Remote = 180
  NoMarker = NoMarker
  WorkModes = {0, 1}
  MaxPower = 2
  CanarySettings = {s1, s2}
  Sigs = {m1, canary}
  ManualSigs = {m1, canary}
  CanarySig = canary
  NoSig = NoSig
  AUTO = AUTO
  NoRoute = NoRoute
  Routes = {r1}
  MaxTime = 3
  SessionCap = 1
  BackoffOf <- OneStep
  LatchCap = 1
  Faults = {"crash", "disk", "driver"}
  Blocks = 1
  MaxWrites = 1
INVARIANTS OwnedControl SettingsReturned DeadMan NoStaleSetpoint OthersKept OneMoment NoCircularWait
PROPERTIES DriverPromise OthersPromise  ServicePromise ControlEnds
