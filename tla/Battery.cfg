SPECIFICATION BatterySpec
CONSTANTS
  Sigs = {m1, m2, a1, canary}
  ManualSigs = {m1, m2, canary}
  CanarySig = canary
  NoSig = NoSig
  AUTO = AUTO
  NoRoute = NoRoute
  Routes = {r1}
  MaxTime = 4
  SessionCap = 2
  BackoffOf <- OneStep
  LatchCap = 3
  Faults = {"crash", "disk", "driver", "rollback", "watchdog", "config"}
  FaultSigs = {m1, a1, canary}
  FaultManual = {m1, canary}
  FaultLatch = 2
  FaultFaults = {"crash", "disk", "driver", "rollback", "watchdog"}
  TwoSigs = {m1, m2, canary}
  TwoFaults = {"crash", "disk", "driver"}
  OneSigs = {m1, canary}
  LongFaults = {"crash", "config"}
  ShortTime = 2
INVARIANTS DurableOwner HonestStatus SessionCapped
PROPERTIES NoTakeover OwnerPromise StaleStartRefused
