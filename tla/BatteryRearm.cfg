SPECIFICATION HSpec
CONSTANTS
  Sigs = {m1, a1, canary}
  ManualSigs = {m1, canary}
  CanarySig = canary
  NoSig = NoSig
  AUTO = AUTO
  NoRoute = NoRoute
  Routes = {r1}
  MaxTime = 3
  SessionCap = 3
  BackoffOf <- OneStep
  LatchCap = 2
  Faults = {}
INVARIANT RefusedOnlyIfEnded
