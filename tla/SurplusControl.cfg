SPECIFICATION Spec
CONSTANTS
  t1 = t1
  t2 = t2
  o1 = o1
  o2 = o2
  None = None
  Targets = {t1, t2}
  Outputs = {o1, o2}
  Order <- MCOrder
  Configs <- MCConfigs
  Confirm = 1
  Grace = 1
  MaxIntents = 1
  Lifetimes = {2}
  EnableSoc = 90
  DisableSoc = 40
  MinPv = 4
  MaxImport = 1
  Observed <- MCObserved
  AtRest <- Low
  Temperatures = {"cold", "bad"}
  Faults = {"ha", "crash", "user", "disk"}
  MaxTime = 2
  MaxEvents = 2
INVARIANT ConfirmedStart
PROPERTIES  Settles
