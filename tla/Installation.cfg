SPECIFICATION Spec
CONSTANTS
  Handlers = {h1, h2}
  None = None
  MaxFaults = 1
INVARIANTS OneClaim BackedByCloud
PROPERTY Reachable
CHECK_DEADLOCK FALSE
