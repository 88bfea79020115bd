SPECIFICATION Spec
CONSTANTS
  u1 = u1
  u2 = u2
  Updates = {u1}
  Reconfs = {z1, z2}
  Plain = {p1}
  NoCmd = NoCmd
  Target <- Goals
  MaxVersion = 3
  UpdateTimeout = 1
  WakeTimeout = 1
  Faults = {"crash"}
INVARIANT WaitingKept
