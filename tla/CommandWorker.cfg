SPECIFICATION FairSpec
CONSTANTS
  u1 = u1
  u2 = u2
  Updates = {u1, u2}
  Reconfs = {z1}
  Plain = {p1}
  NoCmd = NoCmd
  Target <- Goals
  MaxVersion = 3
  UpdateTimeout = 1
  WakeTimeout = 1
  Faults = {"crash", "network", "disk", "ha", "zigbee", "user"}
INVARIANTS UpdateHonest InstallAccounted
PROPERTY MarkersClear
