SPECIFICATION NetworkSpec
CONSTANTS
  Devices = {m1, s1}
  Meters = {m1}
  Addresses = {a1, a2}
  MaxMoves = 2
  Attempts = {1, 2}
  MaxFaults = 1
  DeviceCount = 3
  Workers = 2
  Silent = {1, 2}
  MaxChanges = 1
  MaxLate = 1
  MaxCrashes = 1
  MaxUserEntries = 1
  Runs = {r1, r2}
  Zigbee = {old, d1}
  Foreign = {lamp}
  OldDevice = old
  MaxEvents = 3
  Commands = {c1, c2}
  None = None
  Cooldown = 3
  MaxTime = 7
  MaxVersion = 3
INVARIANTS NamesLast TrueReports ZigbeeOnce CloudHeard
PROPERTIES ReturnsHome KeepsUp
CHECK_DEADLOCK FALSE
