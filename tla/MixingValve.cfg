SPECIFICATION ValveSpec
CONSTANTS
  Targets = {1, 2}
  Temps = {0, 1, 2, 3}
  MaxFloor = 3
  MaxReport = 2
  MaxPulses = 2
  Faults = {"crash", "switch", "late", "disk", "regress", "retarget"}
  Overlap = FALSE
  MaxFaults = 3
INVARIANTS Interlock OnIsMarked BoundedTravel NeverResumes ValveOff NativeWitness
PROPERTY LockSticks
