SPECIFICATION Spec
CONSTANTS
  Targets = {1, 2}
  Temps = {0, 1, 2, 3}
  MaxFloor = 3
  MaxReport = 2
  MaxPulses = 2
  Faults = {"crash", "retarget", "overlap"}
INVARIANT NeverResumes
