SPECIFICATION ClockSafety
CONSTANTS
  Cpus = {c1, c2}
  Accepted = {c1, c2}
  FlagChoices = {{"PVCLOCK_TSC_STABLE_BIT"}}
  StableHost = TRUE
  MaxTsc = 1
  MaxVersion = 4
  MaxTime = 1
SYMMETRY Symmetry
INVARIANTS ClockTypeOK Monotonic
PROPERTIES SnapshotConsistent 
