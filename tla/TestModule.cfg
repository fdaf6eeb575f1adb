SPECIFICATION Spec
CONSTANTS
  Cpus = {0, 1}
  TestCases = {0, 1, 2, 3, 4, 5, 6, 7, 8, 9, 10, 11, 12, 13}
  Loads = 2
INVARIANTS  VmxRegionKept HeapAccounted SaidTruly
CHECK_DEADLOCK FALSE
