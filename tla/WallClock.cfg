SPECIFICATION Spec
CONSTANTS
  ncpus = 2
  NSEC_PER_SEC = 2
  MaxSec = 1
  threshold = 1
  MaxVersion = 6
  MaxClock = 2
INVARIANTS WallTypeOK TimePublished WallForward
PROPERTIES WallLoopEnds
