SPECIFICATION Spec
CONSTANTS
  Cpus = {0, 1}
  Accepted = {0}
  Caller = 0
  MAX_CPU = 64
  Loops = 1
  Ioctls = 2
  FlagChoices = {}
  StableHost = TRUE
  MaxTsc = 1
  MaxVersion = 4
  MaxTime = 1
INVARIANTS WarpsCounted
PROPERTIES ReadTerminates
