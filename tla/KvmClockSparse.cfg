SPECIFICATION Spec
CONSTANTS
  Cpus = {0, 2}
  Accepted = {0, 2}
  Caller = 0
  MAX_CPU = 64
  Loops = 1
  Ioctls = 1
  FlagChoices = {}
  StableHost = TRUE
  MaxTsc = 0
  MaxVersion = 2
  MaxTime = 1
CHECK_DEADLOCK FALSE
PROPERTIES IoctlReturns
