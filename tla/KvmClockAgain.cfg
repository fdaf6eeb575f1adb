SPECIFICATION Spec
CONSTANTS
  Cpus = {0, 1}
  Accepted = {0, 1}
  Caller = 0
  MAX_CPU = 64
  Loops = 1
  Ioctls = 2
  FlagChoices = {}
  StableHost = FALSE
  MaxTsc = 1
  MaxVersion = 2
  MaxTime = 1
INVARIANTS NoWarps
PROPERTIES IoctlReturns
