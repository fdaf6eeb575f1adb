SPECIFICATION SafetySpec
CONSTANTS
  Cpus = {0, 1}
  Accepted = {0, 1}
  Caller = 0
  MAX_CPU = 64
  Loops = 1
  Ioctls = 1
  FlagChoices = {}
  StableHost = FALSE
  MaxTsc = 0
  MaxVersion = 4
  MaxTime = 1
INVARIANTS TestTypeOK NoWarps PageOutlivesReads StallsSeen
PROPERTIES FlagsChangeAtRest ImplementsMonoClock
