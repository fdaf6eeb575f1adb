SPECIFICATION Spec
CONSTANTS
  Online = {0, 1}
  Caller = 0
  Ioctls = 2
  MaxCount = 4
INVARIANTS NoFalseAlarm
