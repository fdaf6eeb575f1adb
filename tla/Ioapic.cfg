SPECIFICATION Spec
CONSTANTS
  Online = {0, 1}
  Caller = 0
  Ioctls = 1
  MaxCount = 4
INVARIANTS IoapicTypeOK NoFalseAlarm CleanHandover PairedAccess Acknowledged
PROPERTIES IoapicReturns
