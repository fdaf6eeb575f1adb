SPECIFICATION Spec
CONSTANTS
  Tasks = {t1, t2}
  CanFail = {}
  Loads = 1
  Cpus = {0, 1}
  Types = {"rdrand", "rdseed", "mmio", "icmp", "invd"}
  Values = {1, 2}
  RDRAND_RETRY_LOOPS = 2
  MaxSockets = 2
  Ioctls = 2
  Interrupts = 1
INVARIANTS FocusTypeOK OwnMessage LiveSocket  
PROPERTIES PcmtestEnds
CHECK_DEADLOCK FALSE
