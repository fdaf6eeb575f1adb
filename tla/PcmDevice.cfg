SPECIFICATION Spec
CONSTANTS
  Cpus = {0, 1}
  Tasks = {a, b}
  Commands = {"TSC_RW", "KVMCLOCK_TEST", "IOAPIC_TEST", "TSC_ADJUST", "MSR_RW", "bad_address"}
  HasTscAdjust = TRUE
  CanFail = {"alloc_chrdev_region", "cdev_add"}
  Loads = 1
  Ioctls = 2
  Interrupts = 1
  FirstTsc = {0}
CHECK_DEADLOCK FALSE
INVARIANTS  OpenKeepsDevice NothingDangles   FalseReportsExplained
 
