CONSTANTS
  VmmBackends = {"ch", "fc", "qemu", "crosvm"}
  MaxCreates = 2
SPECIFICATION VmmSpec
INVARIANT SnapshotNeverStrands
CHECK_DEADLOCK FALSE
