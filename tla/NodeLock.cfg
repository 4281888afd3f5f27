SPECIFICATION FairSpec
CONSTANTS
  Client = {c1, c2}
  NoLock = NoLock
  MaxLockRetry = 1
  LockExpiredInterval = 1
  MaxUptime = 2
  MaxReboots = 1
INVARIANTS
  Inv
  ExclusiveUnlessUnguarded
PROPERTIES
  ImplementsMutex
  RefusedOnlyIfRecent
  CallsReturn
CHECK_DEADLOCK FALSE
