SPECIFICATION Spec
CONSTANTS
  MaxLen = 3
  Lens = {1, 3}
  MaxBackups = 2
  MaxAge = 2
  StableLength = 3
  Horizon = 3
  MaxRotations = 4
  MaxCrashes = 1
  MaxFailures = 1
INVARIANTS
  SizeKnown
  KeepsNewest
PROPERTIES
  Trimmed
CHECK_DEADLOCK FALSE
