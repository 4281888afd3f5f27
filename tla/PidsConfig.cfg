SPECIFICATION PidsSpec
CONSTANTS
  Proc = {p1, p2}
  MaxTries = 2
  CallsMayFail = TRUE
  WatchMayFail = TRUE
INVARIANTS
  NoLostUpdate
PROPERTIES
  MapsConverge
  InitializeReturns
CHECK_DEADLOCK FALSE
