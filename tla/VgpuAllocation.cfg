SPECIFICATION FairSpec
CONSTANTS
  a = a
  b = b
  c = c
  Pod = {a, b, c}
  Need <- Mixed
  Plain = {c}
  NoPod = NoPod
  NoCall = NoCall
  Call = {h1, h2}
  Faults = {"api", "file", "crash", "expiry", "restart"}
  MaxFaults = 2
INVARIANTS
  OnePending
  RightPod
  HandedOutOnce
  CountsMatch
PROPERTIES
  LockKept
  AllocationCompletes
CHECK_DEADLOCK FALSE
