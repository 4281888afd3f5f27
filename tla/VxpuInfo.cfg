SPECIFICATION Spec
CONSTANTS
  p1 = p1  p2 = p2  g1 = g1  
  Pod = {p1, p2}
  Pid = {1}
  Gpu = {g1}
  Number <- Numbers
  Assigned <- Assignment
  MaxStarts = 2  MaxGetPids = 1
INVARIANTS
  SteadyCounted
  OwnUsage
PROPERTIES
  OnlyGonePodsCleaned
  GonePodsCleaned
CHECK_DEADLOCK FALSE
