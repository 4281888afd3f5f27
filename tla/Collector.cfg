SPECIFICATION Spec
CONSTANTS
  Scrape = {s1, s2}
  CacheTime = 2
  Horizon = 5
  None = None
INVARIANTS
  NeverBackward
PROPERTIES
  Fresh
  ExporterEnds
CHECK_DEADLOCK FALSE
