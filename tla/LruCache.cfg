SPECIFICATION Spec
CONSTANTS
  k1 = k1  k2 = k2  k3 = k3  Text = Text  None = None
  Key <- Keys
  Value <- Values
  Ttl <- Ttls
  SegmentOf <- Segments
  SegmentCount = 2
  MaxEntry = 3
  Never <- Least
  TenYears = 0
  MinCount <- Least
  MaxCount = 1
  Horizon = 2
SYMMETRY Symmetry
INVARIANTS
  TypeOK
PROPERTIES
  EvictsTheOldest
  ImplementsMap
