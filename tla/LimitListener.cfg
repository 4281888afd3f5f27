SPECIFICATION ListenerSpec
CONSTANTS
  c1 = c1  c2 = c2  c3 = c3  c4 = c4  ip1 = ip1  ip2 = ip2  None = None
  Conn <- Conns
  IpOf <- Addresses
  Key <- Ips
  SegmentOf <- OneSegment
  SegmentCount = 1
  MaxEntry = 1
  Value = {}
  Ttl = {}
  Never <- NeverExpire
  TenYears = 9
  MinCount <- LeastCount
  MaxCount = 9
  Hour = 1
  Horizon = 1
  TotalConnLimit = 2
  IpConnLimit = 1
INVARIANTS
  PlacesMatch
  NeverTooHigh
  ExactUnlessForgotten
CHECK_DEADLOCK FALSE
