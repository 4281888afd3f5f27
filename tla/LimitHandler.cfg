SPECIFICATION HandlerSpec
CONSTANTS
  Request = {r1, r2, r3}
  Client = {i1}
  TotalConCurrency = 2
  MaxPerMinute = 2
INVARIANTS
  Bounded
PROPERTIES
  TokenComesBack
CHECK_DEADLOCK FALSE
