SPECIFICATION Spec
CONSTANTS
  a = a
  b = b
  c = c
  Pod = {a}
  Need <- TwoContainers
  Plain = {}
  NoPod = NoPod
  NoCall = NoCall
  Call = {h1}
  Faults = {}
  MaxFaults = 0
INVARIANTS
  NextCanBeDecoded
CHECK_DEADLOCK FALSE
