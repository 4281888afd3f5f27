SPECIFICATION FairSpec
CONSTANTS
  d1 = d1
  d2 = d2
  Device <- TwoDevices
  Devices <- InOrder
  NoDevice = NoDevice
  MaxStarts = 2
INVARIANTS
  Inv
  ToldUnlessMissed
PROPERTIES
  OneStreamInOrder
  FailureReported
  BlockedOnlyByAbandoned
CHECK_DEADLOCK FALSE
