--------------------------- MODULE DeviceHealthMC ---------------------------
(* Small instances of DeviceHealth for TLC.                                 *)
EXTENDS DeviceHealth, TLC

CONSTANTS d1, d2

TwoDevices == {d1, d2}
InOrder == <<d1, d2>>
=============================================================================
