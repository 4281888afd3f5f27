--------------------------- MODULE LimitListenerMC ---------------------------
(* A small instance of LimitListener for TLC.                               *)
EXTENDS LimitListener

CONSTANTS c1, c2, c3, c4, ip1, ip2

Conns == {c1, c2, c3, c4}
Ips == {ip1, ip2}
\* Three connections of one address and one of another, in a segment of one.
Addresses == [c \in Conns |-> IF c = c4 THEN ip2 ELSE ip1]
OneSegment == [ip \in Ips |-> 1]
NeverExpire == -1
LeastCount == -9
=============================================================================
