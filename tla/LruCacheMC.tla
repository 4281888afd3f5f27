----------------------------- MODULE LruCacheMC -----------------------------
(* A small instance of LruCache for TLC.                                    *)
EXTENDS LruCache, TLC

CONSTANTS k1, k2, k3, Text

Keys == {k1, k2, k3}
\* Three keys share a segment of two elements.
Segments == [k \in Keys |-> 1]
Ttls == {-2, -1, 0, 1}
Values == {Text}
Least == -1
Symmetry == Permutations(Keys)
=============================================================================
