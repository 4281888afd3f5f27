--------------------------- MODULE MemoryQuotaMC ---------------------------
(* Small instances of MemoryQuota for TLC.                                  *)
EXTENDS MemoryQuota, TLC

CONSTANTS p1, p2, t1, t2

ProcOfThread == t1 :> p1 @@ t2 :> p2

\* A call for a page that takes two, and one that no card can serve: its size
\* wraps, and once memory is in use its sum with that wraps too.
Calls == {[bytes |-> 1, taken |-> 2], [bytes |-> 31, taken |-> 31]}

\* The pages are alike, and so are the two processes with their threads.
Symmetry ==
  Permutations(Page) \cup {p1 :> p2 @@ p2 :> p1 @@ t1 :> t2 @@ t2 :> t1}
=============================================================================
