-------------------------------- MODULE Mutex --------------------------------
(***************************************************************************)
(* What a lock promises: it is taken when it is free, and given back by    *)
(* its owner. An owner may end without giving it back; then the lock stays *)
(* taken and nobody owns it.                                               *)
(***************************************************************************)
CONSTANT Client

VARIABLES
  owners, \* the clients that own the lock: one at most
  taken   \* the lock is not free

vars == <<owners, taken>>

Init == owners = {} /\ taken = FALSE

Acquire(c) == ~taken /\ taken' = TRUE /\ owners' = {c}

Release(c) == owners = {c} /\ owners' = {} /\ taken' = FALSE

Lose(c) == owners = {c} /\ owners' = {} /\ taken' = taken

Next == \E c \in Client : Acquire(c) \/ Release(c) \/ Lose(c)

Spec == Init /\ [][Next]_vars
=============================================================================
