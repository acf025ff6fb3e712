------------------------- MODULE MCThreadScheduler -------------------------
(* Instances of ThreadScheduler for TLC. *)
EXTENDS ThreadScheduler, TLC

CONSTANTS evt, sync, sem    \* one object of each type

MCType == [o \in Object |-> CASE o = evt  -> "notification"
                              [] o = sync -> "synchronization"
                              [] o = sem  -> "semaphore"]

Symmetry == Permutations(Caller)
=============================================================================
