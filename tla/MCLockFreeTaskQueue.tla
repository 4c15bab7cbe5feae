------------------------- MODULE MCLockFreeTaskQueue -------------------------
(***************************************************************************)
(* One producer and two workers, or two producers and one worker, around a *)
(* ring of two cells.                                                      *)
(***************************************************************************)
EXTENDS LockFreeTaskQueue, TLC

Symmetry == Permutations(Producers) \cup Permutations(Consumers) \cup Permutations(Items)
=============================================================================
