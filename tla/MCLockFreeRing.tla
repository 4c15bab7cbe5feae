---------------------------- MODULE MCLockFreeRing ----------------------------
(***************************************************************************)
(* The ring built for a requested capacity of MinCapacity, shared by a few *)
(* threads that push and pop as they like.                                 *)
(***************************************************************************)
EXTENDS LockFreeRing, TLC

CONSTANT MinCapacity    \* the constructor's argument

MCCap == RingCapacity(MinCapacity)

Symmetry == Permutations(Producers) \cup Permutations(Consumers) \cup Permutations(Items)
=============================================================================
