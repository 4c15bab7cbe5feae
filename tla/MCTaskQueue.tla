------------------------------ MODULE MCTaskQueue ------------------------------
(***************************************************************************)
(* Two producers and two workers around a queue of two slots (one for the  *)
(* liveness check), so that both sides get to wait.                        *)
(***************************************************************************)
EXTENDS TaskQueue, TLC

Symmetry == Permutations(Producers) \cup Permutations(Workers) \cup Permutations(Items)
=============================================================================
