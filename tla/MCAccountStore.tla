---------------------------- MODULE MCAccountStore ----------------------------
(***************************************************************************)
(* One account, registered or not (accounts share nothing), and three      *)
(* threads: what a stale compare-exchange takes is one that reads, one     *)
(* that takes the money and one that puts the same value back.             *)
(***************************************************************************)
EXTENDS AccountStore, TLC

Symmetry == Permutations(Threads)
=============================================================================
