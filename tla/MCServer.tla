------------------------------- MODULE MCServer -------------------------------
(***************************************************************************)
(* Two clients, one with two messages and one with a single message, and   *)
(* two workers; with a signal, or without one and more descriptors.        *)
(***************************************************************************)
EXTENDS Server, TLC

CONSTANTS k1, k2, m1, m2, m3

MCScript == k1 :> <<m1, m2>> @@ k2 :> <<m3>>

Symmetry == Permutations(Workers)
=============================================================================
