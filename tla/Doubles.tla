------------------------------- MODULE Doubles -------------------------------
(***************************************************************************)
(* The part of IEEE-754 double arithmetic the risk engine depends on.      *)
(*                                                                         *)
(* Balances, prices and costs are C++ doubles.  Every amount used by the   *)
(* code is well below 2^53, where integer-valued doubles are exact, so a   *)
(* finite double is modelled by an integer.  The one non-finite value the  *)
(* engine can be handed and does not turn away is NaN: it is unordered     *)
(* (every comparison with it is false) and it absorbs arithmetic.          *)
(***************************************************************************)
EXTENDS Integers

CONSTANT NaN    \* the not-a-number double

ASSUME NaNAssumption == NaN \notin Int

Double == Int \cup {NaN}

\* x < y and x <= y on doubles: false as soon as an operand is NaN.
Lt(x, y)  == x # NaN /\ y # NaN /\ x < y
Leq(x, y) == x # NaN /\ y # NaN /\ x <= y

Minus(x, y) == IF x = NaN \/ y = NaN THEN NaN ELSE x - y
Plus(x, y)  == IF x = NaN \/ y = NaN THEN NaN ELSE x + y
Times(x, y) == IF x = NaN \/ y = NaN THEN NaN ELSE x * y
=============================================================================
