---------------------------- MODULE OrderGenerator ----------------------------
(***************************************************************************)
(* include/OrderGenerator.hpp: the orders main.cpp submits to the engine.  *)
(* What the random generator yields is a parameter; money is in thousands. *)
(* orderId counts up from 1, so it is the position in the sequence.        *)
(***************************************************************************)
EXTENDS Naturals, Sequences

\* const char* symbols[]: "last = invalid"
SymbolNames == <<"BTC-USD", "ETH-USD", "SOL-USD", "DOGE-XYZ">>

\* What symbolPick, sidePick, qtyDist and priceDist may yield.
Draw == [symbol : 0 .. 3, side : {0, 1}, qty : 1 .. 10, price : 1 .. 50]

\* One order per draw, each on a fresh account.
GenerateIndependent(draws, accountIdStart) ==
    [i \in DOMAIN draws |->
        [accountId |-> accountIdStart + i - 1,
         symbol    |-> SymbolNames[draws[i].symbol + 1],
         side      |-> IF draws[i].side = 0 THEN "BUY" ELSE "SELL",
         qty       |-> draws[i].qty,
         price     |-> draws[i].price]]

\* Two orders on every account, each worth 6 of a balance of 10.
GenerateConflictingPairs(pairCount, accountIdStart) ==
    [n \in 1 .. 2 * pairCount |->
        [accountId |-> accountIdStart + (n - 1) \div 2,
         symbol    |-> "BTC-USD",
         side      |-> "BUY",
         qty       |-> 1,
         price     |-> 6]]
=============================================================================
