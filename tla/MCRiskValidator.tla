--------------------------- MODULE MCRiskValidator ---------------------------
(***************************************************************************)
(* Account 1 starts with 10 and account 2 with 5; account 3 was never      *)
(* registered.  Costs are main.cpp's (6000 out of 10000) in thousands.     *)
(***************************************************************************)
EXTENDS RiskValidator, OrderGenerator, TLC

MCStart   == 1 :> 10 @@ 2 :> 5
MCSymbols == {"BTC-USD", "ETH-USD", "SOL-USD"}

Buy(a, q, p) == [accountId |-> a, symbol |-> "BTC-USD", side |-> "BUY", qty |-> q, price |-> p]

\* main.cpp's second test: a conflicting pair, beside an order for the rest
\* and one alone on its account that cannot be paid.
Conflict == GenerateConflictingPairs(1, 1) \o <<Buy(2, 3, 2), Buy(1, 4, 1)>>

\* main.cpp's first test: every draw below, each on an account of its own.
Draws == {[symbol |-> s, side |-> d, qty |-> 2, price |-> 3] : s \in {1, 3}, d \in {0, 1}}
ASSUME DrawsAssumption == Draws \subseteq Draw
Independent == {GenerateIndependent(<<x, y>>, 1) : x, y \in Draws}

\* One order for each of the outcomes of validate() no generator asks for.
Outcomes ==
    <<Buy(2, 4, 1), Buy(1, 0, 3), Buy(1, 2, -3), [Buy(1, 2, 3) EXCEPT !.symbol = "DOGE-XYZ"],
      Buy(3, 2, 3), [Buy(1, 9, 9) EXCEPT !.side = "SELL"]>>

MCWorkloads == {Conflict, Outcomes} \cup Independent
MCAmounts   == {0, 4, 6}

\* The conflicting pair behind an order whose price is not a number.
NaNWorkloads == {<<Buy(1, 1, NaN)>> \o GenerateConflictingPairs(1, 1)}
NaNAmounts   == {6, NaN}
=============================================================================
