----------------------------- MODULE RiskValidator -----------------------------
(***************************************************************************)
(* include/RiskValidator.hpp with include/ResultsCollector.hpp: orders are *)
(* validated by the workers of a pool against the shared AccountStore, and *)
(* their results collected, the way main.cpp's tests drive the engine:     *)
(*                                                                         *)
(*     pool.submit([o, &validator, &collector] {                           *)
(*         collector.add(validator.validate(o)); });                       *)
(*                                                                         *)
(* The pool is the JobQueue specification at its simplest: jobs are taken  *)
(* first-in first-out and run concurrently.  The store's accesses are the  *)
(* actions of AccountStore; the other tests of validate() are on the order *)
(* alone and come in one step with the access they lead to.                *)
(***************************************************************************)
EXTENDS AccountStore, Sequences, FiniteSets, FiniteSetsExt, SequencesExt

CONSTANTS
    Workloads,      \* the sequences of orders main() may submit
    Start,          \* registered account -> balance before trading
    Symbols         \* allowedSymbols_

Order == [accountId : Accounts, symbol : STRING, side : {"BUY", "SELL"},
          qty : Nat, price : Double]

\* double cost = qty * price
Cost(o) == Times(o.qty, o.price)

ASSUME RiskAssumption ==
    /\ DOMAIN Start \subseteq Accounts
    /\ Start \in [DOMAIN Start -> Nat]
    /\ \A w \in Workloads : w \in Seq(Order)
    /\ \A w \in Workloads : \A i \in DOMAIN w : w[i].side = "BUY" /\ ~Leq(w[i].price, 0) => Cost(w[i]) \in Amounts

VARIABLES
    orders,     \* the workload main() submits
    submitted,  \* how many of the orders main() has submitted
    taken,      \* how many of them the workers have taken
    vpc,        \* worker -> where it is in its job
    current,    \* worker -> index of the order it validates, 0 for none
    verdict,    \* worker -> the ValidationResult under construction
    results,    \* ResultsCollector::results_
    precedes    \* history: <<i, j>> when i's result was in before j was taken

riskVars == <<orders, submitted, taken, vpc, current, verdict, results, precedes>>
engineVars == <<vars, riskVars>>

Result(i, accepted, reason) ==
    [order |-> i, accepted |-> accepted, reason |-> reason]
NoVerdict == Result(0, FALSE, "")

RiskInit ==
    /\ trading  = TRUE
    /\ balances = Start
    /\ pc       = [t \in Threads |-> "idle"]
    /\ acct     = [t \in Threads |-> NoAccount]
    /\ amount   = [t \in Threads |-> NoAmount]
    /\ cur      = [t \in Threads |-> 0]
    /\ ret      = [t \in Threads |-> FALSE]
    /\ funded   = [a \in Accounts |-> IF a \in DOMAIN Start THEN Start[a] ELSE 0]
    /\ spent    = [a \in Accounts |-> 0]
    /\ orders \in Workloads
    /\ submitted = 0
    /\ taken     = 0
    /\ vpc       = [t \in Threads |-> "idle"]
    /\ current   = [t \in Threads |-> 0]
    /\ verdict   = [t \in Threads |-> NoVerdict]
    /\ results   = << >>
    /\ precedes  = {}

-----------------------------------------------------------------------------
(* The pool: submit(), and a worker taking the oldest job.                 *)

Submit ==
    /\ submitted < Len(orders)
    /\ submitted' = submitted + 1
    /\ UNCHANGED <<vars, orders, taken, vpc, current, verdict, results, precedes>>

Collected == {results[i].order : i \in DOMAIN results}

Take(t) ==
    /\ vpc[t] = "idle"
    /\ taken < submitted
    /\ taken' = taken + 1
    /\ vpc' = [vpc EXCEPT ![t] = "validate"]
    /\ current' = [current EXCEPT ![t] = taken + 1]
    /\ precedes' = precedes \cup (Collected \X {taken + 1})
    /\ UNCHANGED <<vars, orders, submitted, verdict, results>>

-----------------------------------------------------------------------------
(* ValidationResult validate(const Order& order)                           *)

\* The tests that need no account, in the code's order; "" when all pass.
EarlyReason(o) ==
    IF o.qty = 0 THEN "zero_quantity"
    ELSE IF Leq(o.price, 0) THEN "invalid_price"
    ELSE IF o.symbol \notin Symbols THEN "unknown_symbol"
    ELSE ""

Decide(t, accepted, reason) ==
    /\ vpc' = [vpc EXCEPT ![t] = "collect"]
    /\ verdict' = [verdict EXCEPT ![t] = Result(current[t], accepted, reason)]
    /\ UNCHANGED <<vars, orders, submitted, taken, current, results, precedes>>

RejectEarly(t) ==
    /\ vpc[t] = "validate"
    /\ EarlyReason(orders[current[t]]) # ""
    /\ Decide(t, FALSE, EarlyReason(orders[current[t]]))

AcceptSell(t) ==
    /\ vpc[t] = "validate"
    /\ EarlyReason(orders[current[t]]) = ""
    /\ orders[current[t]].side = "SELL"
    /\ Decide(t, TRUE, "")

\* BUY: tryDebit(order.accountId, cost) is called ...
BuyCall(t) ==
    /\ vpc[t] = "validate"
    /\ EarlyReason(orders[current[t]]) = ""
    /\ orders[current[t]].side = "BUY"
    /\ LET o == orders[current[t]]
       IN  DebitCall(t, o.accountId, Cost(o)) \/ DebitUnknown(t, o.accountId)
    /\ vpc' = [vpc EXCEPT ![t] = "debit"]
    /\ UNCHANGED <<orders, submitted, taken, current, verdict, results, precedes>>

StoreStep(t) ==
    /\ DebitStep(t)
    /\ UNCHANGED riskVars

\* ... and has returned.
BuyReturn(t) ==
    /\ vpc[t] = "debit"
    /\ pc[t] = "idle"
    /\ Decide(t, ret[t], IF ret[t] THEN "" ELSE "insufficient_balance")

\* Mutant: rejections are not collected.
Collect_AcceptedOnly(t) ==
    /\ vpc[t] = "collect"
    /\ results' = IF verdict[t].accepted THEN Append(results, verdict[t]) ELSE results
    /\ vpc' = [vpc EXCEPT ![t] = "idle"]
    /\ current' = [current EXCEPT ![t] = 0]
    /\ verdict' = [verdict EXCEPT ![t] = NoVerdict]
    /\ UNCHANGED <<vars, orders, submitted, taken, precedes>>

\* collector.add(), under its mutex; the job is over.
Collect(t) ==
    /\ vpc[t] = "collect"
    /\ results' = Append(results, verdict[t])
    /\ vpc' = [vpc EXCEPT ![t] = "idle"]
    /\ current' = [current EXCEPT ![t] = 0]
    /\ verdict' = [verdict EXCEPT ![t] = NoVerdict]
    /\ UNCHANGED <<vars, orders, submitted, taken, precedes>>

-----------------------------------------------------------------------------
WorkerStep(t) ==
    \/ Take(t) \/ RejectEarly(t) \/ AcceptSell(t)
    \/ BuyCall(t) \/ StoreStep(t) \/ BuyReturn(t) \/ Collect(t)

RiskNext == Submit \/ \E t \in Threads : WorkerStep(t)

\* main() goes on submitting and every worker goes on working.
RiskFairness == WF_engineVars(Submit) /\ \A t \in Threads : WF_engineVars(WorkerStep(t))

RiskSpec == RiskInit /\ [][RiskNext]_engineVars /\ RiskFairness

-----------------------------------------------------------------------------
(* Properties                                                              *)

\* The orders that were accepted and cost a finite amount from account a.
AcceptedBuys(a) ==
    {i \in {results[k].order : k \in {n \in DOMAIN results : results[n].accepted}} :
        /\ orders[i].side = "BUY"
        /\ orders[i].accountId = a
        /\ Cost(orders[i]) # NaN}

\* No double-spend ("at most ONE may be accepted per account, ever", for two
\* orders the balance covers only one of): what the accepted BUY orders of an
\* account cost never exceeds what the account held before trading.
NoDoubleSpend ==
    \A a \in DOMAIN Start :
        MapThenSumSet(LAMBDA i : Cost(orders[i]), AcceptedBuys(a)) <= Start[a]

\* The sequential baseline: validate() one order after the other.
Validated(state, i) ==
    LET o  == orders[i]
        a  == o.accountId
        ok == /\ EarlyReason(o) = ""
              /\ o.side = "BUY" => a \in DOMAIN Start /\ ~Lt(state.balance[a], Cost(o))
    IN  [balance  |-> IF ok /\ o.side = "BUY"
                      THEN [state.balance EXCEPT ![a] = Minus(@, Cost(o))]
                      ELSE state.balance,
         accepted |-> IF ok THEN state.accepted \cup {i} ELSE state.accepted]

Baseline(seq) == FoldLeft(Validated, [balance |-> Start, accepted |-> {}], seq)

Finished == Len(results) = Len(orders)
Accepted == {results[k].order : k \in {n \in DOMAIN results : results[n].accepted}}

\* Concurrent validation is strictly serializable: the accepted orders and the
\* final balances are those of validating the same orders one after the other
\* in some order, in which an order whose result was in before another one was
\* started comes first.  (Where no two orders share an account this is the
\* baseline of main.cpp's first test: every order to its own answer.)
Serializable ==
    Finished =>
        \E seq \in {s \in [DOMAIN orders -> DOMAIN orders] :
                        /\ IsInjective(s)
                        /\ \A i, j \in DOMAIN s : i < j => <<s[j], s[i]>> \notin precedes} :
            LET last == Baseline(seq)
            IN  last.accepted = Accepted /\ last.balance = balances

\* Every submitted order ends up with exactly one result.
EveryOrderAnswered ==
    <>[](\A i \in DOMAIN orders :
            Cardinality({k \in DOMAIN results : results[k].order = i}) = 1)
=============================================================================
