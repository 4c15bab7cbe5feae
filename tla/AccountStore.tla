----------------------------- MODULE AccountStore -----------------------------
(***************************************************************************)
(* include/AccountStore.hpp: a balance store without locks.  Each balance  *)
(* is an atomic double; tryDebit() and credit() are load / compare-and-    *)
(* swap loops run by any number of threads.                                *)
(*                                                                         *)
(* One action is one access to shared memory.  compare_exchange_weak may   *)
(* fail although the values are equal; it then reloads the value it        *)
(* already had, which leaves every variable unchanged, so that failure is  *)
(* a stuttering step and needs no action.                                  *)
(***************************************************************************)
EXTENDS Doubles

CONSTANTS
    Threads,     \* the threads that use the store
    Accounts,    \* account ids (some may never be registered)
    Amounts,     \* the doubles handed to setBalance, credit and tryDebit
    MaxFunds     \* bound on what credits may raise an account's funds to

ASSUME StoreAssumption ==
    /\ Accounts # {}
    /\ Amounts # {}
    /\ Amounts \subseteq Nat \cup {NaN}
    /\ MaxFunds \in Nat

VARIABLES
    trading,     \* the RULE of the header: FALSE until every account is registered
    balances,    \* the map balances_
    pc,          \* thread -> where it is in the operation it executes
    acct,        \* thread -> argument accountId of that operation
    amount,      \* thread -> argument amount
    cur,         \* thread -> local variable cur
    ret,         \* thread -> value its latest tryDebit() returned
    funded,      \* history: what was put into each account since its last setBalance
    spent        \* history: total of the finite debits granted since then

locals  == <<pc, acct, amount, cur, ret>>
history == <<funded, spent>>
vars    == <<trading, balances, pc, acct, amount, cur, ret, funded, spent>>

Labels == {"idle", "debitLoad", "debitLoop", "creditLoad", "creditLoop"}

\* What the locals of a thread outside any operation hold.
NoAccount == CHOOSE a \in Accounts : TRUE
NoAmount  == CHOOSE x \in Amounts : TRUE

Init ==
    /\ trading  = FALSE
    /\ balances = [a \in {} |-> 0]
    /\ pc       = [t \in Threads |-> "idle"]
    /\ acct     = [t \in Threads |-> NoAccount]
    /\ amount   = [t \in Threads |-> NoAmount]
    /\ cur      = [t \in Threads |-> 0]
    /\ ret      = [t \in Threads |-> FALSE]
    /\ funded   = [a \in Accounts |-> 0]
    /\ spent    = [a \in Accounts |-> 0]

\* A thread inside an operation works on an account of the map: find() has
\* succeeded, and no account is ever removed.
InOperation ==
    \A t \in Threads : pc[t] # "idle" => trading /\ acct[t] \in DOMAIN balances

TypeOK ==
    /\ trading  \in BOOLEAN
    /\ DOMAIN balances \subseteq Accounts
    /\ balances \in [DOMAIN balances -> Double]
    /\ pc       \in [Threads -> Labels]
    /\ acct     \in [Threads -> Accounts]
    /\ amount   \in [Threads -> Amounts]
    /\ cur      \in [Threads -> Double]
    /\ ret      \in [Threads -> BOOLEAN]
    /\ funded   \in [Accounts -> Double]
    /\ spent    \in [Accounts -> Int]
    /\ InOperation

-----------------------------------------------------------------------------
(* setBalance() and the set-up phase.                                      *)

\* The account's history starts afresh with x in it.
Fund(a, x) ==
    /\ funded' = [funded EXCEPT ![a] = x]
    /\ spent'  = [spent EXCEPT ![a] = 0]

\* try_emplace of a new account: setBalance(), or credit() of an unknown id.
\* New keys change the map's shape, so callers do this before trading only.
Register(a, x) ==
    /\ ~trading
    /\ a \notin DOMAIN balances
    /\ balances' = [b \in DOMAIN balances \cup {a} |->
                        IF b = a THEN x ELSE balances[b]]
    /\ Fund(a, x)
    /\ UNCHANGED <<trading, locals>>

\* setBalance() of an existing account: one atomic store.
SetBalance(a, x) ==
    /\ a \in DOMAIN balances
    /\ balances' = [balances EXCEPT ![a] = x]
    /\ Fund(a, x)
    /\ UNCHANGED <<trading, locals>>

\* The caller has registered its accounts and lets the threads loose.
StartTrading ==
    /\ ~trading
    /\ trading' = TRUE
    /\ UNCHANGED <<balances, locals, history>>

-----------------------------------------------------------------------------
(* The loops shared by tryDebit() and credit().                            *)

\* An operation enters its load with these arguments.
Enter(t, label, a, x) ==
    /\ pc'     = [pc EXCEPT ![t] = label]
    /\ acct'   = [acct EXCEPT ![t] = a]
    /\ amount' = [amount EXCEPT ![t] = x]
    /\ UNCHANGED <<trading, balances, cur, ret, history>>

\* bal.load() into cur.
Load(t, from, to) ==
    /\ pc[t] = from
    /\ pc'  = [pc EXCEPT ![t] = to]
    /\ cur' = [cur EXCEPT ![t] = balances[acct[t]]]
    /\ UNCHANGED <<trading, balances, acct, amount, ret, history>>

\* A compare-exchange that finds another value: cur is refreshed.
CasFails(t) ==
    /\ balances[acct[t]] # cur[t]
    /\ cur' = [cur EXCEPT ![t] = balances[acct[t]]]
    /\ UNCHANGED <<trading, balances, pc, acct, amount, ret, history>>

\* The compare-exchange that stores x.
CasStores(t, x) ==
    /\ balances[acct[t]] = cur[t]
    /\ balances' = [balances EXCEPT ![acct[t]] = x]

\* The operation ends and its locals are gone.
Leave(t) ==
    /\ pc'     = [pc EXCEPT ![t] = "idle"]
    /\ acct'   = [acct EXCEPT ![t] = NoAccount]
    /\ amount' = [amount EXCEPT ![t] = NoAmount]
    /\ cur'    = [cur EXCEPT ![t] = 0]

-----------------------------------------------------------------------------
(* tryDebit()                                                              *)

\* find(): an unknown account is refused without further ado.
DebitUnknown(t, a) ==
    /\ trading
    /\ pc[t] = "idle"
    /\ a \notin DOMAIN balances
    /\ ret' = [ret EXCEPT ![t] = FALSE]
    /\ UNCHANGED <<trading, balances, pc, acct, amount, cur, history>>

\* Mutant: the result of find() is used without comparing it with end().
DebitCall_NoFind(t, a, x) ==
    /\ trading
    /\ pc[t] = "idle"
    /\ Enter(t, "debitLoad", a, x)

DebitCall(t, a, x) ==
    /\ trading
    /\ pc[t] = "idle"
    /\ a \in DOMAIN balances
    /\ Enter(t, "debitLoad", a, x)

DebitLoad(t) == Load(t, "debitLoad", "debitLoop")

DebitRefuse(t) ==
    /\ pc[t] = "debitLoop"
    /\ Lt(cur[t], amount[t])
    /\ ret' = [ret EXCEPT ![t] = FALSE]
    /\ Leave(t)
    /\ UNCHANGED <<trading, balances, history>>

\* Mutant: a lost race is a refusal.
DebitRetry_GivesUp(t) ==
    /\ pc[t] = "debitLoop"
    /\ ~Lt(cur[t], amount[t])
    /\ balances[acct[t]] # cur[t]
    /\ ret' = [ret EXCEPT ![t] = FALSE]
    /\ Leave(t)
    /\ UNCHANGED <<trading, balances, history>>

DebitRetry(t) ==
    /\ pc[t] = "debitLoop"
    /\ ~Lt(cur[t], amount[t])
    /\ CasFails(t)

\* What a granted debit leaves behind besides the new balance.
Granted(t) ==
    /\ ret'   = [ret EXCEPT ![t] = TRUE]
    /\ spent' = [spent EXCEPT ![acct[t]] =
                    IF amount[t] = NaN THEN @ ELSE @ + amount[t]]
    /\ Leave(t)
    /\ UNCHANGED <<trading, funded>>

\* Mutant: a plain store where the code has a compare-exchange.
DebitCas_PlainStore(t) ==
    /\ pc[t] = "debitLoop"
    /\ ~Lt(cur[t], amount[t])
    /\ balances' = [balances EXCEPT ![acct[t]] = Minus(cur[t], amount[t])]
    /\ Granted(t)

\* Mutant: the check is not repeated after a failed compare-exchange.
DebitCas_StaleCheck(t) ==
    /\ pc[t] = "debitLoop"
    /\ balances' = [balances EXCEPT ![acct[t]] = Minus(@, amount[t])]
    /\ Granted(t)

DebitCas(t) ==
    /\ pc[t] = "debitLoop"
    /\ ~Lt(cur[t], amount[t])
    /\ CasStores(t, Minus(cur[t], amount[t]))
    /\ Granted(t)

-----------------------------------------------------------------------------
(* credit() of an existing account                                         *)

CreditCall(t, a, x) ==
    /\ trading
    /\ pc[t] = "idle"
    /\ a \in DOMAIN balances
    /\ ~Lt(MaxFunds, Plus(funded[a], x))
    /\ Enter(t, "creditLoad", a, x)

CreditLoad(t) == Load(t, "creditLoad", "creditLoop")

CreditRetry(t) ==
    /\ pc[t] = "creditLoop"
    /\ CasFails(t)

CreditCas(t) ==
    /\ pc[t] = "creditLoop"
    /\ CasStores(t, Plus(cur[t], amount[t]))
    /\ funded' = [funded EXCEPT ![acct[t]] = Plus(@, amount[t])]
    /\ Leave(t)
    /\ UNCHANGED <<trading, ret, spent>>

-----------------------------------------------------------------------------
DebitStep(t)  == DebitLoad(t) \/ DebitRefuse(t) \/ DebitRetry(t) \/ DebitCas(t)
CreditStep(t) == CreditLoad(t) \/ CreditRetry(t) \/ CreditCas(t)

Next ==
    \/ StartTrading
    \/ \E a \in Accounts, x \in Amounts : Register(a, x) \/ SetBalance(a, x)
    \/ \E t \in Threads :
          \/ \E a \in Accounts : DebitUnknown(t, a)
          \/ \E a \in Accounts, x \in Amounts : DebitCall(t, a, x) \/ CreditCall(t, a, x)
          \/ DebitStep(t)
          \/ CreditStep(t)

Spec == Init /\ [][Next]_vars

-----------------------------------------------------------------------------
(* Properties                                                              *)

\* No lost update: through any interleaving of load/compare-exchange loops
\* and stores, a balance is exactly what was put into the account minus what
\* granted debits took out of it.
Conserved ==
    \A a \in DOMAIN balances : balances[a] = funded[a] - spent[a]

\* No double-spend: the debits tryDebit() has granted on an account never add
\* up to more than the account was funded with, however many threads tested
\* the same balance before any of them subtracted.
NoOverspend ==
    \A a \in DOMAIN balances : spent[a] <= funded[a]

\* The operation thread t has called and that has not taken effect yet.  A
\* debit that has read a balance below its amount is decided at that read: it
\* can only return false from there.
Decided(t) == pc[t] = "debitLoop" /\ Lt(cur[t], amount[t])

Pending(t) ==
    IF pc[t] = "idle" \/ Decided(t)
    THEN [kind |-> "none"]
    ELSE [kind    |-> IF pc[t] \in {"debitLoad", "debitLoop"} THEN "debit" ELSE "credit",
          account |-> acct[t],
          amount  |-> amount[t]]

Ledger == INSTANCE AccountLedger WITH
              balance <- balances,
              op      <- [t \in Threads |-> Pending(t)],
              granted <- [t \in Threads |-> ret[t] /\ ~Decided(t)]

\* Atomicity: the compare-exchange loops implement a ledger whose debits test
\* and subtract in one step ("check... and debit, as one step").
AtomicLedger == Ledger!Spec
=============================================================================
