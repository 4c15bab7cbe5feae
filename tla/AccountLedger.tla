---------------------------- MODULE AccountLedger ----------------------------
(***************************************************************************)
(* What AccountStore promises: balances on which every operation takes     *)
(* effect in ONE step, at some moment between its call and its return.     *)
(*                                                                         *)
(*   - a debit is granted iff the balance covers it at that moment, and    *)
(*     then reduces the balance by exactly the amount;                     *)
(*   - a credit always takes effect;                                       *)
(*   - accounts appear only before trading starts.                         *)
(***************************************************************************)
EXTENDS Doubles

CONSTANTS Threads, Accounts, Amounts

VARIABLES
    trading,    \* FALSE during the set-up phase
    balance,    \* account -> balance, for the registered accounts
    op,         \* thread  -> the call whose effect is still to come
    granted     \* thread  -> what its latest debit returned (or will return)

vars == <<trading, balance, op, granted>>

\* No call of the thread is waiting to take effect.
NoOp == [kind |-> "none"]
Op(kind, a, x) == [kind |-> kind, account |-> a, amount |-> x]

Init ==
    /\ trading = FALSE
    /\ balance = [a \in {} |-> 0]
    /\ op      = [t \in Threads |-> NoOp]
    /\ granted = [t \in Threads |-> FALSE]

\* A new account is opened, during set-up only.
Open(a, x) ==
    /\ ~trading
    /\ a \notin DOMAIN balance
    /\ balance' = [b \in DOMAIN balance \cup {a} |->
                        IF b = a THEN x ELSE balance[b]]
    /\ UNCHANGED <<trading, op, granted>>

StartTrading ==
    /\ trading' = TRUE
    /\ UNCHANGED <<balance, op, granted>>

\* The balance of an existing account is replaced.
Overwrite(a, x) ==
    /\ a \in DOMAIN balance
    /\ balance' = [balance EXCEPT ![a] = x]
    /\ UNCHANGED <<trading, op, granted>>

\* A debit of an unknown account is refused outright.
RefuseUnknown(t, a) ==
    /\ trading
    /\ op[t] = NoOp
    /\ a \notin DOMAIN balance
    /\ granted' = [granted EXCEPT ![t] = FALSE]
    /\ UNCHANGED <<trading, balance, op>>

Call(t, kind, a, x) ==
    /\ trading
    /\ op[t] = NoOp
    /\ a \in DOMAIN balance
    /\ op' = [op EXCEPT ![t] = Op(kind, a, x)]
    /\ UNCHANGED <<trading, balance, granted>>

\* The moment of decision: the test and the subtraction are one step.
Debit(t, a, x) ==
    /\ op[t] = Op("debit", a, x)
    /\ op' = [op EXCEPT ![t] = NoOp]
    /\ IF Lt(balance[a], x)
       THEN /\ granted' = [granted EXCEPT ![t] = FALSE]
            /\ UNCHANGED balance
       ELSE /\ granted' = [granted EXCEPT ![t] = TRUE]
            /\ balance' = [balance EXCEPT ![a] = Minus(@, x)]
    /\ UNCHANGED trading

Credit(t, a, x) ==
    /\ op[t] = Op("credit", a, x)
    /\ op' = [op EXCEPT ![t] = NoOp]
    /\ balance' = [balance EXCEPT ![a] = Plus(@, x)]
    /\ UNCHANGED <<trading, granted>>

Next ==
    \/ StartTrading
    \/ \E a \in Accounts, x \in Amounts : Open(a, x) \/ Overwrite(a, x)
    \/ \E t \in Threads, a \in Accounts :
          \/ RefuseUnknown(t, a)
          \/ \E x \in Amounts :
                \/ Call(t, "debit", a, x) \/ Debit(t, a, x)
                \/ Call(t, "credit", a, x) \/ Credit(t, a, x)

Spec == Init /\ [][Next]_vars
=============================================================================
