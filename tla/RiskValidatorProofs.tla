-------------------------- MODULE RiskValidatorProofs --------------------------
(***************************************************************************)
(* The store keeps its books and implements the ledger of atomic debits,   *)
(* for any number of threads and accounts, any set of finite amounts and   *)
(* any bound MaxFunds.                                                     *)
(*                                                                         *)
(* On it, concurrent validation is strictly serializable and spends no     *)
(* balance twice: for any number of workers, accounts, orders and          *)
(* workloads.  An order takes effect in one step: a refused debit at the   *)
(* load that brings back too small a balance, a granted one at its         *)
(* compare-exchange, any other order where validate() settles it.  The     *)
(* orders in the order of those steps are the sequential execution.        *)
(***************************************************************************)
EXTENDS RiskValidator, FoldTheorems, SequenceTheorems

-----------------------------------------------------------------------------
(* AccountStore                                                            *)

\* The invariant that is inductive: the books of every registered account
\* balance, in natural numbers.
Solvent ==
    /\ TypeOK
    /\ \A a \in DOMAIN balances : balances[a] \in Nat /\ funded[a] \in Nat
    /\ Conserved
    /\ NoOverspend

USE NaNAssumption, StoreAssumption

\* What the locals of an idle thread hold is an account and an amount.
LEMMA Defaults == NoAccount \in Accounts /\ NoAmount \in Amounts
  BY DEF NoAccount, NoAmount

\* Every amount is a double.
LEMMA AmountsAreDoubles == Amounts \subseteq Double
  BY DEF Double

\* The empty store is well typed.
LEMMA InitSound == Init => TypeOK
<1> SUFFICES ASSUME Init PROVE TypeOK
  OBVIOUS
<1>1. DOMAIN balances = {}
  BY DEF Init
<1>2. balances \in [DOMAIN balances -> Double]
  BY <1>1 DEF Init
<1>3. /\ pc \in [Threads -> Labels] /\ cur \in [Threads -> Double]
      /\ ret \in [Threads -> BOOLEAN]
      /\ acct \in [Threads -> Accounts] /\ amount \in [Threads -> Amounts]
      /\ funded \in [Accounts -> Double] /\ spent \in [Accounts -> Int]
  BY Defaults DEF Init, Labels, Double
<1> QED
  BY <1>1, <1>2, <1>3 DEF Init, TypeOK, InOperation

\* Each action keeps the types, and keeps running operations on registered
\* accounts (no account is ever removed from the map).
LEMMA NextSound == TypeOK /\ [Next]_vars => TypeOK'
  <1> SUFFICES ASSUME TypeOK, [Next]_vars
               PROVE  TypeOK'
    OBVIOUS
  <1> USE Defaults, AmountsAreDoubles DEF TypeOK, InOperation
  <1>1. CASE StartTrading
    BY <1>1 DEF StartTrading, locals, history
  <1>2. ASSUME NEW a \in Accounts, NEW x \in Amounts, Register(a, x)
        PROVE  TypeOK'
    BY <1>2 DEF Register, Fund, locals
  <1>3. ASSUME NEW a \in Accounts, NEW x \in Amounts, SetBalance(a, x)
        PROVE  TypeOK'
    BY <1>3 DEF SetBalance, Fund, locals
  <1>4. ASSUME NEW t \in Threads, NEW a \in Accounts, DebitUnknown(t, a)
        PROVE  TypeOK'
    BY <1>4 DEF DebitUnknown, history
  <1>5. ASSUME NEW t \in Threads, NEW a \in Accounts, NEW x \in Amounts,
               DebitCall(t, a, x) \/ CreditCall(t, a, x)
        PROVE  TypeOK'
    BY <1>5 DEF DebitCall, CreditCall, Enter, Labels, history
  <1>6. ASSUME NEW t \in Threads, DebitLoad(t) \/ CreditLoad(t)
        PROVE  TypeOK'
    BY <1>6 DEF DebitLoad, CreditLoad, Load, Labels, history
  <1>7. ASSUME NEW t \in Threads, DebitRefuse(t)
        PROVE  TypeOK'
    BY <1>7 DEF DebitRefuse, Leave, Labels, Double, history
  <1>8. ASSUME NEW t \in Threads, DebitRetry(t) \/ CreditRetry(t)
        PROVE  TypeOK'
    BY <1>8 DEF DebitRetry, CreditRetry, CasFails, history
  <1>9. ASSUME NEW t \in Threads, DebitCas(t)
        PROVE  TypeOK'
    BY <1>9 DEF DebitCas, CasStores, Granted, Leave, Minus, Labels, Double, history
  <1>10. ASSUME NEW t \in Threads, CreditCas(t)
        PROVE  TypeOK'
    BY <1>10 DEF CreditCas, CasStores, Leave, Plus, Labels, Double, history
  <1>11. CASE UNCHANGED vars
    BY <1>11 DEF vars
  <1>12. QED
    BY <1>1, <1>2, <1>3, <1>4, <1>5, <1>6, <1>7, <1>8, <1>9, <1>10, <1>11
       DEF Next, DebitStep, CreditStep

\* Type correctness of setBalance(), tryDebit() and credit(), for every
\* amount, NaN included.
THEOREM TypeCorrect == Spec => []TypeOK
  BY InitSound, NextSound, PTL DEF Spec

-----------------------------------------------------------------------------
(* Solvency: the books balance and no account is overspent.                *)

\* The books of the empty store balance.
LEMMA InitSolvent == Init => Solvent
<1> SUFFICES ASSUME Init PROVE Solvent
  OBVIOUS
<1>1. DOMAIN balances = {}
  BY DEF Init
<1> QED
  BY <1>1, InitSound DEF Solvent, Conserved, NoOverspend

\* Each action keeps the books: the compare-exchanges because the balance
\* they replace is the one they have tested (or added to).
LEMMA NextSolvent ==
  ASSUME NaN \notin Amounts, Solvent, [Next]_vars
  PROVE  Solvent'
  <1>0. TypeOK'
    BY NextSound DEF Solvent
  <1> DEFINE Books == \A a \in DOMAIN balances :
                         /\ balances[a] \in Nat /\ funded[a] \in Nat
                         /\ balances[a] = funded[a] - spent[a]
                         /\ spent[a] <= funded[a]
  <1> SUFFICES Books'
    BY <1>0 DEF Solvent, Conserved, NoOverspend
  <1>b. Books /\ TypeOK
    BY DEF Solvent, Conserved, NoOverspend
  <1>n. Amounts \subseteq Nat
    OBVIOUS
  <1> USE <1>b, <1>n DEF TypeOK, InOperation
  <1>1. CASE StartTrading
    BY <1>1 DEF StartTrading, history
  <1>2. ASSUME NEW a \in Accounts, NEW x \in Amounts, Register(a, x) \/ SetBalance(a, x)
        PROVE  Books'
    BY <1>2 DEF Register, SetBalance, Fund
  <1>3. ASSUME NEW t \in Threads, NEW a \in Accounts, DebitUnknown(t, a)
        PROVE  Books'
    BY <1>3 DEF DebitUnknown, history
  <1>4. ASSUME NEW t \in Threads, NEW a \in Accounts, NEW x \in Amounts,
               DebitCall(t, a, x) \/ CreditCall(t, a, x)
        PROVE  Books'
    BY <1>4 DEF DebitCall, CreditCall, Enter, history
  <1>5. ASSUME NEW t \in Threads,
               \/ DebitLoad(t) \/ CreditLoad(t) \/ DebitRefuse(t)
               \/ DebitRetry(t) \/ CreditRetry(t)
        PROVE  Books'
    BY <1>5 DEF DebitLoad, CreditLoad, Load, DebitRefuse, DebitRetry, CreditRetry,
                CasFails, history
  \* The heart: at the compare-exchange the balance still is the value that
  \* was found sufficient.
  <1>6. ASSUME NEW t \in Threads, DebitCas(t)
        PROVE  Books'
    <2>1. /\ acct[t] \in DOMAIN balances /\ amount[t] \in Nat
          /\ balances[acct[t]] = cur[t] /\ cur[t] \in Nat
      BY <1>6 DEF DebitCas, CasStores
    <2>2. amount[t] <= cur[t]
      BY <1>6, <2>1 DEF DebitCas, Lt
    <2>a. amount[t] # NaN /\ cur[t] # NaN
      BY <2>1
    <2>b. Minus(cur[t], amount[t]) = cur[t] - amount[t]
      BY <2>a DEF Minus
    <2>3. /\ balances' = [balances EXCEPT ![acct[t]] = cur[t] - amount[t]]
          /\ spent' = [spent EXCEPT ![acct[t]] = @ + amount[t]]
          /\ funded' = funded
      BY <1>6, <2>a, <2>b DEF DebitCas, CasStores, Granted
    <2> QED
      BY <2>1, <2>2, <2>3
  <1>7. ASSUME NEW t \in Threads, CreditCas(t)
        PROVE  Books'
    <2>1. /\ acct[t] \in DOMAIN balances /\ amount[t] \in Nat
          /\ balances[acct[t]] = cur[t] /\ cur[t] \in Nat
          /\ funded[acct[t]] \in Nat
      BY <1>7 DEF CreditCas, CasStores
    <2>a. amount[t] # NaN /\ cur[t] # NaN /\ funded[acct[t]] # NaN
      BY <2>1
    <2>b. /\ Plus(cur[t], amount[t]) = cur[t] + amount[t]
          /\ Plus(funded[acct[t]], amount[t]) = funded[acct[t]] + amount[t]
      BY <2>a DEF Plus
    <2>2. /\ balances' = [balances EXCEPT ![acct[t]] = cur[t] + amount[t]]
          /\ funded' = [funded EXCEPT ![acct[t]] = @ + amount[t]]
          /\ spent' = spent
      BY <1>7, <2>b DEF CreditCas, CasStores
    <2> QED
      BY <2>1, <2>2
  <1>8. CASE UNCHANGED vars
    BY <1>8 DEF vars
  <1>9. QED
    BY <1>1, <1>2, <1>3, <1>4, <1>5, <1>6, <1>7, <1>8 DEF Next, DebitStep, CreditStep

\* No update of a balance is ever lost, as long as no amount is NaN.
THEOREM StoreConserves ==
  ASSUME NaN \notin Amounts
  PROVE  Spec => []Conserved
<1>1. Solvent /\ [Next]_vars => Solvent'
  BY NextSolvent
<1>2. Solvent => Conserved
  BY DEF Solvent
<1> QED
  BY <1>1, <1>2, InitSolvent, PTL DEF Spec

\* No double-spend, for any number of threads racing on any number of
\* accounts, as long as no amount is NaN.
THEOREM StoreNeverOverspends ==
  ASSUME NaN \notin Amounts
  PROVE  Spec => []NoOverspend
<1>1. Solvent /\ [Next]_vars => Solvent'
  BY NextSolvent
<1>2. Solvent => NoOverspend
  BY DEF Solvent
<1> QED
  BY <1>1, <1>2, InitSolvent, PTL DEF Spec

-----------------------------------------------------------------------------
(* The compare-exchange loops implement the atomic ledger.                 *)

\* The mapped variables op and granted of AccountLedger.
OpOf      == [t \in Threads |-> Pending(t)]
GrantedOf == [t \in Threads |-> ret[t] /\ ~Decided(t)]

\* A step that touches the locals of t alone changes the mapped variables at
\* t alone.
LEMMA MappedLocally ==
  ASSUME NEW t \in Threads,
         \A u \in Threads \ {t} :
            /\ pc'[u] = pc[u] /\ acct'[u] = acct[u] /\ amount'[u] = amount[u]
            /\ cur'[u] = cur[u] /\ ret'[u] = ret[u]
  PROVE  /\ OpOf' = [OpOf EXCEPT ![t] = Pending(t)']
         /\ GrantedOf' = [GrantedOf EXCEPT ![t] = (ret'[t] /\ ~Decided(t)')]
<1>1. ASSUME NEW u \in Threads \ {t}
      PROVE  Pending(u)' = Pending(u) /\ (ret'[u] /\ ~Decided(u)') = (ret[u] /\ ~Decided(u))
  BY <1>1 DEF Pending, Decided
<1>2. QED
  BY <1>1 DEF OpOf, GrantedOf

\* A debit takes effect, as a refusal, when it reads a balance below its
\* amount; reading a sufficient balance leaves it pending.
LEMMA ReadMaps ==
  ASSUME TypeOK, NEW t \in Threads,
         NEW a \in Accounts, NEW x \in Amounts, acct[t] = a, amount[t] = x,
         pc[t] \in {"debitLoad", "debitLoop"}, ~Decided(t),
         pc' = [pc EXCEPT ![t] = "debitLoop"],
         cur' = [cur EXCEPT ![t] = balances[acct[t]]],
         UNCHANGED <<trading, balances, acct, amount, ret>>
  PROVE  Ledger!Debit(t, a, x) \/ UNCHANGED Ledger!vars
<1>1. /\ OpOf' = [OpOf EXCEPT ![t] = Pending(t)']
      /\ GrantedOf' = [GrantedOf EXCEPT ![t] = (ret'[t] /\ ~Decided(t)')]
  BY MappedLocally DEF TypeOK
<1>2. Pending(t) = Ledger!Op("debit", a, x)
  BY DEF Pending, Ledger!Op
<1>3. Decided(t)' <=> Lt(balances[a], x)
  BY DEF Decided, TypeOK
<1>4. CASE Lt(balances[a], x)
  <2>1. Pending(t)' = Ledger!NoOp /\ (ret'[t] /\ ~Decided(t)') = FALSE
    BY <1>3, <1>4 DEF Pending, Ledger!NoOp
  <2> QED
    BY <1>1, <1>2, <1>4, <2>1 DEF Ledger!Debit, Ledger!Lt, Lt, OpOf, GrantedOf
<1>5. CASE ~Lt(balances[a], x)
  <2>1. Pending(t)' = Pending(t)
    BY <1>3, <1>5 DEF Pending, TypeOK
  <2>2. (ret'[t] /\ ~Decided(t)') = (ret[t] /\ ~Decided(t))
    BY <1>3, <1>5
  <2>3. OpOf' = OpOf /\ GrantedOf' = GrantedOf
    BY <1>1, <2>1, <2>2 DEF OpOf, GrantedOf
  <2> QED
    BY <2>3 DEF Ledger!vars, OpOf, GrantedOf
<1> QED
  BY <1>4, <1>5

\* The empty store is the empty ledger.
LEMMA InitMaps == Init => Ledger!Init
  BY DEF Init, Ledger!Init, Ledger!NoOp, Pending, Decided

\* Every step of the store is one of the ledger, or none: a granted debit takes
\* effect at its compare-exchange, a refused one at the read that decides it.
LEMMA NextMaps ==
  ASSUME TypeOK, [Next]_vars
  PROVE  [Ledger!Next]_(Ledger!vars)
<1>1. CASE StartTrading
  <2>1. OpOf' = OpOf /\ GrantedOf' = GrantedOf
    BY <1>1 DEF StartTrading, locals, OpOf, GrantedOf, Pending, Decided
  <2> QED
    BY <1>1, <2>1 DEF StartTrading, Ledger!Next, Ledger!StartTrading, OpOf, GrantedOf
<1>2. ASSUME NEW a \in Accounts, NEW x \in Amounts, Register(a, x) \/ SetBalance(a, x)
      PROVE  Ledger!Next
  <2>1. OpOf' = OpOf /\ GrantedOf' = GrantedOf
    BY <1>2 DEF Register, SetBalance, locals, OpOf, GrantedOf, Pending, Decided
  <2>2. Ledger!Open(a, x) \/ Ledger!Overwrite(a, x)
    BY <1>2, <2>1 DEF Register, SetBalance, Ledger!Open, Ledger!Overwrite, OpOf, GrantedOf
  <2> QED
    BY <2>2 DEF Ledger!Next
<1>3. ASSUME NEW t \in Threads, NEW a \in Accounts, DebitUnknown(t, a)
      PROVE  Ledger!Next
  <2>1. /\ OpOf' = [OpOf EXCEPT ![t] = Pending(t)']
        /\ GrantedOf' = [GrantedOf EXCEPT ![t] = (ret'[t] /\ ~Decided(t)')]
    BY <1>3, MappedLocally DEF DebitUnknown, TypeOK
  <2>2. Pending(t) = Ledger!NoOp /\ Pending(t)' = Ledger!NoOp /\ ret'[t] = FALSE
    BY <1>3 DEF DebitUnknown, Pending, Ledger!NoOp, TypeOK
  <2>3. OpOf' = OpOf /\ GrantedOf' = [GrantedOf EXCEPT ![t] = FALSE]
    BY <2>1, <2>2 DEF OpOf
  <2>4. Ledger!RefuseUnknown(t, a)
    BY <1>3, <2>2, <2>3 DEF DebitUnknown, Ledger!RefuseUnknown, OpOf, GrantedOf
  <2> QED
    BY <2>4 DEF Ledger!Next
<1>4. ASSUME NEW t \in Threads, NEW a \in Accounts, NEW x \in Amounts,
             DebitCall(t, a, x) \/ CreditCall(t, a, x)
      PROVE  Ledger!Next
  <2>1. /\ OpOf' = [OpOf EXCEPT ![t] = Pending(t)']
        /\ GrantedOf' = [GrantedOf EXCEPT ![t] = (ret'[t] /\ ~Decided(t)')]
    BY <1>4, MappedLocally DEF DebitCall, CreditCall, Enter, TypeOK
  <2>2. Pending(t) = Ledger!NoOp /\ ~Decided(t) /\ ~Decided(t)' /\ ret'[t] = ret[t]
    BY <1>4 DEF DebitCall, CreditCall, Enter, Pending, Decided, Ledger!NoOp, TypeOK
  <2>3. \/ Pending(t)' = Ledger!Op("debit", a, x)
        \/ Pending(t)' = Ledger!Op("credit", a, x)
    BY <1>4, <2>2 DEF DebitCall, CreditCall, Enter, Pending, Ledger!Op, TypeOK
  <2>4. GrantedOf' = GrantedOf
    BY <2>1, <2>2 DEF GrantedOf
  <2>5. Ledger!Call(t, "debit", a, x) \/ Ledger!Call(t, "credit", a, x)
    BY <1>4, <2>1, <2>2, <2>3, <2>4
       DEF DebitCall, CreditCall, Enter, Ledger!Call, OpOf, GrantedOf
  <2> QED
    BY <2>5 DEF Ledger!Next
<1>5. ASSUME NEW t \in Threads, DebitLoad(t) \/ DebitRetry(t)
      PROVE  Ledger!Next \/ UNCHANGED Ledger!vars
  <2>1. ~Decided(t) /\ pc[t] \in {"debitLoad", "debitLoop"}
    BY <1>5 DEF DebitLoad, Load, DebitRetry, Decided
  <2>2. /\ pc' = [pc EXCEPT ![t] = "debitLoop"]
        /\ cur' = [cur EXCEPT ![t] = balances[acct[t]]]
        /\ UNCHANGED <<trading, balances, acct, amount, ret>>
    BY <1>5 DEF DebitLoad, Load, DebitRetry, CasFails, TypeOK
  <2>3. PICK a \in Accounts, x \in Amounts : acct[t] = a /\ amount[t] = x
    BY DEF TypeOK
  <2>4. Ledger!Debit(t, a, x) \/ UNCHANGED Ledger!vars
    BY <2>1, <2>2, <2>3, ReadMaps
  <2> QED
    BY <2>4 DEF Ledger!Next
<1>6. ASSUME NEW t \in Threads, DebitRefuse(t) \/ CreditLoad(t) \/ CreditRetry(t)
      PROVE  UNCHANGED Ledger!vars
  <2>1. /\ OpOf' = [OpOf EXCEPT ![t] = Pending(t)']
        /\ GrantedOf' = [GrantedOf EXCEPT ![t] = (ret'[t] /\ ~Decided(t)')]
    BY <1>6, MappedLocally
       DEF DebitRefuse, Leave, CreditLoad, Load, CreditRetry, CasFails, TypeOK
  <2>2. CASE DebitRefuse(t)
    <3>1. Decided(t) /\ ret'[t] = FALSE /\ pc'[t] = "idle"
      BY <2>2 DEF DebitRefuse, Leave, Decided, TypeOK
    <3>2. Pending(t)' = Pending(t)
      BY <3>1 DEF Pending
    <3>3. (ret'[t] /\ ~Decided(t)') = (ret[t] /\ ~Decided(t))
      BY <3>1
    <3> QED
      BY <2>1, <2>2, <3>2, <3>3 DEF DebitRefuse, Ledger!vars, OpOf, GrantedOf
  <2>3. CASE CreditLoad(t) \/ CreditRetry(t)
    <3>1. /\ pc[t] \in {"creditLoad", "creditLoop"} /\ pc'[t] = "creditLoop"
          /\ acct' = acct /\ amount' = amount /\ ret' = ret
      BY <2>3 DEF CreditLoad, Load, CreditRetry, CasFails, TypeOK
    <3>2. ~Decided(t) /\ ~Decided(t)'
      BY <3>1 DEF Decided
    <3>3. Pending(t)' = Pending(t)
      BY <3>1, <3>2 DEF Pending
    <3>4. (ret'[t] /\ ~Decided(t)') = (ret[t] /\ ~Decided(t))
      BY <3>1, <3>2
    <3>5. OpOf' = OpOf /\ GrantedOf' = GrantedOf
      BY <2>1, <3>3, <3>4 DEF OpOf, GrantedOf
    <3> QED
      BY <2>3, <3>5
         DEF CreditLoad, Load, CreditRetry, CasFails, Ledger!vars, OpOf, GrantedOf
  <2> QED
    BY <1>6, <2>2, <2>3
<1>7. ASSUME NEW t \in Threads, DebitCas(t) \/ CreditCas(t)
      PROVE  Ledger!Next
  <2>1. /\ OpOf' = [OpOf EXCEPT ![t] = Pending(t)']
        /\ GrantedOf' = [GrantedOf EXCEPT ![t] = (ret'[t] /\ ~Decided(t)')]
    BY <1>7, MappedLocally
       DEF DebitCas, CreditCas, CasStores, Granted, Leave, TypeOK
  <2>2. pc'[t] = "idle"
    BY <1>7 DEF DebitCas, CreditCas, Granted, Leave, TypeOK
  <2>3. Pending(t)' = Ledger!NoOp /\ ~Decided(t) /\ ~Decided(t)'
    BY <1>7, <2>2 DEF DebitCas, CreditCas, Pending, Decided, Ledger!NoOp
  <2>4. PICK a \in Accounts, x \in Amounts : acct[t] = a /\ amount[t] = x
    BY DEF TypeOK
  <2>5. CASE DebitCas(t)
    <3>1. Pending(t) = Ledger!Op("debit", a, x)
      BY <2>3, <2>4, <2>5 DEF DebitCas, Pending, Ledger!Op
    <3>2. (ret'[t] /\ ~Decided(t)') = TRUE
      BY <2>3, <2>5 DEF DebitCas, Granted, TypeOK
    <3>3. /\ ~Ledger!Lt(balances[a], x)
          /\ balances' = [balances EXCEPT ![a] =
                                Ledger!Minus(balances[a], x)]
          /\ trading' = trading
      BY <2>4, <2>5 DEF DebitCas, CasStores, Granted, Ledger!Lt, Lt, Ledger!Minus, Minus
    <3>4. Ledger!Debit(t, a, x)
      BY <2>1, <2>3, <3>1, <3>2, <3>3 DEF Ledger!Debit, OpOf, GrantedOf
    <3> QED
      BY <3>4 DEF Ledger!Next
  <2>6. CASE CreditCas(t)
    <3>1. Pending(t) = Ledger!Op("credit", a, x)
      BY <2>3, <2>4, <2>6 DEF CreditCas, Pending, Ledger!Op
    <3>2. (ret'[t] /\ ~Decided(t)') = (ret[t] /\ ~Decided(t))
      BY <2>3, <2>6 DEF CreditCas
    <3>3. GrantedOf' = GrantedOf
      BY <2>1, <3>2 DEF GrantedOf
    <3>4. /\ balances' = [balances EXCEPT ![a] =
                                Ledger!Plus(balances[a], x)]
          /\ trading' = trading
      BY <2>4, <2>6 DEF CreditCas, CasStores, Ledger!Plus, Plus
    <3>5. Ledger!Credit(t, a, x)
      BY <2>1, <2>3, <3>1, <3>3, <3>4 DEF Ledger!Credit, OpOf, GrantedOf
    <3> QED
      BY <3>5 DEF Ledger!Next
  <2> QED
    BY <1>7, <2>5, <2>6
<1>8. CASE UNCHANGED vars
  BY <1>8 DEF vars, Ledger!vars, Pending, Decided
<1> QED
  BY <1>1, <1>2, <1>3, <1>4, <1>5, <1>6, <1>7, <1>8 DEF Next, DebitStep, CreditStep

\* tryDebit()'s check-and-debit is one atomic step, and so are credit() and
\* setBalance(): every behaviour of the store is one of the ledger.
THEOREM StoreImplementsLedger == Spec => AtomicLedger
<1>1. TypeOK /\ [Next]_vars => [Ledger!Next]_(Ledger!vars)
  BY NextMaps
<1> QED
  BY <1>1, InitMaps, InitSound, NextSound, PTL DEF Spec, AtomicLedger, Ledger!Spec

-----------------------------------------------------------------------------
(* RiskValidator: the inductive invariant                                  *)

Reasons  == {"", "zero_quantity", "invalid_price", "unknown_symbol", "insufficient_balance"}
Verdicts == [order : Nat, accepted : BOOLEAN, reason : Reasons]

RiskTypeOK ==
    /\ TypeOK
    /\ trading = TRUE
    /\ DOMAIN balances = DOMAIN Start
    /\ orders    \in Workloads
    /\ submitted \in Nat /\ submitted <= Len(orders)
    /\ taken     \in Nat /\ taken <= submitted
    /\ vpc       \in [Threads -> {"idle", "validate", "debit", "collect"}]
    /\ current   \in [Threads -> Nat]
    /\ verdict   \in [Threads -> Verdicts]
    /\ results   \in Seq(Verdicts)

\* An order that was taken is with one worker or in the results, once.
Single ==
    /\ \A t \in Threads : /\ vpc[t] = "idle" <=> current[t] = 0
                          /\ current[t] <= taken
                          /\ current[t] \notin Collected
    /\ \A t, u \in Threads : t # u /\ current[t] = current[u] => current[t] = 0
    /\ \A k, l \in DOMAIN results : results[k].order = results[l].order => k = l
    /\ \A i \in Collected : i \in 1 .. taken
    /\ \A p \in precedes : \E i \in Collected, j \in 1 .. taken : p = <<i, j>>

\* What a worker's arguments and verdict have to do with its order.
Faithful ==
    \A t \in Threads :
        /\ pc[t] # "idle" => /\ pc[t] \in {"debitLoad", "debitLoop"}
                             /\ vpc[t] = "debit"
                             /\ acct[t] = orders[current[t]].accountId
                             /\ amount[t] = Cost(orders[current[t]])
        /\ vpc[t] = "debit" => /\ EarlyReason(orders[current[t]]) = ""
                               /\ orders[current[t]].side = "BUY"
        /\ vpc[t] = "collect" => verdict[t].order = current[t]

Handled == RiskTypeOK /\ Single /\ Faithful

\* The orders that have taken effect, and those that were granted.
Settled(t)  == vpc[t] = "collect" \/ (vpc[t] = "debit" /\ (pc[t] = "idle" \/ Decided(t)))
Approved(t) == \/ vpc[t] = "collect" /\ verdict[t].accepted
               \/ vpc[t] = "debit" /\ pc[t] = "idle" /\ ret[t]

Effective == Collected \cup {current[t] : t \in {u \in Threads : Settled(u)}}
Granting  == Accepted \cup {current[t] : t \in {u \in Threads : Approved(u)}}

\* The sequential execution so far.
Explains(lin) ==
    /\ \A k, l \in DOMAIN lin : lin[k] = lin[l] => k = l
    /\ \A i : i \in Effective <=> \E k \in DOMAIN lin : lin[k] = i
    /\ \A k, l \in DOMAIN lin : k < l => <<lin[l], lin[k]>> \notin precedes
    /\ Baseline(lin) = [balance |-> balances, accepted |-> Granting]

Explained == \E lin \in Seq(DOMAIN orders) : Explains(lin)

\* The books of the engine: an account was debited what its granted orders cost.
Costs == [i \in DOMAIN orders |-> Cost(orders[i])]
Bought(a) == {i \in Granting : orders[i].side = "BUY" /\ orders[i].accountId = a}

Booked ==
    /\ \A i \in Granting : EarlyReason(orders[i]) = ""
    /\ \A a \in DOMAIN Start : funded[a] = Start[a] /\ spent[a] = Total(Costs, Bought(a))

USE NaNAssumption, StoreAssumption, RiskAssumption

-----------------------------------------------------------------------------
(* Operators                                                               *)

\* The workload is a sequence of orders.
LEMMA Shape ==
    ASSUME NEW w \in Workloads
    PROVE  /\ w \in Seq(Order) /\ Len(w) \in Nat /\ DOMAIN w = 1 .. Len(w)
           /\ \A i \in DOMAIN w : w[i] \in Order
  OBVIOUS

\* A worker with a job has one of the orders main() submitted.
LEMMA InHand ==
    ASSUME Handled, NEW t \in Threads, vpc[t] # "idle"
    PROVE  /\ current[t] \in 1 .. taken /\ current[t] \in DOMAIN orders
           /\ orders[current[t]] \in Order
           /\ orders[current[t]].accountId \in Accounts
           /\ orders[current[t]].side \in {"BUY", "SELL"}
<1>1. orders \in Workloads /\ current[t] \in Nat /\ taken \in Nat /\ submitted \in Nat
      /\ taken <= submitted /\ submitted <= Len(orders)
  BY DEF Handled, RiskTypeOK
<1>2. current[t] # 0 /\ current[t] <= taken
  BY DEF Handled, Single
<1>3. DOMAIN orders = 1 .. Len(orders) /\ Len(orders) \in Nat
  BY <1>1, Shape
<1>4. current[t] \in 1 .. taken /\ current[t] \in DOMAIN orders
  BY <1>1, <1>2, <1>3
<1>5. orders[current[t]] \in Order
  BY <1>1, <1>4, Shape
<1> QED
  BY <1>4, <1>5 DEF Order

\* What a BUY order that passed the early tests costs is an amount.
LEMMA CostIsAmount ==
    ASSUME NEW w \in Workloads, NEW i \in DOMAIN w, EarlyReason(w[i]) = "", w[i].side = "BUY"
    PROVE  Cost(w[i]) \in Amounts
<1>1. ~Leq(w[i].price, 0)
  BY DEF EarlyReason
<1> QED
  BY <1>1

\* What a worker without an order has for a verdict.
LEMMA EmptyVerdict == NoVerdict \in Verdicts
<1>1. FALSE \in BOOLEAN /\ 0 \in Nat /\ "" \in Reasons
  BY DEF Reasons
<1> QED
  BY <1>1 DEF NoVerdict, Result, Verdicts

\* Appending a verdict to the results.
LEMMA Appended ==
    ASSUME NEW rs \in Seq(Verdicts), NEW v \in Verdicts
    PROVE  /\ Append(rs, v) \in Seq(Verdicts)
           /\ {Append(rs, v)[k].order : k \in DOMAIN Append(rs, v)} =
                 {rs[k].order : k \in DOMAIN rs} \cup {v.order}
           /\ {Append(rs, v)[k].order : k \in {n \in DOMAIN Append(rs, v) : Append(rs, v)[n].accepted}} =
                 {rs[k].order : k \in {n \in DOMAIN rs : rs[n].accepted}}
                    \cup (IF v.accepted THEN {v.order} ELSE {})
<1> DEFINE n == Len(rs)
           q == Append(rs, v)
<1>1. /\ n \in Nat /\ DOMAIN rs = 1 .. n /\ q \in Seq(Verdicts) /\ DOMAIN q = 1 .. n + 1
      /\ q[n + 1] = v /\ \A k \in 1 .. n : q[k] = rs[k]
  OBVIOUS
<1>2. 1 .. n + 1 = 1 .. n \cup {n + 1} /\ n + 1 \notin 1 .. n
  BY <1>1
<1> HIDE DEF n, q
<1>3. {q[k].order : k \in DOMAIN q} = {rs[k].order : k \in DOMAIN rs} \cup {v.order}
  BY <1>1, <1>2
<1>4. {k \in DOMAIN q : q[k].accepted} =
         {k \in DOMAIN rs : rs[k].accepted} \cup (IF v.accepted THEN {n + 1} ELSE {})
  BY <1>1, <1>2
<1>5. \A k \in {m \in DOMAIN rs : rs[m].accepted} : q[k] = rs[k]
  BY <1>1
<1>6. {q[k].order : k \in {m \in DOMAIN q : q[m].accepted}} =
         {rs[k].order : k \in {m \in DOMAIN rs : rs[m].accepted}}
            \cup (IF v.accepted THEN {v.order} ELSE {})
  <2>1. CASE v.accepted
    BY <2>1, <1>1, <1>4, <1>5
  <2>2. CASE ~v.accepted
    BY <2>2, <1>1, <1>4, <1>5
  <2> QED
    BY <2>1, <2>2
<1> QED
  BY <1>1, <1>3, <1>6 DEF q

-----------------------------------------------------------------------------
(* The engine uses the store as its own specification allows.              *)

\* No worker uses AccountStore in a way its own specification lacks.
LEMMA RiskUsesStore ==
    ASSUME Handled, [RiskNext]_engineVars
    PROVE  [Next]_vars
<1>1. CASE Submit
  BY <1>1 DEF Submit
<1>2. ASSUME NEW t \in Threads, WorkerStep(t)
      PROVE  [Next]_vars
  <2>1. CASE Take(t)
    BY <2>1 DEF Take
  <2>2. CASE RejectEarly(t)
    BY <2>2 DEF RejectEarly, Decide
  <2>3. CASE AcceptSell(t)
    BY <2>3 DEF AcceptSell, Decide
  <2>4. CASE BuyCall(t)
    <3>1. vpc[t] # "idle" /\ EarlyReason(orders[current[t]]) = "" /\ orders[current[t]].side = "BUY"
      BY <2>4 DEF BuyCall
    <3>2. orders \in Workloads
      BY DEF Handled, RiskTypeOK
    <3>3. current[t] \in DOMAIN orders /\ orders[current[t]].accountId \in Accounts
      BY <3>1, InHand
    <3>4. Cost(orders[current[t]]) \in Amounts
      BY <3>1, <3>2, <3>3, CostIsAmount
    <3>5. \/ DebitCall(t, orders[current[t]].accountId, Cost(orders[current[t]]))
          \/ DebitUnknown(t, orders[current[t]].accountId)
      BY <2>4 DEF BuyCall
    <3>6. CASE DebitCall(t, orders[current[t]].accountId, Cost(orders[current[t]]))
      BY <3>3, <3>4, <3>6 DEF Next
    <3>7. CASE DebitUnknown(t, orders[current[t]].accountId)
      BY <3>3, <3>7 DEF Next
    <3> QED
      BY <3>5, <3>6, <3>7
  <2>5. CASE StoreStep(t)
    BY <2>5 DEF StoreStep, Next
  <2>6. CASE BuyReturn(t)
    BY <2>6 DEF BuyReturn, Decide
  <2>7. CASE Collect(t)
    BY <2>7 DEF Collect
  <2> QED
    BY <1>2, <2>1, <2>2, <2>3, <2>4, <2>5, <2>6, <2>7 DEF WorkerStep
<1>3. CASE UNCHANGED engineVars
  BY <1>3 DEF engineVars
<1> QED
  BY <1>1, <1>2, <1>3 DEF RiskNext

\* The engine starts from a store that is well typed and in balance.
LEMMA RiskInitStore == RiskInit => Solvent
<1> SUFFICES ASSUME RiskInit PROVE Solvent
  OBVIOUS
<1>1. NoAccount \in Accounts /\ NoAmount \in Amounts
  BY Defaults
<1>2. DOMAIN Start \subseteq Accounts /\ \A a \in DOMAIN Start : Start[a] \in Nat
  OBVIOUS
<1>3. balances = Start /\ balances \in [DOMAIN balances -> Double]
  <2>1. balances = Start
    BY DEF RiskInit
  <2>2. Start \in [DOMAIN Start -> Double]
    BY DEF Double
  <2> QED
    BY <2>1, <2>2
<1>4. \A a \in Accounts : funded[a] = (IF a \in DOMAIN Start THEN Start[a] ELSE 0) /\ spent[a] = 0
  BY DEF RiskInit
<1>5. TypeOK
  <2>1. trading \in BOOLEAN
    BY DEF RiskInit
  <2>2. funded \in [Accounts -> Double] /\ spent \in [Accounts -> Int]
    BY <1>2 DEF RiskInit, Double
  <2>3. /\ pc \in [Threads -> Labels] /\ acct \in [Threads -> Accounts]
        /\ amount \in [Threads -> Amounts] /\ cur \in [Threads -> Double]
        /\ ret \in [Threads -> BOOLEAN]
    BY <1>1 DEF RiskInit, Labels, Double
  <2>4. InOperation
    BY DEF RiskInit, InOperation
  <2> QED
    BY <2>1, <2>2, <2>3, <2>4, <1>2, <1>3 DEF TypeOK
<1>6. \A a \in DOMAIN balances : balances[a] \in Nat /\ funded[a] = balances[a] /\ spent[a] = 0
  BY <1>2, <1>3, <1>4
<1> QED
  BY <1>5, <1>6 DEF Solvent, Conserved, NoOverspend

-----------------------------------------------------------------------------
(* Every order is in one place and validated as itself.                    *)

\* A store step of the engine: who moves, and what it leaves alone.
LEMMA StoreStepShape ==
    ASSUME Handled, NEW t \in Threads, StoreStep(t)
    PROVE  /\ pc[t] \in {"debitLoad", "debitLoop"} /\ vpc[t] = "debit"
           /\ trading' = trading /\ DOMAIN balances' = DOMAIN balances
           /\ UNCHANGED riskVars /\ funded' = funded
           /\ \A u \in Threads \ {t} : /\ pc'[u] = pc[u] /\ acct'[u] = acct[u]
                                       /\ amount'[u] = amount[u] /\ cur'[u] = cur[u]
                                       /\ ret'[u] = ret[u]
           /\ pc'[t] = "idle" \/ (pc'[t] = "debitLoop" /\ acct'[t] = acct[t] /\ amount'[t] = amount[t])
<1>1. TypeOK /\ Faithful
  BY DEF Handled, RiskTypeOK
<1>2. DebitStep(t) /\ UNCHANGED riskVars
  BY DEF StoreStep
<1>3. CASE DebitLoad(t)
  BY <1>1, <1>2, <1>3 DEF DebitLoad, Load, history, TypeOK, Faithful
<1>4. CASE DebitRefuse(t)
  BY <1>1, <1>2, <1>4 DEF DebitRefuse, Leave, history, TypeOK, Faithful
<1>5. CASE DebitRetry(t)
  BY <1>1, <1>2, <1>5 DEF DebitRetry, CasFails, history, TypeOK, Faithful
<1>6. CASE DebitCas(t)
  BY <1>1, <1>2, <1>6 DEF DebitCas, CasStores, Granted, Leave, history, TypeOK, Faithful
<1> QED
  BY <1>2, <1>3, <1>4, <1>5, <1>6 DEF DebitStep

\* Handled is inductive.  The engine hands a batch to the pool:
LEMMA SubmitHandled ==
    ASSUME Handled, Submit
    PROVE  Handled'
<1>1. TypeOK'
  BY RiskUsesStore, NextSound DEF RiskNext, Handled, RiskTypeOK
<1>2. Collected' = Collected
  BY DEF Submit, Collected
<1>3. orders \in Workloads /\ Len(orders) \in Nat
  BY Shape DEF Handled, RiskTypeOK
<1>4. RiskTypeOK'
  BY <1>1, <1>3 DEF Handled, RiskTypeOK, Submit, vars
<1>5. Single'
  BY <1>2 DEF Handled, Single, Submit
<1>6. Faithful'
  BY DEF Handled, Faithful, Submit, vars
<1> QED
  BY <1>4, <1>5, <1>6 DEF Handled

\* a worker takes an order nobody else has:
LEMMA TakeHandled ==
    ASSUME Handled, NEW t \in Threads, Take(t)
    PROVE  Handled'
<1>1. TypeOK'
  BY RiskUsesStore, NextSound DEF RiskNext, WorkerStep, Handled, RiskTypeOK
<1>2. Collected' = Collected
  BY DEF Take, Collected
<1>3. /\ orders' = orders /\ submitted' = submitted /\ taken' = taken + 1 /\ taken < submitted
      /\ taken \in Nat /\ submitted \in Nat
      /\ vpc' = [vpc EXCEPT ![t] = "validate"] /\ current' = [current EXCEPT ![t] = taken + 1]
      /\ vpc[t] = "idle" /\ verdict' = verdict /\ results' = results
      /\ precedes' = precedes \cup (Collected \X {taken + 1})
      /\ UNCHANGED vars
  BY DEF Take, Handled, RiskTypeOK
<1>4. RiskTypeOK'
  BY <1>1, <1>3 DEF Handled, RiskTypeOK, vars
<1>5. Single'
  <2>0. /\ current \in [Threads -> Nat] /\ vpc \in [Threads -> {"idle", "validate", "debit", "collect"}]
        /\ Single
    BY DEF Handled, RiskTypeOK
  <2>1. ASSUME NEW u \in Threads
        PROVE  /\ vpc'[u] = "idle" <=> current'[u] = 0
               /\ current'[u] <= taken'
               /\ current'[u] \notin Collected'
    <3>1. current[u] \in Nat /\ (vpc[u] = "idle" <=> current[u] = 0) /\ current[u] <= taken
          /\ current[u] \notin Collected
      BY <2>0 DEF Single
    <3>2. taken + 1 \notin Collected
      <4>1. taken + 1 \notin 1 .. taken
        BY <1>3
      <4> QED
        BY <2>0, <4>1 DEF Single
    <3>3. CASE u = t
      BY <3>3, <3>2, <2>0, <1>2, <1>3
    <3>4. CASE u # t
      BY <3>4, <3>1, <2>0, <1>2, <1>3
    <3> QED
      BY <3>3, <3>4
  <2>2. ASSUME NEW u \in Threads, NEW v \in Threads, u # v, current'[u] = current'[v]
        PROVE  current'[u] = 0
    <3>1. current[u] <= taken /\ current[v] <= taken /\ current[u] \in Nat /\ current[v] \in Nat
      BY <2>0 DEF Single
    <3>2. u # t /\ v # t
      BY <2>2, <3>1, <2>0, <1>3
    <3>3. current'[u] = current[u] /\ current'[v] = current[v]
      BY <3>2, <2>0, <1>3
    <3> QED
      BY <3>3, <2>2, <2>0 DEF Single
  <2>3. \A i \in Collected' : i \in 1 .. taken'
    BY <1>2, <1>3, <2>0 DEF Single
  <2>4. ASSUME NEW p \in precedes' PROVE \E i \in Collected', j \in 1 .. taken' : p = <<i, j>>
    <3>1. CASE p \in precedes
      <4>1. PICK i \in Collected, j \in 1 .. taken : p = <<i, j>>
        BY <3>1, <2>0 DEF Single
      <4>2. j \in 1 .. taken'
        BY <1>3
      <4> QED
        BY <4>1, <4>2, <1>2
    <3>2. CASE p \in Collected \X {taken + 1}
      <4>1. taken + 1 \in 1 .. taken'
        BY <1>3
      <4> QED
        BY <3>2, <4>1, <1>2
    <3> QED
      BY <3>1, <3>2, <1>3
  <2>5. \A k, l \in DOMAIN results' : results'[k].order = results'[l].order => k = l
    BY <1>3, <2>0 DEF Single
  <2> QED
    BY <2>1, <2>2, <2>3, <2>4, <2>5 DEF Single
<1>6. Faithful'
  BY <1>3 DEF Handled, RiskTypeOK, Faithful, vars
<1> QED
  BY <1>4, <1>5, <1>6 DEF Handled

\* validate() settles an order outside the store.
LEMMA DecideHandled ==
    ASSUME Handled, NEW t \in Threads, vpc[t] \in {"validate", "debit"}, pc[t] = "idle",
           NEW accepted \in BOOLEAN, NEW reason \in Reasons, Decide(t, accepted, reason)
    PROVE  Handled'
<1>1. TypeOK' /\ vars' = vars
  BY DEF Decide, Handled, RiskTypeOK, vars, TypeOK, InOperation
<1>2. Collected' = Collected
  BY DEF Decide, Collected
<1>3. Result(current[t], accepted, reason) \in Verdicts
  BY DEF Handled, RiskTypeOK, Result, Verdicts
<1>4. RiskTypeOK'
  BY <1>1, <1>3 DEF Handled, RiskTypeOK, Decide, vars
<1>5. Single'
  BY <1>2 DEF Handled, RiskTypeOK, Single, Decide
<1>6. Faithful'
  BY DEF Handled, RiskTypeOK, Faithful, Decide, vars, Result
<1> QED
  BY <1>4, <1>5, <1>6 DEF Handled

\* validate() calls debit() with the account and the cost of the order in hand:
LEMMA BuyCallHandled ==
    ASSUME Handled, NEW t \in Threads, BuyCall(t)
    PROVE  Handled'
<1>1. TypeOK'
  BY RiskUsesStore, NextSound DEF RiskNext, WorkerStep, Handled, RiskTypeOK
<1>2. Collected' = Collected
  BY DEF BuyCall, Collected
<1> DEFINE o == orders[current[t]]
<1>3. /\ UNCHANGED <<orders, submitted, taken, current, verdict, results, precedes>>
      /\ vpc' = [vpc EXCEPT ![t] = "debit"] /\ vpc[t] = "validate"
      /\ EarlyReason(o) = "" /\ o.side = "BUY"
      /\ DebitCall(t, o.accountId, Cost(o)) \/ DebitUnknown(t, o.accountId)
  BY DEF BuyCall
<1>4. trading' = trading /\ balances' = balances
  BY <1>3 DEF DebitCall, DebitUnknown, Enter
<1>5. RiskTypeOK'
  BY <1>1, <1>3, <1>4 DEF Handled, RiskTypeOK
<1>6. Single'
  BY <1>2, <1>3 DEF Handled, RiskTypeOK, Single
<1>7. Faithful'
  <2>1. \A u \in Threads \ {t} : /\ pc'[u] = pc[u] /\ acct'[u] = acct[u] /\ amount'[u] = amount[u]
                                 /\ vpc'[u] = vpc[u]
    BY <1>3 DEF DebitCall, DebitUnknown, Enter, Handled, RiskTypeOK, TypeOK
  <2>2. pc'[t] = "idle" \/ (pc'[t] = "debitLoad" /\ acct'[t] = o.accountId /\ amount'[t] = Cost(o))
    BY <1>3 DEF DebitCall, DebitUnknown, Enter, Handled, RiskTypeOK, TypeOK
  <2>3. vpc'[t] = "debit"
    BY <1>3 DEF Handled, RiskTypeOK
  <2>4. orders' = orders /\ verdict' = verdict /\ current' = current
    BY <1>3
  <2>5. Faithful
    BY DEF Handled
  <2>6. ASSUME NEW u \in Threads
        PROVE  /\ pc'[u] # "idle" => /\ pc'[u] \in {"debitLoad", "debitLoop"}
                                     /\ vpc'[u] = "debit"
                                     /\ acct'[u] = orders[current[u]].accountId
                                     /\ amount'[u] = Cost(orders[current[u]])
               /\ vpc'[u] = "debit" => /\ EarlyReason(orders[current[u]]) = ""
                                       /\ orders[current[u]].side = "BUY"
               /\ vpc'[u] = "collect" => verdict[u].order = current[u]
    <3>1. CASE u = t
      BY <3>1, <2>2, <2>3, <1>3
    <3>2. CASE u # t
      BY <3>2, <2>1, <2>5 DEF Faithful
    <3> QED
      BY <3>1, <3>2
  <2> QED
    BY <2>4, <2>6 DEF Faithful, EarlyReason, Cost
<1> QED
  BY <1>5, <1>6, <1>7 DEF Handled

\* debit() goes on, by one load or one compare-exchange:
LEMMA StoreStepHandled ==
    ASSUME Handled, NEW t \in Threads, StoreStep(t)
    PROVE  Handled'
<1>1. TypeOK'
  BY RiskUsesStore, NextSound DEF RiskNext, WorkerStep, Handled, RiskTypeOK
<1>2. UNCHANGED riskVars /\ trading' = trading /\ DOMAIN balances' = DOMAIN balances
  BY StoreStepShape
<1>3. Collected' = Collected
  BY <1>2 DEF riskVars, Collected
<1>4. RiskTypeOK'
  BY <1>1, <1>2 DEF Handled, RiskTypeOK, riskVars
<1>5. Single'
  BY <1>2, <1>3 DEF Handled, Single, riskVars
<1>6. Faithful'
  <2>1. Faithful /\ orders' = orders /\ current' = current /\ verdict' = verdict /\ vpc' = vpc
    BY <1>2 DEF Handled, riskVars
  <2>2. ASSUME NEW u \in Threads, pc'[u] # "idle"
        PROVE  /\ pc'[u] \in {"debitLoad", "debitLoop"} /\ pc[u] # "idle"
               /\ acct'[u] = acct[u] /\ amount'[u] = amount[u]
    <3>1. CASE u = t
      BY <3>1, <2>2, StoreStepShape
    <3>2. CASE u # t
      BY <3>2, <2>2, <2>1, StoreStepShape DEF Faithful
    <3> QED
      BY <3>1, <3>2
  <2> QED
    BY <2>1, <2>2 DEF Faithful, EarlyReason, Cost
<1> QED
  BY <1>4, <1>5, <1>6 DEF Handled

\* The result of a job goes from its worker to the collector.
LEMMA CollectShape ==
    ASSUME Handled, NEW t \in Threads, Collect(t)
    PROVE  /\ Collected' = Collected \cup {current[t]}
           /\ Accepted' = Accepted \cup (IF verdict[t].accepted THEN {current[t]} ELSE {})
           /\ results' \in Seq(Verdicts)
<1>1. results \in Seq(Verdicts) /\ verdict[t] \in Verdicts /\ results' = Append(results, verdict[t])
  BY DEF Handled, RiskTypeOK, Collect
<1>2. verdict[t].order = current[t]
  BY DEF Handled, Faithful, Collect
<1> QED
  BY <1>1, <1>2, Appended DEF Collected, Accepted

\* the result is appended under the collector's mutex:
LEMMA CollectHandled ==
    ASSUME Handled, NEW t \in Threads, Collect(t)
    PROVE  Handled'
<1>1. TypeOK'
  BY RiskUsesStore, NextSound DEF RiskNext, WorkerStep, Handled, RiskTypeOK
<1>2. Collected' = Collected \cup {current[t]} /\ results' \in Seq(Verdicts)
  BY CollectShape
<1>3. /\ UNCHANGED <<vars, orders, submitted, taken, precedes>>
      /\ vpc' = [vpc EXCEPT ![t] = "idle"] /\ current' = [current EXCEPT ![t] = 0]
      /\ verdict' = [verdict EXCEPT ![t] = NoVerdict] /\ vpc[t] = "collect"
      /\ results' = Append(results, verdict[t])
  BY DEF Collect
<1>4. NoVerdict \in Verdicts
  BY EmptyVerdict
<1>5. RiskTypeOK'
  BY <1>1, <1>2, <1>3, <1>4 DEF Handled, RiskTypeOK, vars
<1>6. Single'
  <2>0. /\ current \in [Threads -> Nat] /\ vpc \in [Threads -> {"idle", "validate", "debit", "collect"}]
        /\ Single
    BY DEF Handled, RiskTypeOK
  <2>1. current[t] \in 1 .. taken
    BY <1>3, InHand
  <2>2. ASSUME NEW u \in Threads
        PROVE  /\ vpc'[u] = "idle" <=> current'[u] = 0
               /\ current'[u] <= taken'
               /\ current'[u] \notin Collected'
    <3>1. CASE u = t
      <4>1. 0 \notin Collected' /\ 0 <= taken
        <5>1. taken \in Nat /\ 0 \notin 1 .. taken
          BY DEF Handled, RiskTypeOK
        <5> QED
          BY <5>1, <1>2, <2>0, <2>1 DEF Single
      <4> QED
        BY <3>1, <4>1, <2>0, <1>3
    <3>2. CASE u # t
      <4>1. current'[u] = current[u] /\ vpc'[u] = vpc[u]
        BY <3>2, <2>0, <1>3
      <4>2. current[u] # current[t]
        BY <3>2, <2>0, <2>1 DEF Single
      <4> QED
        BY <4>1, <4>2, <2>0, <1>2, <1>3 DEF Single
    <3> QED
      BY <3>1, <3>2
  <2>3. ASSUME NEW u \in Threads, NEW v \in Threads, u # v, current'[u] = current'[v]
        PROVE  current'[u] = 0
    BY <2>3, <2>0, <1>3 DEF Single
  <2>4. \A i \in Collected' : i \in 1 .. taken'
    BY <1>2, <1>3, <2>0, <2>1 DEF Single
  <2>5. \A p \in precedes' : \E i \in Collected', j \in 1 .. taken' : p = <<i, j>>
    BY <1>2, <1>3, <2>0 DEF Single
  <2>6. ASSUME NEW k \in DOMAIN results', NEW l \in DOMAIN results',
               results'[k].order = results'[l].order
        PROVE  k = l
    <3> DEFINE n == Len(results)
    <3>1. results \in Seq(Verdicts) /\ verdict[t].order = current[t] /\ verdict[t] \in Verdicts
      BY <1>3 DEF Handled, RiskTypeOK, Faithful
    <3>2. /\ n \in Nat /\ DOMAIN results = 1 .. n /\ DOMAIN results' = 1 .. n + 1
          /\ results'[n + 1] = verdict[t] /\ \A m \in 1 .. n : results'[m] = results[m]
      BY <1>3, <3>1
    <3> HIDE DEF n
    <3>3. \A m \in 1 .. n : results[m].order # current[t]
      BY <2>0, <3>2 DEF Single, Collected
    <3>4. k \in 1 .. n \/ k = n + 1
      BY <3>2
    <3>5. l \in 1 .. n \/ l = n + 1
      BY <3>2
    <3>6. CASE k \in 1 .. n /\ l \in 1 .. n
      BY <3>6, <3>2, <2>6, <2>0 DEF Single
    <3>7. CASE k = n + 1 /\ l \in 1 .. n
      BY <3>7, <3>1, <3>2, <3>3, <2>6
    <3>8. CASE k \in 1 .. n /\ l = n + 1
      BY <3>8, <3>1, <3>2, <3>3, <2>6
    <3> QED
      BY <3>4, <3>5, <3>6, <3>7, <3>8
  <2> QED
    BY <2>2, <2>3, <2>4, <2>5, <2>6 DEF Single
<1>7. Faithful'
  BY <1>3 DEF Handled, RiskTypeOK, Faithful, vars
<1> QED
  BY <1>5, <1>6, <1>7 DEF Handled

\* hence every step preserves Handled,
LEMMA NextHandled ==
    ASSUME Handled, [RiskNext]_engineVars
    PROVE  Handled'
<1>1. CASE Submit
  BY <1>1, SubmitHandled
<1>2. ASSUME NEW t \in Threads, WorkerStep(t)
      PROVE  Handled'
  <2>0. \A i : EarlyReason(orders[i]) \in Reasons
    BY DEF EarlyReason, Reasons
  <2>1. CASE Take(t)
    BY <2>1, TakeHandled
  <2>2. CASE RejectEarly(t)
    <3>1. vpc[t] = "validate" /\ pc[t] = "idle" /\ Decide(t, FALSE, EarlyReason(orders[current[t]]))
      BY <2>2 DEF RejectEarly, Handled, Faithful
    <3> QED
      BY <3>1, <2>0, DecideHandled
  <2>3. CASE AcceptSell(t)
    <3>1. vpc[t] = "validate" /\ pc[t] = "idle" /\ Decide(t, TRUE, "") /\ "" \in Reasons
      BY <2>3 DEF AcceptSell, Handled, Faithful, Reasons
    <3> QED
      BY <3>1, DecideHandled
  <2>4. CASE BuyCall(t)
    BY <2>4, BuyCallHandled
  <2>5. CASE StoreStep(t)
    BY <2>5, StoreStepHandled
  <2>6. CASE BuyReturn(t)
    <3> DEFINE why == IF ret[t] THEN "" ELSE "insufficient_balance"
    <3>1. vpc[t] = "debit" /\ pc[t] = "idle" /\ Decide(t, ret[t], why) /\ why \in Reasons
      BY <2>6 DEF BuyReturn, Reasons
    <3>2. ret[t] \in BOOLEAN
      BY DEF Handled, RiskTypeOK, TypeOK
    <3> HIDE DEF why
    <3> QED
      BY <3>1, <3>2, DecideHandled
  <2>7. CASE Collect(t)
    BY <2>7, CollectHandled
  <2> QED
    BY <1>2, <2>1, <2>2, <2>3, <2>4, <2>5, <2>6, <2>7 DEF WorkerStep
<1>3. CASE UNCHANGED engineVars
  <2>1. TypeOK'
    BY RiskUsesStore, NextSound DEF Handled, RiskTypeOK
  <2>2. Collected' = Collected
    BY <1>3 DEF engineVars, riskVars, Collected
  <2>3. RiskTypeOK'
    BY <1>3, <2>1 DEF engineVars, riskVars, vars, Handled, RiskTypeOK
  <2>4. Single'
    BY <1>3, <2>2 DEF engineVars, riskVars, Handled, Single
  <2>5. Faithful'
    BY <1>3 DEF engineVars, riskVars, vars, Handled, Faithful
  <2> QED
    BY <2>3, <2>4, <2>5 DEF Handled
<1> QED
  BY <1>1, <1>2, <1>3 DEF RiskNext

\* and it holds before the first order.
LEMMA InitHandled == RiskInit => Handled
<1> SUFFICES ASSUME RiskInit PROVE Handled
  OBVIOUS
<1>1. TypeOK
  BY RiskInitStore DEF Solvent
<1>2. Len(orders) \in Nat
  BY Shape DEF RiskInit
<1>3. results = << >> /\ << >> \in Seq(Verdicts) /\ Collected = {}
  BY DEF RiskInit, Collected
<1>4. RiskTypeOK
  BY <1>1, <1>2, <1>3, EmptyVerdict DEF RiskInit, RiskTypeOK
<1>5. Single
  BY <1>3 DEF RiskInit, Single
<1>6. Faithful
  BY DEF RiskInit, Faithful
<1> QED
  BY <1>4, <1>5, <1>6 DEF Handled

-----------------------------------------------------------------------------
(* What each step settles                                                  *)

\* The orders of the workers other than t.
OthersEffective(t) == {current[u] : u \in {v \in Threads \ {t} : Settled(v)}}
OthersGranting(t)  == {current[u] : u \in {v \in Threads \ {t} : Approved(v)}}

OthersStay(t) ==
    \A u \in Threads \ {t} :
        /\ vpc'[u] = vpc[u] /\ current'[u] = current[u] /\ verdict'[u] = verdict[u]
        /\ pc'[u] = pc[u] /\ cur'[u] = cur[u] /\ amount'[u] = amount[u] /\ ret'[u] = ret[u]

\* Nothing takes effect.
Quiet ==
    /\ orders' = orders /\ balances' = balances /\ funded' = funded /\ spent' = spent
    /\ Effective' = Effective /\ Granting' = Granting
    /\ \A p \in precedes' : p \in precedes \/ p[2] \notin Effective

\* Order i takes effect, as validate() has it on its own, and a granted debit
\* is entered in the books.
Settles(i) ==
    /\ orders' = orders /\ precedes' = precedes /\ funded' = funded
    /\ i \in DOMAIN orders /\ i \notin Effective
    /\ Effective' = Effective \cup {i}
    /\ [balance |-> balances', accepted |-> Granting'] =
          Validated([balance |-> balances, accepted |-> Granting], i)
    /\ \/ Granting' = Granting /\ spent' = spent
       \/ /\ Granting' = Granting \cup {i} /\ EarlyReason(orders[i]) = ""
          /\ IF orders[i].side = "BUY"
             THEN /\ orders[i].accountId \in DOMAIN Start
                  /\ spent' = [spent EXCEPT ![orders[i].accountId] =
                                  IF Cost(orders[i]) = NaN THEN @ ELSE @ + Cost(orders[i])]
             ELSE spent' = spent

\* What has taken effect: for worker t and for the others,
LEMMA Parts ==
    ASSUME NEW t \in Threads
    PROVE  /\ Effective = Collected \cup OthersEffective(t)
                             \cup (IF Settled(t) THEN {current[t]} ELSE {})
           /\ Granting = Accepted \cup OthersGranting(t)
                             \cup (IF Approved(t) THEN {current[t]} ELSE {})
<1>1. {u \in Threads : Settled(u)} =
         {u \in Threads \ {t} : Settled(u)} \cup (IF Settled(t) THEN {t} ELSE {})
  OBVIOUS
<1>2. {u \in Threads : Approved(u)} =
         {u \in Threads \ {t} : Approved(u)} \cup (IF Approved(t) THEN {t} ELSE {})
  OBVIOUS
<1>3. Effective = Collected \cup OthersEffective(t) \cup (IF Settled(t) THEN {current[t]} ELSE {})
  BY <1>1, Zenon DEF Effective, OthersEffective
<1>4. Granting = Accepted \cup OthersGranting(t) \cup (IF Approved(t) THEN {current[t]} ELSE {})
  BY <1>2, Zenon DEF Granting, OthersGranting
<1> QED
  BY <1>3, <1>4

\* and the same in the next state.
LEMMA PartsThen ==
    ASSUME NEW t \in Threads
    PROVE  /\ Effective' = Collected' \cup OthersEffective(t)'
                              \cup (IF Settled(t)' THEN {current'[t]} ELSE {})
           /\ Granting' = Accepted' \cup OthersGranting(t)'
                              \cup (IF Approved(t)' THEN {current'[t]} ELSE {})
<1>1. (Effective = Collected \cup OthersEffective(t) \cup (IF Settled(t) THEN {current[t]} ELSE {}))'
  BY Parts, PTL
<1>2. (Granting = Accepted \cup OthersGranting(t) \cup (IF Approved(t) THEN {current[t]} ELSE {}))'
  BY Parts, PTL
<1> QED
  BY <1>1, <1>2

\* A step of worker t settles nothing for another worker.
LEMMA OthersKeep ==
    ASSUME NEW t \in Threads, OthersStay(t)
    PROVE  OthersEffective(t)' = OthersEffective(t) /\ OthersGranting(t)' = OthersGranting(t)
<1>1. ASSUME NEW u \in Threads \ {t}
      PROVE  /\ Settled(u)' <=> Settled(u)
             /\ Approved(u)' <=> Approved(u)
             /\ current'[u] = current[u]
  BY DEF OthersStay, Settled, Approved, Decided
<1>2. {u \in Threads \ {t} : Settled(u)}' = {u \in Threads \ {t} : Settled(u)}
  BY <1>1
<1>3. {u \in Threads \ {t} : Approved(u)}' = {u \in Threads \ {t} : Approved(u)}
  BY <1>1
<1>4. OthersEffective(t)' = OthersEffective(t)
  BY <1>1, <1>2 DEF OthersEffective
<1>5. OthersGranting(t)' = OthersGranting(t)
  BY <1>1, <1>3 DEF OthersGranting
<1> QED
  BY <1>4, <1>5

\* Only what has taken effect is granted, and only what was taken.
LEMMA Bounds ==
    ASSUME Handled
    PROVE  /\ Granting \subseteq Effective
           /\ Effective \subseteq 1 .. taken /\ Effective \subseteq DOMAIN orders
<1>1. Accepted \subseteq Collected
  BY DEF Accepted, Collected
<1>2. \A u \in Threads : Approved(u) => Settled(u)
  BY DEF Approved, Settled
<1>3. Granting \subseteq Effective
  BY <1>1, <1>2 DEF Granting, Effective
<1>4. ASSUME NEW u \in Threads, Settled(u) PROVE current[u] \in 1 .. taken
  <2>1. vpc[u] # "idle"
    BY <1>4 DEF Settled
  <2> QED
    BY <2>1, InHand
<1>5. Collected \subseteq 1 .. taken
  BY DEF Handled, Single
<1>6. Effective \subseteq 1 .. taken
  BY <1>4, <1>5 DEF Effective
<1>7. 1 .. taken \subseteq DOMAIN orders
  <2>1. /\ orders \in Workloads /\ taken \in Nat /\ submitted \in Nat /\ taken <= submitted
        /\ submitted <= Len(orders)
    BY DEF Handled, RiskTypeOK
  <2>2. DOMAIN orders = 1 .. Len(orders) /\ Len(orders) \in Nat
    BY <2>1, Shape
  <2> QED
    BY <2>1, <2>2
<1> QED
  BY <1>3, <1>6, <1>7

\* An order under validation has not taken effect twice.
LEMMA Fresh ==
    ASSUME Handled, NEW t \in Threads, vpc[t] # "idle"
    PROVE  /\ current[t] \notin Collected
           /\ ~Settled(t) => current[t] \notin Effective
<1>1. current[t] # 0 /\ current[t] \notin Collected
  BY DEF Handled, Single
<1>2. ASSUME NEW u \in Threads, Settled(u), ~Settled(t) PROVE current[u] # current[t]
  BY <1>1, <1>2 DEF Handled, Single
<1> QED
  BY <1>1, <1>2 DEF Effective

\* Submitting a batch makes nothing take effect,
LEMMA SubmitQuiet ==
    ASSUME Handled, Submit
    PROVE  Quiet
<1>1. /\ UNCHANGED <<vars, orders, vpc, current, verdict, results, precedes>>
  BY DEF Submit
<1>2. Effective' = Effective
  BY <1>1 DEF vars, Effective, Collected, Settled, Decided
<1>3. Granting' = Granting
  BY <1>1 DEF vars, Granting, Accepted, Approved
<1> QED
  BY <1>1, <1>2, <1>3 DEF Quiet, vars

\* nor does taking an order, which then comes after all that were finished.
LEMMA TakeQuiet ==
    ASSUME Handled, NEW t \in Threads, Take(t)
    PROVE  Quiet
<1>1. /\ UNCHANGED <<vars, orders, verdict, results>> /\ vpc[t] = "idle" /\ taken \in Nat
      /\ vpc' = [vpc EXCEPT ![t] = "validate"] /\ current' = [current EXCEPT ![t] = taken + 1]
      /\ precedes' = precedes \cup (Collected \X {taken + 1})
      /\ vpc \in [Threads -> {"idle", "validate", "debit", "collect"}] /\ current \in [Threads -> Nat]
  BY DEF Take, Handled, RiskTypeOK
<1>2. OthersStay(t)
  BY <1>1 DEF OthersStay, vars
<1>3. Collected' = Collected /\ Accepted' = Accepted
  BY <1>1 DEF Collected, Accepted
<1>4. ~Settled(t) /\ ~Approved(t) /\ ~Settled(t)' /\ ~Approved(t)'
  BY <1>1 DEF Settled, Approved
<1>5. Effective' = Effective /\ Granting' = Granting
  BY <1>2, <1>3, <1>4, OthersKeep, Parts, PartsThen
<1>6. taken + 1 \notin Effective
  BY <1>1, Bounds
<1>7. \A p \in precedes' : p \in precedes \/ p[2] \notin Effective
  BY <1>1, <1>6
<1> QED
  BY <1>1, <1>5, <1>7 DEF Quiet, vars

\* A verdict reached outside the store settles the order that was pending, or
\* says what its debit has settled already.
LEMMA DecideEffect ==
    ASSUME Handled, NEW t \in Threads, vpc[t] \in {"validate", "debit"}, pc[t] = "idle",
           NEW accepted \in BOOLEAN, NEW reason \in Reasons, Decide(t, accepted, reason)
    PROVE  /\ Effective' = Effective \cup {current[t]}
           /\ vpc[t] = "validate" =>
                 Granting' = Granting \cup (IF accepted THEN {current[t]} ELSE {})
           /\ vpc[t] = "debit" /\ accepted = ret[t] => Effective' = Effective /\ Granting' = Granting
           /\ vars' = vars /\ UNCHANGED <<orders, precedes>>
<1>1. /\ UNCHANGED <<vars, orders, submitted, taken, current, results, precedes>>
      /\ vpc' = [vpc EXCEPT ![t] = "collect"]
      /\ verdict' = [verdict EXCEPT ![t] = Result(current[t], accepted, reason)]
      /\ vpc \in [Threads -> {"idle", "validate", "debit", "collect"}] /\ verdict \in [Threads -> Verdicts]
  BY DEF Decide, Handled, RiskTypeOK
<1>2. OthersStay(t)
  BY <1>1 DEF OthersStay, vars
<1>3. Collected' = Collected /\ Accepted' = Accepted
  BY <1>1 DEF Collected, Accepted
<1>4. Settled(t)' /\ (Approved(t)' <=> accepted)
  BY <1>1 DEF Settled, Approved, Result
<1>5. /\ vpc[t] = "validate" => ~Settled(t) /\ ~Approved(t)
      /\ vpc[t] = "debit" => Settled(t) /\ (Approved(t) <=> ret[t])
  BY DEF Settled, Approved
<1>6. /\ Effective' = Collected \cup OthersEffective(t) \cup {current[t]}
      /\ Granting' = Accepted \cup OthersGranting(t) \cup (IF accepted THEN {current[t]} ELSE {})
  BY <1>1, <1>2, <1>3, <1>4, OthersKeep, PartsThen
<1>7. Effective' = Effective \cup {current[t]}
  BY <1>6, Parts
<1>8. vpc[t] = "validate" => Granting' = Granting \cup (IF accepted THEN {current[t]} ELSE {})
  BY <1>5, <1>6, Parts
<1>9. vpc[t] = "debit" /\ accepted = ret[t] => Effective' = Effective /\ Granting' = Granting
  BY <1>5, <1>6, Parts
<1> QED
  BY <1>1, <1>7, <1>8, <1>9

\* A rejection before debit() takes effect when validate() decides it,
LEMMA RejectSettles ==
    ASSUME Handled, NEW t \in Threads, RejectEarly(t)
    PROVE  Settles(current[t])
<1> DEFINE i == current[t]
<1>1. /\ vpc[t] = "validate" /\ pc[t] = "idle" /\ EarlyReason(orders[i]) # ""
      /\ Decide(t, FALSE, EarlyReason(orders[i]))
  BY DEF RejectEarly, Handled, Faithful
<1>2. EarlyReason(orders[i]) \in Reasons
  BY DEF EarlyReason, Reasons
<1>3. FALSE \in BOOLEAN
  OBVIOUS
<1>4. /\ Effective' = Effective \cup {i} /\ Granting' = Granting
      /\ vars' = vars /\ UNCHANGED <<orders, precedes>>
  BY <1>1, <1>2, <1>3, DecideEffect
<1>5. i \in DOMAIN orders /\ i \notin Effective
  BY <1>1, InHand, Fresh DEF Settled
<1>6. Validated([balance |-> balances, accepted |-> Granting], i) =
         [balance |-> balances, accepted |-> Granting]
  BY <1>1 DEF Validated
<1> QED
  BY <1>4, <1>5, <1>6 DEF Settles, vars

\* and so does a SELL, which moves no money.
LEMMA AcceptSettles ==
    ASSUME Handled, NEW t \in Threads, AcceptSell(t)
    PROVE  Settles(current[t])
<1> DEFINE i == current[t]
<1>1. /\ vpc[t] = "validate" /\ pc[t] = "idle" /\ EarlyReason(orders[i]) = ""
      /\ orders[i].side = "SELL" /\ Decide(t, TRUE, "")
  BY DEF AcceptSell, Handled, Faithful
<1>2. "" \in Reasons /\ TRUE \in BOOLEAN
  BY DEF Reasons
<1>3. /\ Effective' = Effective \cup {i} /\ Granting' = Granting \cup {i}
      /\ vars' = vars /\ UNCHANGED <<orders, precedes>>
  BY <1>1, <1>2, DecideEffect
<1>4. i \in DOMAIN orders /\ i \notin Effective
  BY <1>1, InHand, Fresh DEF Settled
<1>5. Validated([balance |-> balances, accepted |-> Granting], i) =
         [balance |-> balances, accepted |-> Granting \cup {i}]
  BY <1>1 DEF Validated
<1> QED
  BY <1>1, <1>3, <1>4, <1>5 DEF Settles, vars

\* Reading debit()'s result changes nothing that debit() had not settled,
LEMMA ReturnQuiet ==
    ASSUME Handled, NEW t \in Threads, BuyReturn(t)
    PROVE  Quiet
<1> DEFINE why == IF ret[t] THEN "" ELSE "insufficient_balance"
<1>1. vpc[t] = "debit" /\ pc[t] = "idle" /\ Decide(t, ret[t], why) /\ why \in Reasons
  BY DEF BuyReturn, Reasons
<1>2. ret[t] \in BOOLEAN
  BY DEF Handled, RiskTypeOK, TypeOK
<1> HIDE DEF why
<1>3. /\ Effective' = Effective /\ Granting' = Granting
      /\ vars' = vars /\ UNCHANGED <<orders, precedes>>
  BY <1>1, <1>2, DecideEffect
<1> QED
  BY <1>3 DEF Quiet, vars

\* nor does recording it: the order had taken effect before.
LEMMA CollectQuiet ==
    ASSUME Handled, NEW t \in Threads, Collect(t)
    PROVE  Quiet
<1>1. /\ UNCHANGED <<vars, orders, submitted, taken, precedes>> /\ vpc[t] = "collect"
      /\ vpc' = [vpc EXCEPT ![t] = "idle"] /\ current' = [current EXCEPT ![t] = 0]
      /\ verdict' = [verdict EXCEPT ![t] = NoVerdict]
      /\ vpc \in [Threads -> {"idle", "validate", "debit", "collect"}] /\ verdict \in [Threads -> Verdicts]
      /\ current \in [Threads -> Nat]
  BY DEF Collect, Handled, RiskTypeOK
<1>2. OthersStay(t)
  BY <1>1 DEF OthersStay, vars
<1>3. /\ Collected' = Collected \cup {current[t]}
      /\ Accepted' = Accepted \cup (IF verdict[t].accepted THEN {current[t]} ELSE {})
  BY CollectShape
<1>4. /\ Settled(t) /\ (Approved(t) <=> verdict[t].accepted)
      /\ ~Settled(t)' /\ ~Approved(t)'
  BY <1>1 DEF Settled, Approved
<1>7. OthersEffective(t)' = OthersEffective(t) /\ OthersGranting(t)' = OthersGranting(t)
  BY <1>2, OthersKeep
<1>5. Effective' = Effective
  <2>1. Effective = Collected \cup OthersEffective(t) \cup {current[t]}
    BY <1>4, Parts
  <2>2. Effective' = Collected' \cup OthersEffective(t)'
    BY <1>4, PartsThen
  <2> QED
    BY <2>1, <2>2, <1>3, <1>7
<1>6. Granting' = Granting
  <2>1. Granting = Accepted \cup OthersGranting(t) \cup (IF verdict[t].accepted THEN {current[t]} ELSE {})
    BY <1>4, Parts
  <2>2. Granting' = Accepted' \cup OthersGranting(t)'
    BY <1>4, PartsThen
  <2> QED
    BY <2>1, <2>2, <1>3, <1>7
<1> QED
  BY <1>1, <1>5, <1>6 DEF Quiet, vars

\* The call of tryDebit(): an unknown account is refused at once.
LEMMA BuyCallEffect ==
    ASSUME Handled, NEW t \in Threads, BuyCall(t)
    PROVE  Quiet \/ Settles(current[t])
<1> DEFINE i == current[t]
           a == orders[i].accountId
<1>1. /\ UNCHANGED <<orders, submitted, taken, current, verdict, results, precedes>>
      /\ vpc' = [vpc EXCEPT ![t] = "debit"] /\ vpc[t] = "validate"
      /\ EarlyReason(orders[i]) = "" /\ orders[i].side = "BUY"
      /\ DebitCall(t, a, Cost(orders[i])) \/ DebitUnknown(t, a)
  BY DEF BuyCall
<1>2. /\ vpc \in [Threads -> {"idle", "validate", "debit", "collect"}] /\ TypeOK
      /\ DOMAIN balances = DOMAIN Start
  BY DEF Handled, RiskTypeOK
<1>3. Collected' = Collected /\ Accepted' = Accepted
  BY <1>1 DEF Collected, Accepted
<1>4. ~Settled(t) /\ ~Approved(t) /\ vpc'[t] = "debit"
  BY <1>1, <1>2 DEF Settled, Approved
<1>5. CASE DebitCall(t, a, Cost(orders[i]))
  <2>1. OthersStay(t) /\ pc'[t] = "debitLoad" /\ UNCHANGED <<balances, history>>
    BY <1>1, <1>2, <1>5 DEF OthersStay, DebitCall, Enter, TypeOK
  <2>2. ~Settled(t)' /\ ~Approved(t)'
    BY <2>1, <1>4 DEF Settled, Approved, Decided
  <2>3. Effective' = Effective /\ Granting' = Granting
    BY <2>1, <2>2, <1>3, <1>4, OthersKeep, Parts, PartsThen
  <2> QED
    BY <2>1, <2>3, <1>1 DEF Quiet, history
<1>6. CASE DebitUnknown(t, a)
  <2>1. /\ OthersStay(t) /\ pc'[t] = "idle" /\ ret'[t] = FALSE /\ a \notin DOMAIN Start
        /\ UNCHANGED <<balances, history>>
    BY <1>1, <1>2, <1>6 DEF OthersStay, DebitUnknown, TypeOK
  <2>2. Settled(t)' /\ ~Approved(t)'
    BY <2>1, <1>4 DEF Settled, Approved
  <2>3. Effective' = Effective \cup {i} /\ Granting' = Granting
    BY <2>1, <2>2, <1>1, <1>3, <1>4, OthersKeep, Parts, PartsThen
  <2>4. i \in DOMAIN orders /\ i \notin Effective
    BY <1>1, <1>4, InHand, Fresh
  <2>5. Validated([balance |-> balances, accepted |-> Granting], i) =
           [balance |-> balances, accepted |-> Granting]
    BY <1>1, <2>1 DEF Validated
  <2> QED
    BY <2>1, <2>3, <2>4, <2>5, <1>1 DEF Settles, history
<1> QED
  BY <1>1, <1>5, <1>6

\* bal.load(): a balance too small decides the debit, any other leaves it open.
LEMMA ReadEffect ==
    ASSUME Handled, NEW t \in Threads, StoreStep(t), DebitLoad(t) \/ DebitRetry(t)
    PROVE  Quiet \/ Settles(current[t])
<1> DEFINE i == current[t]
           a == acct[t]
<1>1. /\ UNCHANGED riskVars /\ vpc[t] = "debit" /\ TypeOK /\ DOMAIN balances = DOMAIN Start
  BY StoreStepShape DEF Handled, RiskTypeOK
<1>2. /\ orders[i].accountId = a /\ amount[t] = Cost(orders[i])
      /\ EarlyReason(orders[i]) = "" /\ orders[i].side = "BUY" /\ a \in DOMAIN Start
  BY <1>1, StoreStepShape DEF Handled, Faithful, TypeOK, InOperation
<1>3. /\ pc'[t] = "debitLoop" /\ cur'[t] = balances[a] /\ amount'[t] = amount[t]
      /\ UNCHANGED <<balances, history, ret>>
  BY <1>1 DEF DebitLoad, Load, DebitRetry, CasFails, TypeOK
<1>4. ~Settled(t) /\ ~Approved(t)
  BY <1>1 DEF DebitLoad, Load, DebitRetry, Settled, Approved, Decided
<1>5. OthersStay(t)
  BY <1>1, StoreStepShape DEF OthersStay, riskVars
<1>6. Collected' = Collected /\ Accepted' = Accepted /\ current' = current
  BY <1>1 DEF riskVars, Collected, Accepted
<1>7. OthersEffective(t)' = OthersEffective(t) /\ OthersGranting(t)' = OthersGranting(t)
  BY <1>5, OthersKeep
<1>8. ~Approved(t)' /\ (Settled(t)' <=> Lt(balances[a], Cost(orders[i])))
  BY <1>1, <1>2, <1>3 DEF riskVars, Approved, Settled, Decided
<1>9. Granting' = Granting
  BY <1>4, <1>6, <1>7, <1>8, Parts, PartsThen
<1>10. CASE ~Lt(balances[a], Cost(orders[i]))
  <2>1. Effective' = Effective
    BY <1>4, <1>6, <1>7, <1>8, <1>10, Parts, PartsThen
  <2> QED
    BY <2>1, <1>1, <1>3, <1>9 DEF Quiet, history, riskVars
<1>11. CASE Lt(balances[a], Cost(orders[i]))
  <2>1. Effective' = Effective \cup {i}
    BY <1>4, <1>6, <1>7, <1>8, <1>11, Parts, PartsThen
  <2>2. i \in DOMAIN orders /\ i \notin Effective
    BY <1>1, <1>4, InHand, Fresh
  <2>3. Validated([balance |-> balances, accepted |-> Granting], i) =
           [balance |-> balances, accepted |-> Granting]
    BY <1>2, <1>11 DEF Validated
  <2> QED
    BY <2>1, <2>2, <2>3, <1>1, <1>3, <1>9 DEF Settles, history, riskVars
<1> QED
  BY <1>10, <1>11

\* The test that fails returns what the load had settled.
LEMMA RefuseQuiet ==
    ASSUME Handled, NEW t \in Threads, StoreStep(t), DebitRefuse(t)
    PROVE  Quiet
<1>1. UNCHANGED riskVars /\ vpc[t] = "debit" /\ TypeOK
  BY StoreStepShape DEF Handled, RiskTypeOK
<1>2. pc'[t] = "idle" /\ ret'[t] = FALSE /\ UNCHANGED <<balances, history>> /\ Settled(t) /\ ~Approved(t)
  BY <1>1 DEF DebitRefuse, Leave, TypeOK, Settled, Approved, Decided
<1>3. Settled(t)' /\ ~Approved(t)'
  BY <1>1, <1>2 DEF riskVars, Settled, Approved
<1>4. OthersStay(t)
  BY <1>1, StoreStepShape DEF OthersStay, riskVars
<1>5. Collected' = Collected /\ Accepted' = Accepted /\ current' = current
  BY <1>1 DEF riskVars, Collected, Accepted
<1>6. Effective' = Effective /\ Granting' = Granting
  BY <1>2, <1>3, <1>4, <1>5, OthersKeep, Parts, PartsThen
<1> QED
  BY <1>1, <1>2, <1>6 DEF Quiet, history, riskVars

\* The winning compare-exchange.
LEMMA CasSettles ==
    ASSUME Handled, NEW t \in Threads, StoreStep(t), DebitCas(t)
    PROVE  Settles(current[t])
<1> DEFINE i == current[t]
           a == acct[t]
<1>1. /\ UNCHANGED riskVars /\ vpc[t] = "debit" /\ TypeOK /\ DOMAIN balances = DOMAIN Start
      /\ funded' = funded
  BY StoreStepShape DEF Handled, RiskTypeOK
<1>2. /\ orders[i].accountId = a /\ amount[t] = Cost(orders[i])
      /\ EarlyReason(orders[i]) = "" /\ orders[i].side = "BUY" /\ a \in DOMAIN Start
  BY <1>1, StoreStepShape DEF Handled, Faithful, TypeOK, InOperation
<1>3. /\ pc[t] = "debitLoop" /\ ~Lt(cur[t], amount[t]) /\ balances[a] = cur[t]
      /\ balances' = [balances EXCEPT ![a] = Minus(cur[t], amount[t])]
      /\ spent' = [spent EXCEPT ![a] = IF amount[t] = NaN THEN @ ELSE @ + amount[t]]
      /\ pc'[t] = "idle" /\ ret'[t] = TRUE
  BY <1>1 DEF DebitCas, CasStores, Granted, Leave, TypeOK
<1>4. ~Settled(t) /\ ~Approved(t)
  BY <1>1, <1>3 DEF Settled, Approved, Decided
<1>5. Settled(t)' /\ Approved(t)'
  BY <1>1, <1>3 DEF riskVars, Settled, Approved
<1>6. OthersStay(t)
  BY <1>1, StoreStepShape DEF OthersStay, riskVars
<1>7. Collected' = Collected /\ Accepted' = Accepted /\ current' = current
  BY <1>1 DEF riskVars, Collected, Accepted
<1>8. Effective' = Effective \cup {i} /\ Granting' = Granting \cup {i}
  BY <1>4, <1>5, <1>6, <1>7, OthersKeep, Parts, PartsThen
<1>9. i \in DOMAIN orders /\ i \notin Effective
  BY <1>1, <1>4, InHand, Fresh
<1>10. Validated([balance |-> balances, accepted |-> Granting], i) =
          [balance |-> balances', accepted |-> Granting']
  <2>1. Validated([balance |-> balances, accepted |-> Granting], i) =
          [balance |-> [balances EXCEPT ![a] = Minus(@, Cost(orders[i]))],
           accepted |-> Granting \cup {i}]
    BY <1>2, <1>3 DEF Validated
  <2>2. balances' = [balances EXCEPT ![a] = Minus(@, Cost(orders[i]))]
    BY <1>1, <1>2, <1>3
  <2> QED
    BY <2>1, <2>2, <1>8
<1>11. spent' = [spent EXCEPT ![orders[i].accountId] =
                    IF Cost(orders[i]) = NaN THEN @ ELSE @ + Cost(orders[i])]
  BY <1>2, <1>3
<1> QED
  BY <1>1, <1>2, <1>8, <1>9, <1>10, <1>11 DEF Settles, riskVars

\* Every step of the engine is one or the other.
LEMMA StepEffect ==
    ASSUME Handled, [RiskNext]_engineVars
    PROVE  Quiet \/ \E i \in DOMAIN orders : Settles(i)
<1>1. CASE Submit
  BY <1>1, SubmitQuiet
<1>2. ASSUME NEW t \in Threads, WorkerStep(t)
      PROVE  Quiet \/ Settles(current[t])
  <2>1. CASE Take(t)
    BY <2>1, TakeQuiet
  <2>2. CASE RejectEarly(t)
    BY <2>2, RejectSettles
  <2>3. CASE AcceptSell(t)
    BY <2>3, AcceptSettles
  <2>4. CASE BuyCall(t)
    BY <2>4, BuyCallEffect
  <2>5. CASE StoreStep(t)
    BY <2>5, ReadEffect, RefuseQuiet, CasSettles DEF StoreStep, DebitStep
  <2>6. CASE BuyReturn(t)
    BY <2>6, ReturnQuiet
  <2>7. CASE Collect(t)
    BY <2>7, CollectQuiet
  <2> QED
    BY <1>2, <2>1, <2>2, <2>3, <2>4, <2>5, <2>6, <2>7 DEF WorkerStep
<1>3. CASE UNCHANGED engineVars
  <2>1. Effective' = Effective
    BY <1>3 DEF engineVars, riskVars, vars, Effective, Collected, Settled, Decided
  <2>2. Granting' = Granting
    BY <1>3 DEF engineVars, riskVars, vars, Granting, Accepted, Approved
  <2> QED
    BY <1>3, <2>1, <2>2 DEF Quiet, engineVars, riskVars, vars
<1>4. ASSUME NEW i, Settles(i) PROVE i \in DOMAIN orders
  BY <1>4 DEF Settles
<1> QED
  BY <1>1, <1>2, <1>3, <1>4 DEF RiskNext

-----------------------------------------------------------------------------
(* The sequential baseline                                                 *)

\* Validated and Baseline for a given workload.
ValidatedIn(os, state, i) ==
    LET o  == os[i]
        a  == o.accountId
        ok == /\ EarlyReason(o) = ""
              /\ o.side = "BUY" => a \in DOMAIN Start /\ ~Lt(state.balance[a], Cost(o))
    IN  [balance  |-> IF ok /\ o.side = "BUY"
                      THEN [state.balance EXCEPT ![a] = Minus(@, Cost(o))]
                      ELSE state.balance,
         accepted |-> IF ok THEN state.accepted \cup {i} ELSE state.accepted]

Opening == [balance |-> Start, accepted |-> {}]

BaselineIn(os, q) == FoldLeft(LAMBDA state, i : ValidatedIn(os, state, i), Opening, q)

IsBaseline(g, os, q) ==
    g = [s \in SUBSET DOMAIN q |->
            IF s = {} THEN Opening ELSE ValidatedIn(os, g[s \ {Max(s)}], q[Max(s)])]

States(os) == [balance : [DOMAIN Start -> Double], accepted : SUBSET DOMAIN os]
StepIn(os) == [ve \in States(os) \X DOMAIN os |-> ValidatedIn(os, ve[1], ve[2])]

\* Baseline is the fold of validate() over the workload of this state,
LEMMA BaselineIs ==
    ASSUME NEW q
    PROVE  Baseline(q) = BaselineIn(orders, q)
  BY DEF Baseline, BaselineIn, FoldLeft, MapThenFoldSet, Validated, ValidatedIn, Opening

\* and, in the next state, over that of the next state.
LEMMA BaselineThen ==
    ASSUME NEW q
    PROVE  Baseline(q)' = BaselineIn(orders', q)
<1>1. (Baseline(q) = BaselineIn(orders, q))'
  BY BaselineIs, PTL
<1> QED
  BY <1>1

\* The fold is a function on the sets of positions, the last one taken off first.
LEMMA BaselineUnfolds ==
    ASSUME NEW os, NEW q
    PROVE  BaselineIn(os, q) = (CHOOSE g : IsBaseline(g, os, q))[DOMAIN q]
  BY DEF BaselineIn, IsBaseline, FoldLeft, MapThenFoldSet

\* validate() keeps the state of the baseline well typed.
LEMMA StepTyped ==
    ASSUME NEW os \in Workloads
    PROVE  Opening \in States(os) /\ StepIn(os) \in [States(os) \X DOMAIN os -> States(os)]
<1>1. Opening \in States(os)
  <2>1. Start \in [DOMAIN Start -> Double]
    BY DEF Double
  <2> QED
    BY <2>1 DEF Opening, States
<1>2. ASSUME NEW state \in States(os), NEW i \in DOMAIN os
      PROVE  ValidatedIn(os, state, i) \in States(os)
  <2>1. state.balance \in [DOMAIN Start -> Double] /\ state.accepted \in SUBSET DOMAIN os
    BY DEF States
  <2>2. os[i] \in Order
    BY Shape
  <2>3. Cost(os[i]) \in Double
    <3>1. os[i].qty \in Nat /\ os[i].price \in Double
      BY <2>2 DEF Order
    <3>2. CASE os[i].price = NaN
      BY <3>2 DEF Cost, Times, Double
    <3>3. CASE os[i].price # NaN
      <4>1. os[i].price \in Int /\ os[i].qty \in Int /\ os[i].qty # NaN
        BY <3>1, <3>3 DEF Double
      <4>2. \A x, y \in Int : x * y \in Int
        OBVIOUS
      <4> QED
        BY <4>1, <4>2, <3>3 DEF Cost, Times, Double
    <3> QED
      BY <3>2, <3>3
  <2>4. ASSUME NEW x \in Double, NEW y \in Double PROVE Minus(x, y) \in Double
    BY DEF Minus, Double
  <2>5. ASSUME NEW a \in DOMAIN Start
        PROVE  [state.balance EXCEPT ![a] = Minus(@, Cost(os[i]))] \in [DOMAIN Start -> Double]
    BY <2>1, <2>3, <2>4
  <2>6. state.accepted \cup {i} \in SUBSET DOMAIN os
    BY <2>1
  <2> QED
    BY <2>1, <2>5, <2>6 DEF ValidatedIn, States
<1>3. StepIn(os) \in [States(os) \X DOMAIN os -> States(os)]
  BY <1>2 DEF StepIn
<1> QED
  BY <1>1, <1>3

\* The baseline is the fold of FoldTheorems.
LEMMA BaselineRuns ==
    ASSUME NEW os \in Workloads, NEW q \in Seq(DOMAIN os)
    PROVE  BaselineIn(os, q) = Run(StepIn(os), Opening, q)
<1> DEFINE V == States(os)
           D == DOMAIN os
           n == Len(q)
           h == CHOOSE f : IsBaseline(f, os, q)
<1>1. /\ Opening \in V /\ StepIn(os) \in [V \X D -> V]
      /\ \A v \in V, i \in D : StepIn(os)[<<v, i>>] = ValidatedIn(os, v, i)
  BY StepTyped DEF StepIn
<1>2. q \in Seq(D) /\ n \in Nat /\ DOMAIN q = 1 .. n /\ \A k \in 1 .. n : q[k] \in D
  OBVIOUS
<1> HIDE DEF V, D, n, h
<1>3. PICK g \in [SUBSET DOMAIN q -> V] : IsRun(g, StepIn(os), Opening, q)
  BY <1>1, <1>2, RunExists
<1>4. ASSUME NEW s \in SUBSET DOMAIN q, s # {}
      PROVE  /\ Max(s) \in s
             /\ g[s] = ValidatedIn(os, g[s \ {Max(s)}], q[Max(s)])
  <2>1. Max(s) \in s
    BY <1>2, <1>4, MaxIn
  <2>2. g[s] = StepIn(os)[<<g[s \ {Max(s)}], q[Max(s)]>>]
    BY <1>3, <1>4 DEF IsRun
  <2>3. g[s \ {Max(s)}] \in V /\ q[Max(s)] \in D
    BY <1>2, <1>3, <2>1
  <2> QED
    BY <2>1, <2>2, <2>3, <1>1
<1>5. g[{}] = Opening /\ g = [s \in SUBSET DOMAIN q |-> g[s]]
  BY <1>3 DEF IsRun
<1>6. IsBaseline(g, os, q)
  <2>1. \A s \in SUBSET DOMAIN q :
           g[s] = IF s = {} THEN Opening ELSE ValidatedIn(os, g[s \ {Max(s)}], q[Max(s)])
    BY <1>4, <1>5
  <2> QED
    BY <2>1, <1>5 DEF IsBaseline
<1>7. IsBaseline(h, os, q)
  BY <1>6 DEF h
<1>8. BaselineIn(os, q) = h[DOMAIN q]
  BY BaselineUnfolds DEF h
<1> DEFINE S == DOMAIN q
           Good == {s \in SUBSET S : g[s] = h[s]}
<1>9. IsFiniteSet(S)
  BY <1>2, FinitePositions
<1>10. {} \in Good
  BY <1>5, <1>7 DEF IsBaseline
<1>11. ASSUME NEW s \in SUBSET S, s # {}, \A x \in s : s \ {x} \in Good
       PROVE  s \in Good
  <2>1. h[s] = ValidatedIn(os, h[s \ {Max(s)}], q[Max(s)])
    BY <1>7, <1>11 DEF IsBaseline
  <2>2. Max(s) \in s /\ g[s] = ValidatedIn(os, g[s \ {Max(s)}], q[Max(s)])
    BY <1>4, <1>11
  <2>3. g[s \ {Max(s)}] = h[s \ {Max(s)}]
    BY <2>2, <1>11
  <2> QED
    BY <2>1, <2>2, <2>3
<1>12. SUBSET S \subseteq Good
  <2> HIDE DEF S, Good
  <2> QED
    BY <1>9, <1>10, <1>11, SubsetInduct
<1>13. g[DOMAIN q] = h[DOMAIN q]
  BY <1>12
<1>14. Run(StepIn(os), Opening, q) = g[DOMAIN q]
  BY <1>2, <1>3, RunIs
<1> QED
  BY <1>8, <1>13, <1>14

\* Running no order leaves the opening balances,
LEMMA BaselineEmpty ==
    ASSUME NEW os \in Workloads
    PROVE  BaselineIn(os, << >>) = Opening
<1>1. << >> \in Seq(DOMAIN os)
  OBVIOUS
<1>2. BaselineIn(os, << >>) = Run(StepIn(os), Opening, << >>)
  BY <1>1, BaselineRuns
<1> QED
  BY <1>2, StepTyped, RunEmpty

\* and one more order is one more validate().
LEMMA BaselineAppend ==
    ASSUME NEW os \in Workloads, NEW q \in Seq(DOMAIN os), NEW i \in DOMAIN os
    PROVE  BaselineIn(os, Append(q, i)) = ValidatedIn(os, BaselineIn(os, q), i)
<1>1. Append(q, i) \in Seq(DOMAIN os)
  OBVIOUS
<1>2. /\ BaselineIn(os, q) = Run(StepIn(os), Opening, q)
      /\ BaselineIn(os, Append(q, i)) = Run(StepIn(os), Opening, Append(q, i))
  BY <1>1, BaselineRuns
<1>3. /\ Run(StepIn(os), Opening, q) \in States(os)
      /\ Run(StepIn(os), Opening, Append(q, i)) = StepIn(os)[<<Run(StepIn(os), Opening, q), i>>]
  <2> DEFINE step == StepIn(os)
             base == Opening
             V    == States(os)
             D    == DOMAIN os
  <2>1. base \in V /\ Steps(step, V, D) /\ q \in Seq(D) /\ i \in D
    BY StepTyped DEF Steps
  <2> HIDE DEF step, base, V, D
  <2>2. Run(step, base, q) \in V /\ Run(step, base, Append(q, i)) = step[<<Run(step, base, q), i>>]
    BY <2>1, RunAppend
  <2> QED
    BY <2>2 DEF step, base, V
<1>4. \A v \in States(os) : StepIn(os)[<<v, i>>] = ValidatedIn(os, v, i)
  BY DEF StepIn
<1> QED
  BY <1>2, <1>3, <1>4

-----------------------------------------------------------------------------
(* Every step extends the sequential execution or leaves it alone.         *)

\* A quiet step keeps the sequential execution,
LEMMA QuietExplained ==
    ASSUME Handled, Explained, Quiet
    PROVE  Explained'
<1>1. PICK lin \in Seq(DOMAIN orders) : Explains(lin)
  BY DEF Explained
<1>2. /\ orders' = orders /\ balances' = balances /\ Effective' = Effective /\ Granting' = Granting
      /\ \A p \in precedes' : p \in precedes \/ p[2] \notin Effective
  BY DEF Quiet
<1>3. Baseline(lin)' = Baseline(lin)
  BY <1>2, BaselineIs, BaselineThen
<1>4. ASSUME NEW k \in DOMAIN lin, NEW l \in DOMAIN lin, k < l
      PROVE  <<lin[l], lin[k]>> \notin precedes'
  <2>1. lin[k] \in Effective /\ <<lin[l], lin[k]>> \notin precedes
    BY <1>1, <1>4 DEF Explains
  <2> QED
    BY <2>1, <1>2
<1>5. Explains(lin)'
  BY <1>1, <1>2, <1>3, <1>4 DEF Explains
<1>6. lin \in Seq(DOMAIN orders')
  BY <1>2
<1> QED
  BY <1>5, <1>6 DEF Explained

\* one that settles order i appends i to it,
LEMMA SettlesExplained ==
    ASSUME Handled, Explained, NEW i, Settles(i)
    PROVE  Explained'
<1>1. PICK lin \in Seq(DOMAIN orders) : Explains(lin)
  BY DEF Explained
<1> DEFINE q == Append(lin, i)
           n == Len(lin)
<1>2. /\ orders' = orders /\ precedes' = precedes /\ i \in DOMAIN orders /\ i \notin Effective
      /\ Effective' = Effective \cup {i}
      /\ [balance |-> balances', accepted |-> Granting'] =
            Validated([balance |-> balances, accepted |-> Granting], i)
  BY DEF Settles
<1>3. orders \in Workloads
  BY DEF Handled, RiskTypeOK
<1>4. /\ q \in Seq(DOMAIN orders) /\ n \in Nat /\ DOMAIN lin = 1 .. n /\ DOMAIN q = 1 .. n + 1
      /\ q[n + 1] = i /\ \A k \in 1 .. n : q[k] = lin[k]
  BY <1>2
<1>5. Baseline(q)' = [balance |-> balances', accepted |-> Granting']
  <2>1. Baseline(q)' = BaselineIn(orders, q)
    BY <1>2, BaselineThen
  <2>2. BaselineIn(orders, q) = ValidatedIn(orders, BaselineIn(orders, lin), i)
    BY <1>2, <1>3, BaselineAppend
  <2>3. BaselineIn(orders, lin) = [balance |-> balances, accepted |-> Granting]
    BY <1>1, BaselineIs DEF Explains
  <2>4. ValidatedIn(orders, [balance |-> balances, accepted |-> Granting], i) =
           Validated([balance |-> balances, accepted |-> Granting], i)
    BY DEF Validated, ValidatedIn
  <2> QED
    BY <2>1, <2>2, <2>3, <2>4, <1>2
<1> HIDE DEF q, n
<1>6. \A k \in 1 .. n : lin[k] \in Effective /\ lin[k] # i
  BY <1>1, <1>2, <1>4 DEF Explains
<1>7. \A k \in 1 .. n + 1 : k \in 1 .. n \/ k = n + 1
  BY <1>4
<1>8. ASSUME NEW k \in DOMAIN q, NEW l \in DOMAIN q, q[k] = q[l]
      PROVE  k = l
  BY <1>1, <1>4, <1>6, <1>7, <1>8 DEF Explains
<1>9. ASSUME NEW j PROVE j \in Effective' <=> \E k \in DOMAIN q : q[k] = j
  <2>1. j \in Effective <=> \E k \in 1 .. n : lin[k] = j
    BY <1>1, <1>4 DEF Explains
  <2>2. (\E k \in 1 .. n + 1 : q[k] = j) <=> (j = i \/ \E k \in 1 .. n : lin[k] = j)
    <3>1. n + 1 \in 1 .. n + 1 /\ 1 .. n \subseteq 1 .. n + 1
      BY <1>4
    <3> QED
      BY <3>1, <1>4, <1>7
  <2> QED
    BY <2>1, <2>2, <1>2, <1>4
<1>10. ASSUME NEW k \in DOMAIN q, NEW l \in DOMAIN q, k < l
       PROVE  <<q[l], q[k]>> \notin precedes'
  <2>1. k \in 1 .. n
    BY <1>4, <1>10
  <2>2. CASE l \in 1 .. n
    BY <2>1, <2>2, <1>1, <1>2, <1>4, <1>10 DEF Explains
  <2>3. CASE l = n + 1
    <3>1. i \notin Collected
      BY <1>2 DEF Effective
    <3>2. \A p \in precedes : \E x \in Collected, y \in 1 .. taken : p = <<x, y>>
      BY DEF Handled, Single
    <3>3. <<i, q[k]>> \notin precedes
      BY <3>1, <3>2
    <3> QED
      BY <2>3, <3>3, <1>2, <1>4
  <2> QED
    BY <2>2, <2>3, <1>4, <1>7
<1>11. Explains(q)'
  BY <1>5, <1>8, <1>9, <1>10 DEF Explains
<1>12. q \in Seq(DOMAIN orders')
  BY <1>2, <1>4
<1> QED
  BY <1>11, <1>12 DEF Explained

\* and it is empty to begin with.
LEMMA InitExplained == RiskInit => Explained
<1> SUFFICES ASSUME RiskInit PROVE Explained
  OBVIOUS
<1>1. orders \in Workloads /\ balances = Start
  BY DEF RiskInit
<1>2. Collected = {} /\ Accepted = {}
  BY DEF RiskInit, Collected, Accepted
<1>3. \A t \in Threads : ~Settled(t) /\ ~Approved(t)
  BY DEF RiskInit, Settled, Approved
<1>4. Effective = {} /\ Granting = {}
  BY <1>2, <1>3 DEF Effective, Granting
<1>5. Baseline(<< >>) = Opening
  BY <1>1, BaselineIs, BaselineEmpty
<1>6. Explains(<< >>)
  BY <1>1, <1>4, <1>5 DEF Explains, Opening
<1>7. << >> \in Seq(DOMAIN orders)
  OBVIOUS
<1> QED
  BY <1>6, <1>7 DEF Explained

\* Once every order has its result the sequential execution is complete.
LEMMA ExplainedSerializable ==
    ASSUME Handled, Explained
    PROVE  Serializable
<1> SUFFICES ASSUME Finished
             PROVE  \E q \in {s \in [DOMAIN orders -> DOMAIN orders] :
                                 /\ IsInjective(s)
                                 /\ \A i, j \in DOMAIN s : i < j => <<s[j], s[i]>> \notin precedes} :
                       Baseline(q).accepted = Accepted /\ Baseline(q).balance = balances
  BY DEF Serializable
<1> DEFINE N == Len(orders)
           D == 1 .. N
           f == [k \in D |-> results[k].order]
<1>1. orders \in Workloads /\ results \in Seq(Verdicts) /\ Len(results) = N
  BY DEF Handled, RiskTypeOK, Finished
<1>2. N \in Nat /\ DOMAIN orders = D /\ DOMAIN results = D
  BY <1>1, Shape
<1>3. IsFiniteSet(D) /\ Cardinality(D) = N
  BY <1>2, CountUp
<1>4. Effective \subseteq D
  BY <1>2, Bounds
<1>5. Collected \subseteq D
  BY <1>4 DEF Effective
<1>6. f \in Injection(D, D)
  <2>1. \A k \in D : results[k].order \in Collected
    BY <1>2 DEF Collected
  <2>2. \A k, l \in D : results[k].order = results[l].order => k = l
    BY <1>2 DEF Handled, Single
  <2>3. f \in [D -> D]
    BY <2>1, <1>5
  <2> QED
    BY <2>2, <2>3 DEF Injection, IsInjective
<1> HIDE DEF N, D
<1>7. f \in Surjection(D, D)
  <2> HIDE DEF f
  <2> QED
    BY <1>3, <1>6, FS_Injection
<1>8. Collected = D
  <2>1. ASSUME NEW i \in D PROVE i \in Collected
    <3>1. PICK k \in D : f[k] = i
      BY <1>7 DEF Surjection
    <3> QED
      BY <3>1, <1>2 DEF Collected
  <2> QED
    BY <2>1, <1>5
<1>9. Effective = D
  BY <1>4, <1>8 DEF Effective
<1>10. Granting = Accepted
  <2>1. ASSUME NEW t \in Threads, Approved(t) PROVE FALSE
    <3>1. vpc[t] # "idle"
      BY <2>1 DEF Approved
    <3> QED
      BY <3>1, <1>2, <1>8, InHand, Fresh
  <2> QED
    BY <2>1 DEF Granting
<1>11. PICK lin \in Seq(DOMAIN orders) : Explains(lin)
  BY DEF Explained
<1> DEFINE m == Len(lin)
           M == 1 .. m
<1>12. m \in Nat /\ DOMAIN lin = M /\ lin \in [M -> D]
  BY <1>2, <1>11
<1>13. IsFiniteSet(M) /\ Cardinality(M) = m
  <2>1. m \in Nat
    BY <1>12
  <2> HIDE DEF m
  <2> QED
    BY <2>1, CountUp
<1> HIDE DEF M, m
<1>14. lin \in Injection(M, D)
  BY <1>11, <1>12 DEF Explains, Injection, IsInjective
<1>15. lin \in Surjection(M, D)
  <2>1. \A i \in D : \E k \in M : lin[k] = i
    BY <1>9, <1>11, <1>12 DEF Explains
  <2> QED
    BY <2>1, <1>12 DEF Surjection
<1>16. m = N
  BY <1>3, <1>13, <1>14, <1>15, FS_Injection
<1>17. lin \in [DOMAIN orders -> DOMAIN orders] /\ DOMAIN lin = DOMAIN orders
  BY <1>2, <1>12, <1>16 DEF M, D
<1>18. IsInjective(lin) /\ \A i, j \in DOMAIN lin : i < j => <<lin[j], lin[i]>> \notin precedes
  BY <1>11 DEF Explains, IsInjective
<1>19. Baseline(lin) = [balance |-> balances, accepted |-> Accepted]
  BY <1>10, <1>11 DEF Explains
<1>20. Baseline(lin).accepted = Accepted /\ Baseline(lin).balance = balances
  BY <1>19
<1> QED
  BY <1>17, <1>18, <1>20, Zenon

\* Concurrent validation is strictly serializable: what any number of workers
\* decide on any workload, amounts that are NaN included, is what validate()
\* decides on the orders one after the other, in an order that keeps what
\* did not overlap apart.
THEOREM RiskSerializable == RiskSpec => []Serializable
<1>1. RiskInit => Handled /\ Explained
  BY InitHandled, InitExplained
<1>2. Handled /\ Explained /\ [RiskNext]_engineVars => Handled' /\ Explained'
  BY NextHandled, StepEffect, QuietExplained, SettlesExplained
<1>3. Handled /\ Explained => Serializable
  BY ExplainedSerializable
<1> QED
  BY <1>1, <1>2, <1>3, PTL DEF RiskSpec

-----------------------------------------------------------------------------
(* No double-spend                                                         *)

\* What the property adds up.
IsCostSum(g, os, S) ==
    g = [s \in SUBSET S |-> IF s = {} THEN 0 ELSE Cost(os[Pick(s)]) + g[s \ {Pick(s)}]]

CostsIn(os) == [i \in DOMAIN os |-> Cost(os[i])]

\* The sum of costs in NoDoubleSpend is a function on sets of orders,
LEMMA CostSumUnfolds ==
    ASSUME NEW os, NEW S
    PROVE  MapThenSumSet(LAMBDA i : Cost(os[i]), S) = (CHOOSE g : IsCostSum(g, os, S))[S]
  BY DEF MapThenSumSet, MapThenFoldSet, IsCostSum, Pick

\* namely the Total of FoldTheorems.
LEMMA CostSum ==
    ASSUME NEW os, NEW S, IsFiniteSet(S), S \subseteq DOMAIN os, \A i \in S : Cost(os[i]) \in Int
    PROVE  MapThenSumSet(LAMBDA i : Cost(os[i]), S) = Total(CostsIn(os), S)
<1> DEFINE w == CostsIn(os)
           h == CHOOSE g : IsCostSum(g, os, S)
<1>1. \A i \in S : w[i] = Cost(os[i]) /\ w[i] \in Int
  BY DEF CostsIn
<1> HIDE DEF w
<1>2. ASSUME NEW s \in SUBSET S, s # {} PROVE w[Pick(s)] = Cost(os[Pick(s)])
  BY <1>1, <1>2, PickIn
<1>3. ASSUME NEW g
      PROVE  [s \in SUBSET S |-> IF s = {} THEN 0 ELSE Cost(os[Pick(s)]) + g[s \ {Pick(s)}]]
               = [s \in SUBSET S |-> IF s = {} THEN 0 ELSE w[Pick(s)] + g[s \ {Pick(s)}]]
  BY <1>2
<1>4. \A g : IsCostSum(g, os, S) <=> IsSum(g, w, S)
  BY <1>3 DEF IsCostSum, IsSum
<1>5. \E g : IsSum(g, w, S)
  BY <1>1, SumExists
<1>6. IsCostSum(h, os, S)
  BY <1>4, <1>5
<1>7. MapThenSumSet(LAMBDA i : Cost(os[i]), S) = h[S]
  BY CostSumUnfolds
<1> HIDE DEF h
<1>8. Total(w, S) = h[S]
  BY <1>1, <1>4, <1>6, SumIs
<1> QED
  BY <1>7, <1>8 DEF w

\* Granted BUY orders have finite costs.
LEMMA BoughtCosts ==
    ASSUME NaN \notin Amounts, Handled, Booked, NEW a
    PROVE  /\ IsFiniteSet(Bought(a)) /\ Bought(a) \subseteq DOMAIN orders
           /\ \A i \in Bought(a) : Cost(orders[i]) \in Nat /\ Costs[i] = Cost(orders[i])
<1>1. orders \in Workloads /\ Granting \subseteq DOMAIN orders
  BY Bounds DEF Handled, RiskTypeOK
<1>2. Bought(a) \subseteq DOMAIN orders
  BY <1>1 DEF Bought
<1>3. IsFiniteSet(DOMAIN orders)
  BY <1>1, Shape, FinitePositions
<1>4. ASSUME NEW i \in Bought(a) PROVE Cost(orders[i]) \in Nat /\ Costs[i] = Cost(orders[i])
  <2>1. i \in DOMAIN orders /\ EarlyReason(orders[i]) = "" /\ orders[i].side = "BUY"
    BY <1>2 DEF Bought, Booked
  <2>2. Cost(orders[i]) \in Amounts
    BY <2>1, <1>1, CostIsAmount
  <2> QED
    BY <2>1, <2>2 DEF Costs
<1> QED
  BY <1>2, <1>3, <1>4, FS_Subset

\* Nothing has been debited to begin with.
LEMMA InitBooked == RiskInit => Booked
<1> SUFFICES ASSUME RiskInit PROVE Booked
  OBVIOUS
<1>1. Accepted = {} /\ \A t \in Threads : ~Approved(t)
  BY DEF RiskInit, Accepted, Approved
<1>2. Granting = {}
  BY <1>1 DEF Granting
<1>3. \A a : Bought(a) = {}
  BY <1>2 DEF Bought
<1>4. ASSUME NEW a \in DOMAIN Start
      PROVE  funded[a] = Start[a] /\ spent[a] = Total(Costs, Bought(a))
  <2>1. a \in Accounts
    OBVIOUS
  <2>2. funded[a] = Start[a] /\ spent[a] = 0
    BY <2>1 DEF RiskInit
  <2>3. Total(Costs, Bought(a)) = 0
    BY <1>3, SumEmpty
  <2> QED
    BY <2>2, <2>3
<1> QED
  BY <1>2, <1>4 DEF Booked

\* The books change when a BUY order is granted, and by what it costs.
LEMMA NextBooked ==
    ASSUME NaN \notin Amounts, Handled, Booked, [RiskNext]_engineVars
    PROVE  Booked'
<1>1. ASSUME orders' = orders, funded' = funded, spent' = spent, NEW G,
             \A a \in DOMAIN Start : Bought(a)' = Bought(a),
             \A i \in Granting' : EarlyReason(orders[i]) = ""
      PROVE  Booked'
  <2>1. Costs' = Costs
    BY <1>1 DEF Costs
  <2>2. \A a \in DOMAIN Start : funded'[a] = Start[a] /\ spent'[a] = Total(Costs', Bought(a)')
    BY <1>1, <2>1 DEF Booked
  <2> QED
    BY <1>1, <2>2 DEF Booked
<1>2. CASE Quiet
  <2>1. Granting' = Granting /\ orders' = orders /\ funded' = funded /\ spent' = spent
    BY <1>2 DEF Quiet
  <2>2. \A a \in DOMAIN Start : Bought(a)' = Bought(a)
    BY <2>1 DEF Bought
  <2> QED
    BY <1>1, <2>1, <2>2 DEF Booked
<1>3. ASSUME NEW i \in DOMAIN orders, Settles(i) PROVE Booked'
  <2>1. orders' = orders /\ funded' = funded /\ i \notin Effective /\ i \notin Granting
    BY <1>3, Bounds DEF Settles
  <2>2. CASE Granting' = Granting /\ spent' = spent
    <3>1. \A a \in DOMAIN Start : Bought(a)' = Bought(a)
      BY <2>1, <2>2 DEF Bought
    <3> QED
      BY <1>1, <2>1, <2>2, <3>1 DEF Booked
  <2>3. CASE /\ Granting' = Granting \cup {i} /\ EarlyReason(orders[i]) = ""
             /\ orders[i].side # "BUY" /\ spent' = spent
    <3>1. \A a \in DOMAIN Start : Bought(a)' = Bought(a)
      BY <2>1, <2>3 DEF Bought
    <3> QED
      BY <1>1, <2>1, <2>3, <3>1 DEF Booked
  <2>4. CASE /\ Granting' = Granting \cup {i} /\ EarlyReason(orders[i]) = ""
             /\ orders[i].side = "BUY" /\ orders[i].accountId \in DOMAIN Start
             /\ spent' = [spent EXCEPT ![orders[i].accountId] =
                             IF Cost(orders[i]) = NaN THEN @ ELSE @ + Cost(orders[i])]
    <3> DEFINE b == orders[i].accountId
    <3>1. Cost(orders[i]) \in Nat /\ Costs[i] = Cost(orders[i]) /\ Cost(orders[i]) # NaN
      <4>1. Cost(orders[i]) \in Amounts
        BY <2>4, CostIsAmount DEF Handled, RiskTypeOK
      <4> QED
        BY <4>1 DEF Costs
    <3>2. spent \in [Accounts -> Int] /\ b \in Accounts
      BY <2>4 DEF Handled, RiskTypeOK, TypeOK
    <3>3. Costs' = Costs
      BY <2>1 DEF Costs
    <3>4. ASSUME NEW a \in DOMAIN Start
          PROVE  funded'[a] = Start[a] /\ spent'[a] = Total(Costs', Bought(a)')
      <4>1. funded'[a] = Start[a] /\ spent[a] = Total(Costs, Bought(a)) /\ a \in Accounts
        BY <2>1 DEF Booked
      <4>2. CASE a # b
        <5>1. Bought(a)' = Bought(a)
          BY <2>1, <2>4, <4>2 DEF Bought
        <5>2. spent'[a] = spent[a]
          BY <2>4, <3>2, <4>1, <4>2
        <5> QED
          BY <4>1, <5>1, <5>2, <3>3
      <4>3. CASE a = b
        <5>1. Bought(a)' = Bought(a) \cup {i} /\ i \notin Bought(a)
          BY <2>1, <2>4, <4>3 DEF Bought
        <5>2. spent'[a] = spent[a] + Costs[i]
          BY <2>4, <3>1, <3>2, <4>1, <4>3
        <5>3. IsFiniteSet(Bought(a)) /\ \A j \in Bought(a) \cup {i} : Costs[j] \in Int
          BY <3>1, BoughtCosts
        <5> HIDE DEF b
        <5>4. Total(Costs, Bought(a) \cup {i}) = Total(Costs, Bought(a)) + Costs[i]
          BY <5>1, <5>3, SumAdd
        <5> QED
          BY <4>1, <5>1, <5>2, <5>4, <3>3
      <4> QED
        BY <4>2, <4>3
    <3>5. \A j \in Granting' : EarlyReason(orders[j]) = ""
      BY <2>4 DEF Booked
    <3> QED
      BY <3>4, <3>5, <2>1 DEF Booked
  <2> QED
    BY <1>3, <2>2, <2>3, <2>4 DEF Settles
<1> QED
  BY <1>2, <1>3, StepEffect

\* Books that agree and a solvent account leave no room for a double spend.
LEMMA BookedNoDoubleSpend ==
    ASSUME NaN \notin Amounts, Handled, Booked, Solvent
    PROVE  NoDoubleSpend
<1> SUFFICES ASSUME NEW a \in DOMAIN Start
             PROVE  MapThenSumSet(LAMBDA i : Cost(orders[i]), AcceptedBuys(a)) <= Start[a]
  BY DEF NoDoubleSpend
<1> DEFINE A == AcceptedBuys(a)
           B == Bought(a)
<1>1. A \subseteq B
  BY DEF AcceptedBuys, Bought, Granting, Accepted
<1>2. /\ IsFiniteSet(B) /\ B \subseteq DOMAIN orders
      /\ \A i \in B : Cost(orders[i]) \in Nat /\ Costs[i] = Cost(orders[i])
  BY BoughtCosts
<1>3. spent[a] = Total(Costs, B) /\ funded[a] = Start[a] /\ spent[a] <= funded[a]
  BY DEF Booked, Solvent, NoOverspend, Handled, RiskTypeOK
<1>4. spent[a] \in Int /\ Start[a] \in Nat
  BY DEF Handled, RiskTypeOK, TypeOK
<1>5. Costs = CostsIn(orders)
  BY DEF Costs, CostsIn
<1> HIDE DEF A, B
<1>6. IsFiniteSet(A) /\ A \subseteq DOMAIN orders /\ \A i \in A : Cost(orders[i]) \in Int
  BY <1>1, <1>2, FS_Subset
<1>7. MapThenSumSet(LAMBDA i : Cost(orders[i]), A) = Total(Costs, A)
  BY <1>5, <1>6, CostSum
<1>8. Total(Costs, A) \in Nat /\ Total(Costs, A) <= Total(Costs, B)
  BY <1>1, <1>2, SumPart
<1>9. Total(Costs, A) <= Start[a]
  BY <1>3, <1>4, <1>8
<1> QED
  BY <1>7, <1>9 DEF A

\* No double-spend at the level of the engine: what the accepted BUY orders of
\* an account cost together never exceeds what the account held before
\* trading, for any number of workers and orders, as long as no cost is NaN.
THEOREM RiskNoDoubleSpend ==
    ASSUME NaN \notin Amounts
    PROVE  RiskSpec => []NoDoubleSpend
<1>1. RiskInit => Handled /\ Solvent /\ Booked
  BY InitHandled, RiskInitStore, InitBooked
<1>2. Handled /\ Solvent /\ Booked /\ [RiskNext]_engineVars => Handled' /\ Solvent' /\ Booked'
  BY NextHandled, RiskUsesStore, NextSolvent, NextBooked
<1>3. Handled /\ Solvent /\ Booked => NoDoubleSpend
  BY BookedNoDoubleSpend
<1> QED
  BY <1>1, <1>2, <1>3, PTL DEF RiskSpec
=============================================================================
