------------------------ MODULE CreditBudgetProofs ------------------------
(***************************************************************************)
(* Proofs about CreditBudget for every set of debits, budget changes,      *)
(* purchases and webhook invocations and any number of months.             *)
(***************************************************************************)
EXTENDS CreditBudget, SetInduction, TLAPS

----------------------------------------------------------------------------
(* Types.                                                                  *)

LEMMA Parts ==
  ASSUME NEW included \in Nat, NEW used \in Nat, NEW delta \in Nat
  PROVE  IncludedPart(included, used, delta) \in 0..delta
BY DEF IncludedPart

LEMMA RowType ==
  ASSUME TypeOK, NEW m \in Months
  PROVE  budget[m].exists \in BOOLEAN /\ budget[m].included \in Nat /\ budget[m].used \in Nat
BY DEF TypeOK, Row

(* What a debit has read while its transaction is outstanding.             *)
ReadMonth == \A r \in Debits : debit[r].phase = "read" => debit[r].month \in Months
EditMonth == \A e \in Sets : edit[e].phase = "read" => edit[e].month \in Months
Typed == TypeOK /\ ReadMonth /\ EditMonth

LEMMA TypedInit == Init => Typed
<1> SUFFICES ASSUME Init PROVE Typed
  OBVIOUS
<1>1. \A m \in Months : Grant[m] \in Nat /\ (Grant[m] > 0) \in BOOLEAN
  BY CreditAssumption
<1>2. 1 \in Months /\ 0 \in 0..MaxMonth
  BY CreditAssumption DEF Months
<1>3. budget \in [Months -> Row]
  BY <1>1 DEF Init, Row
<1> QED BY <1>2, <1>3 DEF Init, Typed, TypeOK, ReadMonth, EditMonth, NoDebit, NoEntry, NoEdit,
     Statuses, Sessions

LEMMA DoneType ==
  /\ Done \in [phase : {"idle", "read", "done"}, month : 0..MaxMonth,
               included : Nat, used : Nat, allow : BOOLEAN]
  /\ Done.phase = "done"
BY CreditAssumption DEF Done

LEMMA DebitTyped == ASSUME Typed, NEW r \in Debits, DebitStep(r) PROVE Typed'
<1>0. Months \subseteq 0..MaxMonth /\ month \in Months
  BY CreditAssumption DEF Months, Typed, TypeOK
<1>1. CASE \E allow \in Policies : DebitDeclined(r, allow)
  BY <1>0, <1>1, DoneType DEF DebitDeclined, Typed, TypeOK, ReadMonth, EditMonth, stripeVars
<1>2. CASE \E allow \in Policies : loadInstanceBudgetMonth(r, allow)
  <2>1. PICK allow \in Policies : loadInstanceBudgetMonth(r, allow)
    BY <1>2
  <2>2. allow \in BOOLEAN /\ budget[month].included \in Nat /\ budget[month].used \in Nat
    BY <1>0, RowType, CreditAssumption DEF Typed
  <2> QED BY <2>1, <2>2, <1>0 DEF loadInstanceBudgetMonth, Typed, TypeOK, ReadMonth, EditMonth, stripeVars
<1>3. CASE transactBudgetDebit(r)
  <2> DEFINE m == debit[r].month
             inc == IncludedPart(debit[r].included, debit[r].used, Cost[r])
  <2>1. m \in Months /\ Cost[r] \in Nat
    BY <1>3, CreditAssumption DEF transactBudgetDebit, Typed, ReadMonth
  <2>6. debit[r].included \in Nat /\ debit[r].used \in Nat
    BY DEF Typed, TypeOK
  <2>7. inc \in 0..Cost[r]
    BY <2>1, <2>6, Parts
  <2>2. inc \in Nat /\ Cost[r] - inc \in Nat
    <3> HIDE DEF inc
    <3> QED BY <2>1, <2>7
  <2>3. UsedAfter(r) \in Nat
    BY <2>1, RowType DEF UsedAfter, Typed
  <2>4. budget' \in [Months -> Row]
    <3>1. budget' = [budget EXCEPT ![m].used = UsedAfter(r)]
      BY <1>3 DEF transactBudgetDebit
    <3>2. budget \in [Months -> Row]
      BY DEF Typed, TypeOK
    <3> QED BY <2>1, <2>3, <3>1, <3>2 DEF Row
  <2>5. ledger' \in [Debits -> [month : 0..MaxMonth, included : Nat, overage : Nat]]
    BY <1>3, <1>0, <2>1, <2>2 DEF transactBudgetDebit, Typed, TypeOK
  <2>8. /\ debit' = [debit EXCEPT ![r] = Done]
        /\ UNCHANGED <<month, lapsed, edit, purchase, stripe, hook, acked, crashes>>
    BY <1>3 DEF transactBudgetDebit, stripeVars
  <2>11. debit' \in [Debits -> [phase : {"idle", "read", "done"}, month : 0..MaxMonth,
                               included : Nat, used : Nat, allow : BOOLEAN]]
    <3>1. debit \in [Debits -> [phase : {"idle", "read", "done"}, month : 0..MaxMonth,
                                included : Nat, used : Nat, allow : BOOLEAN]]
      BY DEF Typed, TypeOK
    <3> QED BY <2>8, <3>1, DoneType
  <2>9. TypeOK'
    BY <2>4, <2>5, <2>8, <2>11, Zenon DEF Typed, TypeOK
  <2>10. ReadMonth' /\ EditMonth'
    BY <2>8, DoneType DEF Typed, TypeOK, ReadMonth, EditMonth
  <2> QED BY <2>9, <2>10 DEF Typed
<1>4. CASE DebitFails(r)
  BY <1>4, DoneType DEF DebitFails, Typed, TypeOK, ReadMonth, EditMonth, stripeVars
<1> QED BY <1>1, <1>2, <1>3, <1>4 DEF DebitStep

LEMMA SetTyped == ASSUME Typed, NEW e \in Sets, SetStep(e) PROVE Typed'
<1>0. Months \subseteq 0..MaxMonth
  BY CreditAssumption DEF Months
<1>1. CASE \E m \in Months, amount \in Amounts : ReadUsedCredits(e, m, amount)
  <2>1. PICK m \in Months, amount \in Amounts : ReadUsedCredits(e, m, amount)
    BY <1>1
  <2>2. amount \in Nat /\ budget[m].used \in Nat
    BY RowType, CreditAssumption DEF Typed
  <2> QED BY <2>1, <2>2, <1>0 DEF ReadUsedCredits, Typed, TypeOK, ReadMonth, EditMonth, budgetVars, stripeVars
<1>2. CASE CreateOrUpdateBudget(e)
  <2>1. budget' \in [Months -> Row]
    BY <1>2 DEF CreateOrUpdateBudget, Typed, TypeOK, EditMonth, Row
  <2> QED BY <1>2, <2>1 DEF CreateOrUpdateBudget, Typed, TypeOK, ReadMonth, EditMonth, budgetVars, stripeVars
<1> QED BY <1>1, <1>2 DEF SetStep

LEMMA CheckoutTyped == ASSUME Typed, NEW p \in Purchases, CheckoutStep(p) PROVE Typed'
<1>1. CASE \E m \in Months : createPendingCreditPurchase(p, m)
  BY <1>1 DEF createPendingCreditPurchase, Typed, TypeOK, ReadMonth, EditMonth, budgetVars, Statuses
<1>2. CASE CreateCreditsCheckout(p)
  BY <1>2 DEF CreateCreditsCheckout, Typed, TypeOK, ReadMonth, EditMonth, budgetVars, Sessions
<1>3. CASE markCreditPurchaseFailed(p)
  BY <1>3 DEF markCreditPurchaseFailed, Typed, TypeOK, ReadMonth, EditMonth, budgetVars, Statuses
<1>4. CASE \E state \in Sessions : SessionAdvances(p, state)
  BY <1>4 DEF SessionAdvances, Typed, TypeOK, ReadMonth, EditMonth, budgetVars
<1> QED BY <1>1, <1>2, <1>3, <1>4 DEF CheckoutStep

LEMMA HookTyped == ASSUME Typed, NEW p \in Purchases, NEW h \in Hooks, HookStep(p, h) PROVE Typed'
<1>1. CASE handleStripePaymentCheckoutCompleted(p, h)
  BY <1>1 DEF handleStripePaymentCheckoutCompleted, Typed, TypeOK, ReadMonth, EditMonth, budgetVars
<1>2. CASE PaymentSkipped(p, h)
  BY <1>2 DEF PaymentSkipped, Typed, TypeOK, ReadMonth, EditMonth, budgetVars
<1>3. CASE applyCreditPurchasePaid(p, h)
  <2>1. purchase[p].month \in Months /\ Credits[p] \in Nat
    BY CreditAssumption DEF Typed, TypeOK
  <2>2. budget' \in [Months -> Row]
    BY <1>3, <2>1 DEF applyCreditPurchasePaid, Typed, TypeOK, Row
  <2> QED BY <1>3, <2>2 DEF applyCreditPurchasePaid, Typed, TypeOK, ReadMonth, EditMonth, budgetVars, Statuses
<1>4. CASE ApplyRefused(p, h)
  BY <1>4 DEF ApplyRefused, Typed, TypeOK, ReadMonth, EditMonth, budgetVars
<1>5. CASE SessionLapseDelivered(p, h)
  BY <1>5 DEF SessionLapseDelivered, Typed, TypeOK, ReadMonth, EditMonth, budgetVars
<1>6. CASE handleStripeCheckoutSessionExpired(p, h)
  BY <1>6 DEF handleStripeCheckoutSessionExpired, Typed, TypeOK, ReadMonth, EditMonth, budgetVars, Statuses
<1>7. CASE HookCrash(p, h)
  BY <1>7 DEF HookCrash, Typed, TypeOK, ReadMonth, EditMonth, budgetVars
<1> QED BY <1>1, <1>2, <1>3, <1>4, <1>5, <1>6, <1>7 DEF HookStep

LEMMA TypedStep == ASSUME Typed, [Next]_vars PROVE Typed'
<1>1. CASE NextMonth
  BY <1>1, CreditAssumption DEF NextMonth, Typed, TypeOK, ReadMonth, EditMonth, budgetVars, stripeVars, Months
<1>2. CASE UNCHANGED vars
  BY <1>2 DEF vars, Typed, TypeOK, ReadMonth, EditMonth
<1>3. ASSUME NEW key \in created, RowExpires(key) PROVE Typed'
  BY <1>3 DEF RowExpires, Typed, TypeOK, ReadMonth, EditMonth, stripeVars
<1> QED BY <1>1, <1>2, <1>3, DebitTyped, SetTyped, CheckoutTyped, HookTyped DEF Next

(* Whatever the constants, the rows, snapshots, ledger entries, purchases  *)
(* and webhooks keep their types; credits never become negative.           *)
THEOREM BudgetTypes == Spec => []TypeOK
<1>1. Typed => TypeOK
  BY DEF Typed
<1> QED BY <1>1, TypedInit, TypedStep, PTL DEF Spec

----------------------------------------------------------------------------
(* Frames: which steps touch which variables.                              *)

(* Only a debit's own step, and an expiry, touches debits, ledger and      *)
(* deduplication rows.                                                     *)
LEMMA DebitFrame ==
  ASSUME [Next]_vars
  PROVE  \/ \E r \in Debits : DebitStep(r)
         \/ \E key \in created : RowExpires(key)
         \/ UNCHANGED budgetVars
<1>1. ASSUME NEW e \in Sets, SetStep(e) PROVE UNCHANGED budgetVars
  BY <1>1 DEF SetStep, ReadUsedCredits, CreateOrUpdateBudget
<1>2. ASSUME NEW p \in Purchases, CheckoutStep(p) PROVE UNCHANGED budgetVars
  BY <1>2 DEF CheckoutStep, createPendingCreditPurchase, CreateCreditsCheckout,
     markCreditPurchaseFailed, SessionAdvances
<1>3. ASSUME NEW p \in Purchases, NEW h \in Hooks, HookStep(p, h) PROVE UNCHANGED budgetVars
  BY <1>3 DEF HookStep, handleStripePaymentCheckoutCompleted, PaymentSkipped,
     applyCreditPurchasePaid, ApplyRefused, SessionLapseDelivered,
     handleStripeCheckoutSessionExpired, HookCrash
<1>4. CASE NextMonth \/ UNCHANGED vars
  BY <1>4 DEF NextMonth, vars, budgetVars
<1> QED BY <1>1, <1>2, <1>3, <1>4 DEF Next

(* Only checkouts and webhooks touch purchases and sessions.               *)
LEMMA StripeFrame ==
  ASSUME [Next]_vars
  PROVE  \/ \E p \in Purchases : CheckoutStep(p)
         \/ \E p \in Purchases, h \in Hooks : HookStep(p, h)
         \/ UNCHANGED stripeVars
<1>1. ASSUME NEW r \in Debits, DebitStep(r) PROVE UNCHANGED stripeVars
  BY <1>1 DEF DebitStep, DebitDeclined, loadInstanceBudgetMonth, transactBudgetDebit, DebitFails
<1>2. ASSUME NEW e \in Sets, SetStep(e) PROVE UNCHANGED stripeVars
  BY <1>2 DEF SetStep, ReadUsedCredits, CreateOrUpdateBudget
<1>3. CASE NextMonth \/ UNCHANGED vars
  BY <1>3 DEF NextMonth, vars, stripeVars
<1>4. ASSUME NEW key \in created, RowExpires(key) PROVE UNCHANGED stripeVars
  BY <1>4 DEF RowExpires
<1> QED BY <1>1, <1>2, <1>3, <1>4 DEF Next

----------------------------------------------------------------------------
(* One charge per target.                                                  *)

(* A committed job or voice debit has left its deduplication row, unless   *)
(* that has expired, and is over.                                          *)
RowsLeft ==
  \A r \in Debits : Charged(r) =>
    /\ debit[r].phase = "done"
    /\ Kind[r] \in {"job", "voice"} /\ r \notin lapsed => DedupKey(r, ledger[r].month) \in created

OnceInv == Typed /\ RowsLeft /\ ChargedOnce

LEMMA OnceInit == Init => OnceInv
BY TypedInit DEF Init, OnceInv, RowsLeft, ChargedOnce, Charged, NoEntry

LEMMA OnceStep == ASSUME OnceInv, [Next]_vars PROVE OnceInv'
<1>0. Typed'
  BY TypedStep DEF OnceInv
<1>1. CASE UNCHANGED budgetVars
  BY <1>0, <1>1 DEF OnceInv, RowsLeft, ChargedOnce, Charged, budgetVars, DedupKey
<1>2. ASSUME NEW r \in Debits, DebitStep(r) PROVE RowsLeft' /\ ChargedOnce'
  <2>1. CASE \E allow \in Policies : DebitDeclined(r, allow) \/ loadInstanceBudgetMonth(r, allow)
    <3>1. /\ debit[r].phase = "idle" /\ UNCHANGED <<ledger, created, lapsed>>
          /\ \A q \in Debits \ {r} : debit'[q] = debit[q]
      BY <2>1 DEF DebitDeclined, loadInstanceBudgetMonth, OnceInv, Typed, TypeOK
    <3>2. ~Charged(r)
      BY <3>1 DEF OnceInv, RowsLeft
    <3> QED BY <3>1, <3>2 DEF OnceInv, RowsLeft, ChargedOnce, Charged, DedupKey
  <2>2. CASE DebitFails(r)
    <3>1. /\ debit[r].phase = "read" /\ UNCHANGED <<ledger, created, lapsed>>
          /\ \A q \in Debits \ {r} : debit'[q] = debit[q]
      BY <2>2 DEF DebitFails, OnceInv, Typed, TypeOK
    <3>2. ~Charged(r)
      BY <3>1 DEF OnceInv, RowsLeft
    <3> QED BY <3>1, <3>2 DEF OnceInv, RowsLeft, ChargedOnce, Charged, DedupKey
  <2>3. CASE transactBudgetDebit(r)
    <3> DEFINE m == debit[r].month
               key == DedupKey(r, m)
    <3>1. /\ Kind[r] \in {"job", "voice"} => key \notin created /\ key \in created'
          /\ created \subseteq created' /\ UNCHANGED lapsed
          /\ ledger'[r].month = m
          /\ debit'[r].phase = "done"
          /\ \A q \in Debits \ {r} : ledger'[q] = ledger[q] /\ debit'[q] = debit[q]
      BY <2>3, DoneType DEF transactBudgetDebit, OnceInv, Typed, TypeOK
    <3>2. RowsLeft'
      <4> SUFFICES ASSUME NEW q \in Debits, Charged(q)'
                   PROVE  /\ debit'[q].phase = "done"
                          /\ Kind[q] \in {"job", "voice"} /\ q \notin lapsed' =>
                               DedupKey(q, ledger'[q].month) \in created'
        BY DEF RowsLeft, DedupKey
      <4>1. CASE q = r
        BY <4>1, <3>1
      <4>2. CASE q # r
        BY <4>2, <3>1 DEF OnceInv, RowsLeft, Charged
      <4> QED BY <4>1, <4>2
    <3>3. ASSUME NEW q \in Debits \ {r}, Charged(q), q \notin lapsed, Kind[q] = Kind[r],
                 Kind[r] \in {"job", "voice"}, Target[q] = Target[r]
          PROVE  Kind[r] = "voice" /\ ledger[q].month # m
      <4>1. DedupKey(q, ledger[q].month) \in created /\ key \notin created
        BY <3>1, <3>3 DEF OnceInv, RowsLeft
      <4> QED BY <4>1, <3>3 DEF DedupKey
    <3>4. ChargedOnce'
      <4> SUFFICES ASSUME NEW r1 \in Debits, NEW r2 \in Debits,
                          r1 # r2, Kind[r1] = Kind[r2], Kind[r1] \in {"job", "voice"},
                          Target[r1] = Target[r2], Charged(r1)', Charged(r2)',
                          r1 \notin lapsed', r2 \notin lapsed'
                   PROVE  Kind[r1] = "voice" /\ ledger'[r1].month # ledger'[r2].month
        BY DEF ChargedOnce
      <4>1. CASE r1 = r
        <5>1. Charged(r2) /\ ledger'[r2] = ledger[r2] /\ ledger'[r1].month = m
          BY <4>1, <3>1 DEF Charged
        <5> QED BY <4>1, <5>1, <3>1, <3>3
      <4>2. CASE r2 = r
        <5>1. Charged(r1) /\ ledger'[r1] = ledger[r1] /\ ledger'[r2].month = m
          BY <4>2, <3>1 DEF Charged
        <5> QED BY <4>2, <5>1, <3>1, <3>3
      <4>3. CASE r1 # r /\ r2 # r
        BY <4>3, <3>1 DEF OnceInv, ChargedOnce, Charged
      <4> QED BY <4>1, <4>2, <4>3
    <3> QED BY <3>2, <3>4
  <2> QED BY <1>2, <2>1, <2>2, <2>3 DEF DebitStep
<1>3. ASSUME NEW key \in created, RowExpires(key) PROVE RowsLeft' /\ ChargedOnce'
  <2>1. /\ UNCHANGED <<debit, ledger>> /\ created' = created \ {key} /\ lapsed \subseteq lapsed'
        /\ \A r \in Debits : Charged(r) /\ DedupKey(r, ledger[r].month) = key => r \in lapsed'
    BY <1>3 DEF RowExpires, Charged
  <2>2. RowsLeft'
    BY <2>1 DEF OnceInv, RowsLeft, Charged, DedupKey
  <2>3. ChargedOnce'
    BY <2>1 DEF OnceInv, ChargedOnce, Charged
  <2> QED BY <2>2, <2>3
<1> QED BY <1>0, <1>1, <1>2, <1>3, DebitFrame DEF OnceInv

(* However many requests or deliveries there are for one job, scan or      *)
(* voice call, a call is charged once a month, and a job or scan once for  *)
(* as long as a row of it is there, the month's end notwithstanding.       *)
THEOREM TargetsChargedOnce == Spec => []ChargedOnce
<1>1. OnceInv => ChargedOnce
  BY DEF OnceInv
<1> QED BY <1>1, OnceInit, OnceStep, PTL DEF Spec

----------------------------------------------------------------------------
(* Payments.                                                               *)

(* What a webhook invocation is about to write agrees with what Stripe     *)
(* has decided for good.                                                   *)
HooksAgree ==
  \A p \in Purchases, h \in Hooks :
    /\ hook[p][h] = "apply" => stripe[p] = "paid"
    /\ hook[p][h] = "expire" => stripe[p] = "lapsed"

PayInv == Typed /\ HooksAgree /\ CreditsNeedPayment

LEMMA PayInit == Init => PayInv
BY TypedInit DEF Init, PayInv, HooksAgree, CreditsNeedPayment

LEMMA PayCheckout ==
  ASSUME PayInv, NEW p \in Purchases, CheckoutStep(p)
  PROVE  HooksAgree' /\ CreditsNeedPayment'
<1>1. CASE \E m \in Months : createPendingCreditPurchase(p, m)
  BY <1>1 DEF createPendingCreditPurchase, PayInv, HooksAgree, CreditsNeedPayment, Typed, TypeOK
<1>2. CASE CreateCreditsCheckout(p)
  BY <1>2 DEF CreateCreditsCheckout, PayInv, HooksAgree, CreditsNeedPayment, Typed, TypeOK
<1>3. CASE markCreditPurchaseFailed(p)
  BY <1>3 DEF markCreditPurchaseFailed, PayInv, HooksAgree, CreditsNeedPayment, Typed, TypeOK
<1>4. CASE \E state \in Sessions : SessionAdvances(p, state)
  BY <1>4 DEF SessionAdvances, PayInv, HooksAgree, CreditsNeedPayment, Typed, TypeOK
<1> QED BY <1>1, <1>2, <1>3, <1>4 DEF CheckoutStep

LEMMA PayHook ==
  ASSUME PayInv, NEW p \in Purchases, NEW h \in Hooks, HookStep(p, h)
  PROVE  HooksAgree' /\ CreditsNeedPayment'
<1>1. CASE handleStripePaymentCheckoutCompleted(p, h)
  BY <1>1 DEF handleStripePaymentCheckoutCompleted, stripeCheckoutSessionPaymentSettled,
     validateStripePaymentCheckoutAgainstPurchase, PayInv, HooksAgree, CreditsNeedPayment, Typed, TypeOK
<1>2. CASE PaymentSkipped(p, h)
  BY <1>2 DEF PaymentSkipped, PayInv, HooksAgree, CreditsNeedPayment
<1>3. CASE applyCreditPurchasePaid(p, h)
  BY <1>3 DEF applyCreditPurchasePaid, PayInv, HooksAgree, CreditsNeedPayment, Typed, TypeOK
<1>4. CASE ApplyRefused(p, h)
  BY <1>4 DEF ApplyRefused, PayInv, HooksAgree, CreditsNeedPayment, Typed, TypeOK
<1>5. CASE SessionLapseDelivered(p, h)
  BY <1>5 DEF SessionLapseDelivered, PayInv, HooksAgree, CreditsNeedPayment, Typed, TypeOK
<1>6. CASE handleStripeCheckoutSessionExpired(p, h)
  BY <1>6 DEF handleStripeCheckoutSessionExpired, PayInv, HooksAgree, CreditsNeedPayment, Typed, TypeOK
<1>7. CASE HookCrash(p, h)
  BY <1>7 DEF HookCrash, PayInv, HooksAgree, CreditsNeedPayment, Typed, TypeOK
<1> QED BY <1>1, <1>2, <1>3, <1>4, <1>5, <1>6, <1>7 DEF HookStep

LEMMA PayStep == ASSUME PayInv, [Next]_vars PROVE PayInv'
<1>1. Typed'
  BY TypedStep DEF PayInv
<1>2. CASE UNCHANGED stripeVars
  BY <1>1, <1>2 DEF PayInv, HooksAgree, CreditsNeedPayment, stripeVars
<1> QED BY <1>1, <1>2, StripeFrame, PayCheckout, PayHook DEF PayInv

(* Whatever Stripe delivers, in whatever order and how often, only a       *)
(* payment settled in full is turned into credits.                         *)
THEOREM OnlySettledPaymentsCredit == Spec => []CreditsNeedPayment
<1>1. PayInv => CreditsNeedPayment
  BY DEF PayInv
<1> QED BY <1>1, PayInit, PayStep, PTL DEF Spec

(* The expiry handler's unconditional write never meets a paid purchase,   *)
(* because Stripe does not expire a paid session.                          *)
LEMMA PaidStays ==
  ASSUME PayInv, [Next]_vars, NEW p \in Purchases, purchase[p].status = "paid"
  PROVE  purchase'[p].status = "paid"
<1>0. purchase \in [Purchases -> [status : Statuses, month : Months]] /\ stripe[p] = "paid"
  BY DEF PayInv, Typed, TypeOK, CreditsNeedPayment
<1>1. ASSUME NEW q \in Purchases, CheckoutStep(q) PROVE purchase'[p].status = "paid"
  BY <1>0, <1>1 DEF CheckoutStep, createPendingCreditPurchase, CreateCreditsCheckout,
     markCreditPurchaseFailed, SessionAdvances
<1>2. ASSUME NEW q \in Purchases, NEW h \in Hooks, HookStep(q, h) PROVE purchase'[p].status = "paid"
  <2>1. CASE applyCreditPurchasePaid(q, h)
    BY <1>0, <2>1 DEF applyCreditPurchasePaid
  <2>2. CASE handleStripeCheckoutSessionExpired(q, h)
    <3>1. q # p
      BY <1>0, <2>2 DEF handleStripeCheckoutSessionExpired, PayInv, HooksAgree
    <3> QED BY <1>0, <3>1, <2>2 DEF handleStripeCheckoutSessionExpired
  <2>3. CASE UNCHANGED purchase
    BY <2>3
  <2> QED BY <1>2, <2>1, <2>2, <2>3 DEF HookStep, handleStripePaymentCheckoutCompleted,
       PaymentSkipped, ApplyRefused, SessionLapseDelivered, HookCrash
<1>3. CASE UNCHANGED stripeVars
  BY <1>3 DEF stripeVars
<1> QED BY <1>1, <1>2, <1>3, StripeFrame

(* A paid purchase stays paid: handleStripeCheckoutSessionExpired writes   *)
(* without a condition on the status and still never reaches one.          *)
THEOREM PaidPurchasesStayPaid == Spec => PaidIsFinal
<1> DEFINE Keeps == \A p \in Purchases : purchase[p].status = "paid" => purchase'[p].status = "paid"
<1>1. PayInv /\ [Next]_vars => Keeps
  BY PaidStays
<1>2. Spec => []PayInv
  BY PayInit, PayStep, PTL DEF Spec
<1>3. [][Keeps]_vars => PaidIsFinal
  BY PTL DEF PaidIsFinal
<1> QED BY <1>1, <1>2, <1>3, PTL DEF Spec

----------------------------------------------------------------------------
(* The cap.                                                                *)

(* The instances the cap is about: overage is never allowed, nothing is    *)
(* metered after the fact, budgets are only set through the portal, and no *)
(* budget is set at all if some debit does not recheck the included        *)
(* credits when it commits.                                                *)
Capped ==
  /\ Policies \subseteq {FALSE}
  /\ \A r \in Debits : Kind[r] # "voice"
  /\ Sets \subseteq Portal
  /\ Sets = {} \/ \A r \in Debits : Kind[r] # "sms"

(* What the outstanding reads are worth: a debit was read without overage  *)
(* and, if nobody sets budgets, the month still has the credits it saw; a  *)
(* portal set keeps no more used credits than it includes.                 *)
ReadsSound ==
  /\ \A r \in Debits : debit[r].phase = "read" =>
       /\ ~debit[r].allow
       /\ Sets = {} => debit[r].included <= budget[debit[r].month].included
  /\ \A e \in Sets : edit[e].phase = "read" => edit[e].used <= edit[e].included

CapInv == Typed /\ ReadsSound /\ WithinBudget

LEMMA CapInit == Init => CapInv
<1> SUFFICES ASSUME Init PROVE ReadsSound /\ WithinBudget
  BY TypedInit DEF CapInv
<1>1. ReadsSound
  BY DEF Init, ReadsSound, NoDebit, NoEdit
<1>2. WithinBudget
  BY CreditAssumption DEF Init, WithinBudget
<1> QED BY <1>1, <1>2

LEMMA CapDebit ==
  ASSUME Capped, CapInv, NEW r \in Debits, DebitStep(r)
  PROVE  ReadsSound' /\ WithinBudget'
<1>0. /\ debit \in [Debits -> [phase : {"idle", "read", "done"}, month : 0..MaxMonth,
                               included : Nat, used : Nat, allow : BOOLEAN]]
      /\ \A m \in Months : budget[m].included \in Nat /\ budget[m].used \in Nat
      /\ month \in Months
      /\ \A q \in Debits : debit[q].phase = "read" => debit[q].month \in Months
  BY RowType DEF CapInv, Typed, TypeOK, ReadMonth
<1>1. CASE \E allow \in Policies : DebitDeclined(r, allow)
  BY <1>0, <1>1, DoneType DEF DebitDeclined, CapInv, ReadsSound, WithinBudget
<1>2. CASE \E allow \in Policies : loadInstanceBudgetMonth(r, allow)
  <2>1. PICK allow \in Policies : loadInstanceBudgetMonth(r, allow)
    BY <1>2
  <2>2. allow = FALSE
    BY DEF Capped
  <2>3. /\ debit'[r].allow = FALSE /\ debit'[r].month = month
        /\ debit'[r].included = budget[month].included
        /\ \A q \in Debits \ {r} : debit'[q] = debit[q]
        /\ UNCHANGED <<budget, edit>>
    BY <1>0, <2>1, <2>2 DEF loadInstanceBudgetMonth
  <2> QED BY <1>0, <2>3 DEF CapInv, ReadsSound, WithinBudget
<1>3. CASE transactBudgetDebit(r)
  <2> DEFINE m == debit[r].month
  <2>1. /\ m \in Months /\ Cost[r] \in Nat /\ Kind[r] \in {"debit", "job", "sms"}
        /\ ~debit[r].allow /\ debit[r].included \in Nat
    BY <1>0, <1>3, CreditAssumption DEF transactBudgetDebit, Capped, CapInv, ReadsSound, Kinds
  <2>2. budget[m].used <= debit[r].included - Cost[r]
    BY <1>3, <2>1 DEF transactBudgetDebit, budgetDebitConditions
  <2>3. debit[r].included <= budget[m].included
    BY <1>0, <1>3, <2>1 DEF transactBudgetDebit, budgetDebitConditions, Capped, CapInv, ReadsSound
  <2>4. /\ budget'[m].included = budget[m].included
        /\ budget'[m].used = budget[m].used + Cost[r]
        /\ \A n \in Months \ {m} : budget'[n] = budget[n]
    BY <1>3, <2>1 DEF transactBudgetDebit, UsedAfter, CapInv, Typed, TypeOK, Row
  <2>5. /\ debit'[r].phase = "done" /\ UNCHANGED edit
        /\ \A q \in Debits \ {r} : debit'[q] = debit[q]
    BY <1>0, <1>3, DoneType DEF transactBudgetDebit
  <2>6. WithinBudget'
    BY <1>0, <2>1, <2>2, <2>3, <2>4 DEF CapInv, WithinBudget
  <2>7. \A n \in Months : budget'[n].included = budget[n].included
    BY <2>4
  <2>8. ReadsSound'
    BY <1>0, <2>5, <2>7 DEF CapInv, ReadsSound
  <2> QED BY <2>6, <2>8
<1>4. CASE DebitFails(r)
  BY <1>0, <1>4, DoneType DEF DebitFails, CapInv, ReadsSound, WithinBudget
<1> QED BY <1>1, <1>2, <1>3, <1>4 DEF DebitStep

LEMMA CapSet ==
  ASSUME Capped, CapInv, NEW e \in Sets, SetStep(e)
  PROVE  ReadsSound' /\ WithinBudget'
<1>0. /\ edit \in [Sets -> [phase : {"idle", "read", "done"}, month : 0..MaxMonth,
                            included : Nat, used : Nat]]
      /\ budget \in [Months -> Row] /\ e \in Portal /\ Sets # {}
      /\ UNCHANGED debit
  BY DEF CapInv, Typed, TypeOK, Capped, SetStep, ReadUsedCredits, CreateOrUpdateBudget, budgetVars
<1>1. CASE \E m \in Months, amount \in Amounts : ReadUsedCredits(e, m, amount)
  <2>1. PICK m \in Months, amount \in Amounts : ReadUsedCredits(e, m, amount)
    BY <1>1
  <2>2. amount \in Nat /\ budget[m].used \in Nat /\ budget[m].used <= amount
    BY <1>0, <2>1, RowType, CreditAssumption DEF ReadUsedCredits, SetAccepted, CapInv, Typed
  <2> QED BY <1>0, <2>1, <2>2 DEF ReadUsedCredits, CapInv, ReadsSound, WithinBudget
<1>2. CASE CreateOrUpdateBudget(e)
  BY <1>0, <1>2 DEF CreateOrUpdateBudget, CapInv, ReadsSound, WithinBudget, Typed, EditMonth
<1> QED BY <1>1, <1>2 DEF SetStep

LEMMA CapHook ==
  ASSUME CapInv, NEW p \in Purchases, NEW h \in Hooks, HookStep(p, h)
  PROVE  ReadsSound' /\ WithinBudget'
<1>1. CASE applyCreditPurchasePaid(p, h)
  <2> DEFINE m == purchase[p].month
  <2>1. m \in Months /\ Credits[p] \in Nat
    BY CreditAssumption DEF CapInv, Typed, TypeOK
  <2>2. \A n \in Months : budget[n].included \in Nat /\ budget[n].used \in Nat
    BY RowType DEF CapInv, Typed
  <2>3. \A n \in Months : /\ budget'[n].used = budget[n].used
                          /\ budget'[n].included \in Nat
                          /\ budget[n].included <= budget'[n].included
    <3>1. /\ budget'[m].used = budget[m].used
          /\ budget'[m].included = budget[m].included + Credits[p]
          /\ \A n \in Months \ {m} : budget'[n] = budget[n]
      BY <1>1, <2>1 DEF applyCreditPurchasePaid, CapInv, Typed, TypeOK
    <3> HIDE DEF m
    <3>2. budget'[m].included \in Nat /\ budget[m].included <= budget'[m].included
      BY <2>1, <2>2, <3>1
    <3> QED BY <2>1, <2>2, <3>1, <3>2
  <2>4. UNCHANGED <<debit, edit>>
    BY <1>1 DEF applyCreditPurchasePaid, budgetVars
  <2>5. WithinBudget'
    BY <2>2, <2>3 DEF CapInv, WithinBudget
  <2>6. ReadsSound'
    <3>1. \A r \in Debits : debit[r].phase = "read" =>
            debit[r].month \in Months /\ debit[r].included \in Nat
      BY DEF CapInv, Typed, TypeOK, ReadMonth
    <3> QED BY <2>2, <2>3, <2>4, <3>1 DEF CapInv, ReadsSound
  <2> QED BY <2>5, <2>6
<1>2. CASE UNCHANGED <<budget, debit, edit>>
  BY <1>2 DEF CapInv, ReadsSound, WithinBudget
<1> QED BY <1>1, <1>2 DEF HookStep, handleStripePaymentCheckoutCompleted, PaymentSkipped,
     ApplyRefused, SessionLapseDelivered, handleStripeCheckoutSessionExpired, HookCrash, budgetVars

LEMMA CapStep == ASSUME Capped, CapInv, [Next]_vars PROVE CapInv'
<1>0. Typed'
  BY TypedStep DEF CapInv
<1>1. CASE \E p \in Purchases : CheckoutStep(p)
  <2>1. UNCHANGED <<budget, debit, edit>>
    BY <1>1 DEF CheckoutStep, createPendingCreditPurchase, CreateCreditsCheckout,
       markCreditPurchaseFailed, SessionAdvances, budgetVars
  <2> QED BY <1>0, <2>1 DEF CapInv, ReadsSound, WithinBudget
<1>2. CASE NextMonth \/ UNCHANGED vars
  <2>1. UNCHANGED <<budget, debit, edit>>
    BY <1>2 DEF NextMonth, vars, budgetVars
  <2> QED BY <1>0, <2>1 DEF CapInv, ReadsSound, WithinBudget
<1>3. ASSUME NEW key \in created, RowExpires(key) PROVE CapInv'
  BY <1>0, <1>3 DEF RowExpires, CapInv, ReadsSound, WithinBudget
<1> QED BY <1>0, <1>1, <1>2, <1>3, CapDebit, CapSet, CapHook DEF Next, CapInv

(* With overage off, debits that act on stale reads of the budget can      *)
(* together never use more credits than the month has, whatever purchases  *)
(* and portal changes happen in between.                                   *)
THEOREM CapIsNeverExceeded == ASSUME Capped PROVE Spec => []WithinBudget
<1>1. CapInv => WithinBudget
  BY DEF CapInv
<1>2. CapInv /\ [Next]_vars => CapInv'
  BY CapStep
<1> QED BY <1>1, <1>2, CapInit, PTL DEF Spec

----------------------------------------------------------------------------
(* The ledger.                                                             *)

DebitedIn(m) ==
  [r \in Debits |-> IF ledger[r].month = m THEN ledger[r].included + ledger[r].overage ELSE 0]

(* A month's used credits are the sum of its ledger entries.               *)
LedgerSums == \A m \in Months : SumsTo(Debits, DebitedIn(m), budget[m].used)

LEMMA SumsInit == Init => LedgerSums
<1> SUFFICES ASSUME Init, NEW m \in Months PROVE SumsTo(Debits, DebitedIn(m), budget[m].used)
  BY DEF LedgerSums
<1>1. m # 0
  BY CreditAssumption DEF Months
<1>2. DebitedIn(m) = [r \in Debits |-> 0] /\ budget[m].used = 0
  BY <1>1 DEF Init, DebitedIn, NoEntry
<1> QED BY <1>2, SumOfZeros

(* A committed debit adds its cost to one month's sum and to no other.     *)
LEMMA SumsDebit ==
  ASSUME OnceInv, LedgerSums, NEW r \in Debits, transactBudgetDebit(r)
  PROVE  LedgerSums'
<1> DEFINE m == debit[r].month
           inc == IncludedPart(debit[r].included, debit[r].used, Cost[r])
<1>1. m \in Months /\ m # 0 /\ Cost[r] \in Nat
  BY CreditAssumption DEF transactBudgetDebit, OnceInv, Typed, ReadMonth, Months
<1>2. inc \in 0..Cost[r]
  BY <1>1, Parts DEF OnceInv, Typed, TypeOK
<1>3. ledger \in [Debits -> [month : 0..MaxMonth, included : Nat, overage : Nat]]
  BY DEF OnceInv, Typed, TypeOK
<1>4. ledger[r].month = 0
  BY DEF OnceInv, RowsLeft, Charged, transactBudgetDebit
<1>5. /\ ledger'[r].month = m /\ ledger'[r].included + ledger'[r].overage = Cost[r]
      /\ \A q \in Debits \ {r} : ledger'[q] = ledger[q]
  <2>1. ledger' = [ledger EXCEPT ![r] = [month |-> m, included |-> inc, overage |-> Cost[r] - inc]]
    BY DEF transactBudgetDebit
  <2> HIDE DEF inc
  <2> QED BY <2>1, <1>1, <1>2, <1>3
<1>6. /\ budget'[m].used = budget[m].used + Cost[r]
      /\ \A n \in Months \ {m} : budget'[n] = budget[n]
  BY <1>1 DEF transactBudgetDebit, UsedAfter, OnceInv, Typed, TypeOK, Row
<1> HIDE DEF m
<1>7. ASSUME NEW n \in Months PROVE SumsTo(Debits, DebitedIn(n)', budget'[n].used)
  <2>4. DebitedIn(n) \in [Debits -> Nat]
    BY <1>3 DEF DebitedIn
  <2>1. DebitedIn(n) \in [Debits -> Nat] /\ SumsTo(Debits, DebitedIn(n), budget[n].used)
    BY <2>4 DEF LedgerSums
  <2>2. CASE n = m
    <3>1. DebitedIn(n)[r] = 0
      BY <1>1, <1>4, <2>2 DEF DebitedIn
    <3>2. DebitedIn(n)' = [DebitedIn(n) EXCEPT ![r] = @ + Cost[r]]
      BY <1>1, <1>5, <2>1, <2>2, <3>1 DEF DebitedIn
    <3>3. SumsTo(Debits, [DebitedIn(n) EXCEPT ![r] = @ + Cost[r]], budget[n].used + Cost[r])
      BY <1>1, <2>1, SumAdd
    <3> QED BY <1>6, <2>2, <3>2, <3>3
  <2>3. CASE n # m
    <3>1. n # 0
      BY CreditAssumption DEF Months
    <3>2. DebitedIn(n)' = DebitedIn(n)
      BY <1>4, <1>5, <2>3, <3>1 DEF DebitedIn
    <3> QED BY <1>6, <2>1, <2>3, <3>2
  <2> QED BY <2>2, <2>3
<1> QED BY <1>7 DEF LedgerSums

LEMMA SumsStep == ASSUME Sets = {}, OnceInv, LedgerSums, [Next]_vars PROVE LedgerSums'
<1> DEFINE Kept == UNCHANGED ledger /\ \A m \in Months : budget'[m].used = budget[m].used
<1>1. ASSUME NEW r \in Debits, DebitStep(r) PROVE transactBudgetDebit(r) \/ Kept
  BY <1>1 DEF DebitStep, DebitDeclined, loadInstanceBudgetMonth, DebitFails
<1>2. ASSUME NEW p \in Purchases, CheckoutStep(p) PROVE Kept
  BY <1>2 DEF CheckoutStep, createPendingCreditPurchase, CreateCreditsCheckout,
     markCreditPurchaseFailed, SessionAdvances, budgetVars
<1>3. ASSUME NEW p \in Purchases, NEW h \in Hooks, HookStep(p, h) PROVE Kept
  <2>1. CASE applyCreditPurchasePaid(p, h)
    BY <2>1 DEF applyCreditPurchasePaid, budgetVars, OnceInv, Typed, TypeOK
  <2>2. CASE UNCHANGED <<budget, ledger>>
    BY <2>2
  <2> QED BY <1>3, <2>1, <2>2 DEF HookStep, handleStripePaymentCheckoutCompleted, PaymentSkipped,
       ApplyRefused, SessionLapseDelivered, handleStripeCheckoutSessionExpired, HookCrash, budgetVars
<1>4. ASSUME NextMonth \/ UNCHANGED vars PROVE Kept
  BY <1>4 DEF NextMonth, vars, budgetVars
<1>5. Kept => LedgerSums'
  BY DEF LedgerSums, DebitedIn
<1>6. ASSUME NEW key \in created, RowExpires(key) PROVE Kept
  BY <1>6 DEF RowExpires
<1> QED BY <1>1, <1>2, <1>3, <1>4, <1>5, <1>6, SumsDebit DEF Next

(* While no administrator sets the budget, usage and ledger agree: a debit *)
(* is never lost, counted twice or booked to another month, whatever the   *)
(* interleaving of reads, transactions and month ends.                     *)
THEOREM UsageIsTheLedger == ASSUME Sets = {} PROVE Spec => []UsedIsLedger
<1>1. OnceInv /\ LedgerSums /\ [Next]_vars => OnceInv' /\ LedgerSums'
  BY OnceStep, SumsStep
<1>2. OnceInv /\ LedgerSums => UsedIsLedger
  <2> SUFFICES ASSUME OnceInv, LedgerSums, NEW m \in Months
               PROVE  budget[m].used = MapThenSumSet(LAMBDA r : Debited[r], EntriesOf(m))
    BY DEF UsedIsLedger
  <2>1. PICK V : V = EntriesOf(m)
    OBVIOUS
  <2>2. PICK g : g = Debited
    OBVIOUS
  <2>3. PICK f : f = DebitedIn(m)
    OBVIOUS
  <2>4. ledger \in [Debits -> [month : 0..MaxMonth, included : Nat, overage : Nat]]
    BY DEF OnceInv, Typed, TypeOK
  <2>5. \A r \in Debits : g[r] \in Nat
    BY <2>2, <2>4 DEF Debited
  <2>6. /\ V \in SUBSET Debits /\ f \in [Debits -> Nat]
        /\ \A r \in Debits \ V : f[r] = 0
        /\ \A r \in V : g[r] = f[r]
    BY <2>1, <2>2, <2>3, <2>4 DEF EntriesOf, Debited, DebitedIn
  <2>7. IsFiniteSet(Debits) /\ IsFiniteSet(V) /\ SumsTo(Debits, f, budget[m].used)
    BY <2>3, <2>6, CreditAssumption, FS_Subset DEF LedgerSums
  <2>8. SumsTo(V, g, budget[m].used)
    BY <2>6, <2>7, SumOfPart
  <2>9. FoldedSum(V, g) = budget[m].used
    BY <2>5, <2>6, <2>7, <2>8, SumIsFold
  <2> QED BY <2>1, <2>2, <2>9 DEF FoldedSum, FoldOf, First, MapThenSumSet, MapThenFoldSet
<1> QED BY <1>1, <1>2, OnceInit, SumsInit, PTL DEF Spec

----------------------------------------------------------------------------
(* Purchased credits.                                                      *)

PurchasedIn(m) == [p \in Purchases |-> IF p \in PaidIn(m) THEN Credits[p] ELSE 0]

(* What a month has beyond its grant is the sum of its paid purchases.     *)
PurchaseSums ==
  \A m \in Months : SumsTo(Purchases, PurchasedIn(m), budget[m].included - Grant[m])

LEMMA PurchaseSumsInit == Init => PurchaseSums
<1> SUFFICES ASSUME Init, NEW m \in Months
             PROVE  SumsTo(Purchases, PurchasedIn(m), budget[m].included - Grant[m])
  BY DEF PurchaseSums
<1>1. PurchasedIn(m) = [p \in Purchases |-> 0]
  BY DEF Init, PurchasedIn, PaidIn
<1>2. budget[m].included - Grant[m] = 0
  BY CreditAssumption DEF Init
<1> QED BY <1>1, <1>2, SumOfZeros

LEMMA PurchasedType ==
  ASSUME NEW m
  PROVE  PurchasedIn(m) \in [Purchases -> Nat]
BY CreditAssumption DEF PurchasedIn

(* The transaction adds the purchase to one month's sum and to no other.   *)
LEMMA PurchaseApplied ==
  ASSUME PayInv, PurchaseSums, NEW p \in Purchases, NEW h \in Hooks, applyCreditPurchasePaid(p, h)
  PROVE  PurchaseSums'
<1> DEFINE m == purchase[p].month
<1>1. /\ purchase \in [Purchases -> [status : Statuses, month : Months]]
      /\ budget \in [Months -> Row] /\ m \in Months /\ Credits[p] \in Nat
  BY CreditAssumption DEF PayInv, Typed, TypeOK
<1>2. /\ purchase[p].status = "pending" /\ purchase'[p].status = "paid" /\ purchase'[p].month = m
      /\ \A q \in Purchases \ {p} : purchase'[q] = purchase[q]
  BY <1>1 DEF applyCreditPurchasePaid, PurchaseApplicable, Statuses
<1>3. /\ budget'[m].included = budget[m].included + Credits[p]
      /\ \A n \in Months \ {m} : budget'[n] = budget[n]
  BY <1>1 DEF applyCreditPurchasePaid, Row
<1> HIDE DEF m
<1>4. ASSUME NEW n \in Months PROVE SumsTo(Purchases, PurchasedIn(n)', budget'[n].included - Grant[n])
  <2>1. /\ PurchasedIn(n) \in [Purchases -> Nat] /\ budget[n].included \in Nat /\ Grant[n] \in Nat
        /\ SumsTo(Purchases, PurchasedIn(n), budget[n].included - Grant[n])
    BY <1>1, PurchasedType, CreditAssumption DEF PurchaseSums, Row
  <2>2. CASE n = m
    <3>1. PurchasedIn(n)[p] = 0
      BY <1>2 DEF PurchasedIn, PaidIn
    <3>2. PurchasedIn(n)' = [PurchasedIn(n) EXCEPT ![p] = @ + Credits[p]]
      BY <1>1, <1>2, <2>1, <2>2, <3>1 DEF PurchasedIn, PaidIn
    <3>3. SumsTo(Purchases, [PurchasedIn(n) EXCEPT ![p] = @ + Credits[p]],
                 (budget[n].included - Grant[n]) + Credits[p])
      BY <1>1, <2>1, SumAdd
    <3>4. budget'[n].included - Grant[n] = (budget[n].included - Grant[n]) + Credits[p]
      BY <1>1, <1>3, <2>1, <2>2
    <3> QED BY <3>2, <3>3, <3>4
  <2>3. CASE n # m
    <3>1. PurchasedIn(n)' = PurchasedIn(n)
      BY <1>2, <2>3 DEF PurchasedIn, PaidIn
    <3> QED BY <1>3, <2>1, <2>3, <3>1
  <2> QED BY <2>2, <2>3
<1> QED BY <1>4 DEF PurchaseSums

LEMMA PurchaseStep ==
  ASSUME Sets = {}, PayInv, PurchaseSums, [Next]_vars
  PROVE  PurchaseSums'
<1> DEFINE Keeps == /\ \A q \in Purchases, m \in Months : q \in PaidIn(m)' <=> q \in PaidIn(m)
                    /\ \A m \in Months : budget'[m].included = budget[m].included
<1>0. /\ purchase \in [Purchases -> [status : Statuses, month : Months]]
      /\ budget \in [Months -> Row]
  BY DEF PayInv, Typed, TypeOK
<1>1. ASSUME NEW r \in Debits, DebitStep(r) PROVE Keeps
  <2>1. UNCHANGED purchase
    BY <1>1 DEF DebitStep, DebitDeclined, loadInstanceBudgetMonth, transactBudgetDebit, DebitFails,
       stripeVars
  <2>2. \A m \in Months : budget'[m].included = budget[m].included
    <3>1. CASE transactBudgetDebit(r)
      <4>1. PICK u : budget' = [budget EXCEPT ![debit[r].month].used = u]
        BY <3>1 DEF transactBudgetDebit
      <4> QED BY <1>0, <4>1 DEF Row
    <3> QED BY <1>1, <3>1 DEF DebitStep, DebitDeclined, loadInstanceBudgetMonth, DebitFails
  <2> QED BY <2>1, <2>2 DEF PaidIn
<1>2. ASSUME NEW p \in Purchases, CheckoutStep(p) PROVE Keeps
  <2>1. UNCHANGED budget
    BY <1>2 DEF CheckoutStep, createPendingCreditPurchase, CreateCreditsCheckout,
       markCreditPurchaseFailed, SessionAdvances
  <2>2. CASE UNCHANGED purchase
    BY <2>1, <2>2 DEF PaidIn
  <2>3. CASE \E m \in Months : createPendingCreditPurchase(p, m)
    BY <1>0, <2>1, <2>3 DEF createPendingCreditPurchase, PaidIn
  <2>4. CASE markCreditPurchaseFailed(p)
    BY <1>0, <2>1, <2>4 DEF markCreditPurchaseFailed, PaidIn
  <2> QED BY <1>2, <2>2, <2>3, <2>4 DEF CheckoutStep, CreateCreditsCheckout, SessionAdvances
<1>3. ASSUME NEW p \in Purchases, NEW h \in Hooks, HookStep(p, h)
      PROVE  applyCreditPurchasePaid(p, h) \/ Keeps
  <2>1. CASE UNCHANGED <<budget, purchase>>
    BY <2>1 DEF PaidIn
  <2>2. CASE handleStripeCheckoutSessionExpired(p, h)
    <3>1. purchase[p].status # "paid"
      BY <2>2 DEF handleStripeCheckoutSessionExpired, PayInv, HooksAgree, CreditsNeedPayment
    <3> QED BY <1>0, <2>2, <3>1 DEF handleStripeCheckoutSessionExpired, PaidIn
  <2> QED BY <1>3, <2>1, <2>2 DEF HookStep, handleStripePaymentCheckoutCompleted, PaymentSkipped,
       ApplyRefused, SessionLapseDelivered, HookCrash
<1>4. ASSUME NextMonth \/ UNCHANGED vars PROVE Keeps
  BY <1>4 DEF NextMonth, vars, stripeVars, PaidIn
<1>5. Keeps => PurchaseSums'
  <2> SUFFICES ASSUME Keeps, NEW m \in Months
               PROVE  SumsTo(Purchases, PurchasedIn(m)', budget'[m].included - Grant[m])
    BY DEF PurchaseSums
  <2>1. PurchasedIn(m)' = PurchasedIn(m)
    BY DEF PurchasedIn
  <2> QED BY <2>1 DEF PurchaseSums
<1>6. ASSUME NEW key \in created, RowExpires(key) PROVE Keeps
  BY <1>6 DEF RowExpires, stripeVars, PaidIn
<1> HIDE DEF Keeps
<1> QED BY <1>1, <1>2, <1>3, <1>4, <1>5, <1>6, PurchaseApplied DEF Next

(* While no administrator sets the budget, a month includes its grant and  *)
(* every paid purchase exactly once: no delivery of the payment event is   *)
(* applied twice, lost after it was applied, or credited to another month, *)
(* however webhook invocations overlap, die or are repeated.               *)
THEOREM PurchasesCountOnce == ASSUME Sets = {} PROVE Spec => []IncludedIsPurchased
<1>1. PayInv /\ PurchaseSums /\ [Next]_vars => PayInv' /\ PurchaseSums'
  BY PayStep, PurchaseStep
<1>2. PayInv /\ PurchaseSums => IncludedIsPurchased
  <2> SUFFICES ASSUME PayInv, PurchaseSums, NEW m \in Months
               PROVE  budget[m].included
                        = Grant[m] + MapThenSumSet(LAMBDA p : Credits[p], PaidIn(m))
    BY DEF IncludedIsPurchased
  <2>1. PICK V : V = PaidIn(m)
    OBVIOUS
  <2>2. PICK f : f = PurchasedIn(m)
    OBVIOUS
  <2>3. PICK total : total = budget[m].included - Grant[m]
    OBVIOUS
  <2>4. /\ V \in SUBSET Purchases /\ f \in [Purchases -> Nat]
        /\ \A p \in Purchases \ V : f[p] = 0
        /\ \A p \in V : Credits[p] = f[p] /\ Credits[p] \in Nat
    BY <2>1, <2>2, PurchasedType, CreditAssumption DEF PurchasedIn, PaidIn
  <2>5. IsFiniteSet(Purchases) /\ IsFiniteSet(V) /\ SumsTo(Purchases, f, total)
    BY <2>2, <2>3, <2>4, CreditAssumption, FS_Subset DEF PurchaseSums
  <2>6. SumsTo(V, Credits, total)
    BY <2>4, <2>5, SumOfPart
  <2>7. FoldedSum(V, Credits) = total
    BY <2>4, <2>5, <2>6, SumIsFold
  <2>8. budget[m].included \in Nat /\ Grant[m] \in Nat
    BY CreditAssumption, RowType DEF PayInv, Typed
  <2>9. MapThenSumSet(LAMBDA p : Credits[p], PaidIn(m)) = total
    BY <2>1, <2>7 DEF FoldedSum, FoldOf, First, MapThenSumSet, MapThenFoldSet
  <2> QED BY <2>3, <2>8, <2>9
<1> QED BY <1>1, <1>2, PayInit, PurchaseSumsInit, PTL DEF Spec
============================================================================
