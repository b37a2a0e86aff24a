--------------------------- MODULE CreditBudget ---------------------------
(***************************************************************************)
(* One instance's InstanceBudgetMonth rows and everybody who writes them:  *)
(* the metered services of the trust API and the control plane, the voice  *)
(* webhooks, the administrators who set a month's budget, and the Stripe   *)
(* webhook that turns a paid checkout into included credits.               *)
(*                                                                         *)
(* Every writer reads the row first and writes it with a later request to  *)
(* DynamoDB, so each operation is two actions.  A read that is only        *)
(* eventually consistent returns what a consistent read would have         *)
(* returned earlier: a read action long before its write covers it.        *)
(***************************************************************************)
EXTENDS Integers, FiniteSets, FiniteSetsExt

CONSTANTS
  Debits,      \* calls that charge credits
  Kind,        \* the service each call belongs to
  Target,      \* the AI job or scan, or the voice call, it charges for
  Cost,        \* the priced credits it charges
  Policies,    \* the overage policies the instance has: TRUE is "allow"
  Sets,        \* administrators' calls that set a month's budget
  Portal,      \* the sets that come through the portal
  Amounts,     \* the included credits a set may ask for
  Purchases,   \* credit purchases
  Credits,     \* the credits of a purchase
  Hooks,       \* webhook invocations that can run at once for one purchase
  MaxMonth,    \* bound: the months of a behaviour are 1..MaxMonth
  Grant,       \* the credits each month starts with; 0 means no row yet
  StoreErrors, \* whether a webhook's transaction may fail for other reasons
  MaxCrashes   \* bound: webhook invocations that die before they answer

Months == 1..MaxMonth

(* "debit": trust budget debits, previews and renders; "job": AI jobs and  *)
(* link-safety scans; "sms": SMS and mint conversations; "voice": calls.   *)
Kinds == {"debit", "job", "sms", "voice"}

ASSUME CreditAssumption ==
  /\ IsFiniteSet(Debits) /\ IsFiniteSet(Purchases)
  /\ \A r \in Debits : Kind[r] \in Kinds /\ Cost[r] \in Nat \ {0}
  /\ Policies \subseteq BOOLEAN /\ Portal \subseteq Sets /\ Amounts \subseteq Nat
  /\ \A p \in Purchases : Credits[p] \in Nat \ {0}
  /\ MaxMonth \in Nat \ {0} /\ \A m \in Months : Grant[m] \in Nat
  /\ StoreErrors \in BOOLEAN /\ MaxCrashes \in Nat

VARIABLES
  month,     \* the current calendar month
  budget,    \* the InstanceBudgetMonth row of each month
  debit,     \* per debit: its phase and what it read
  ledger,    \* per debit: its UsageLedgerEntry, of month 0 while there is none
  created,   \* the rows of AIJob, LinkSafetyBasicResult and UsageMeteringDedup
  lapsed,    \* history: charged calls whose row has expired since
  edit,      \* per set: its phase and what it read
  purchase,  \* the CreditPurchase rows
  stripe,    \* what Stripe knows of the purchase's checkout session
  hook,      \* per purchase and webhook invocation: what it is about to write
  acked,     \* purchases whose payment event Stripe has seen answered with 2xx
  crashes    \* webhook invocations that died so far

budgetVars == <<debit, ledger, created, lapsed>>
stripeVars == <<purchase, stripe, hook, acked, crashes>>
vars == <<month, budget, debit, ledger, created, lapsed, edit, purchase, stripe, hook, acked, crashes>>

Row == [exists : BOOLEAN, included : Nat, used : Nat]
NoDebit == [phase |-> "idle", month |-> 0, included |-> 0, used |-> 0, allow |-> FALSE]
Done == [phase |-> "done", month |-> 0, included |-> 0, used |-> 0, allow |-> FALSE]
NoEntry == [month |-> 0, included |-> 0, overage |-> 0]
NoEdit == [phase |-> "idle", month |-> 0, included |-> 0, used |-> 0]

Statuses == {"none", "pending", "paid", "failed", "expired"}
(* "short" is a checkout settled below the amount of its purchase.         *)
Sessions == {"none", "open", "processing", "paid", "short", "lapsed"}

Init ==
  /\ month = 1
  /\ budget = [m \in Months |-> [exists |-> Grant[m] > 0, included |-> Grant[m], used |-> 0]]
  /\ debit = [r \in Debits |-> NoDebit]
  /\ ledger = [r \in Debits |-> NoEntry]
  /\ created = {}
  /\ lapsed = {}
  /\ edit = [e \in Sets |-> NoEdit]
  /\ purchase = [p \in Purchases |-> [status |-> "none", month |-> 1]]
  /\ stripe = [p \in Purchases |-> "none"]
  /\ hook = [p \in Purchases |-> [h \in Hooks |-> "idle"]]
  /\ acked = {}
  /\ crashes = 0

----------------------------------------------------------------------------
(* Debits.                                                                 *)

MutIncludedPartNoFloor(included, used, delta) ==
  IF included - used >= delta THEN delta ELSE included - used

(* The part of a debit the included credits cover; the rest is overage.    *)
IncludedPart(included, used, delta) ==
  IF used >= included THEN 0
  ELSE IF included - used >= delta THEN delta ELSE included - used

MutDedupKeyPerCall(r, m) == [kind |-> Kind[r], of |-> r, month |-> m]

(* The row whose creation must succeed for the debit to commit.  A voice   *)
(* call's names the month and is kept; an AI job's or a scan's names the   *)
(* target only, and expires.                                               *)
DedupKey(r, m) ==
  [kind |-> Kind[r], of |-> Target[r], month |-> IF Kind[r] = "voice" THEN m ELSE 0]

(* Why a call answers without charging: there is no budget, the job is     *)
(* already there, or the credits are gone and overage is not allowed.      *)
Declined(r, allow) ==
  \/ ~budget[month].exists
  \/ Kind[r] = "job" /\ DedupKey(r, month) \in created
  \/ Kind[r] # "voice" /\ ~allow /\ budget[month].included < budget[month].used + Cost[r]

(* The call answers from what it read and charges nothing.                 *)
DebitDeclined(r, allow) ==
  /\ debit[r].phase = "idle"
  /\ Declined(r, allow)
  /\ debit' = [debit EXCEPT ![r] = Done]
  /\ UNCHANGED <<month, budget, ledger, created, lapsed, edit, stripeVars>>

(* The call reads the current month's row and goes on to charge it.        *)
loadInstanceBudgetMonth(r, allow) ==
  /\ debit[r].phase = "idle"
  /\ ~Declined(r, allow)
  /\ debit' = [debit EXCEPT ![r] =
       [phase |-> "read", month |-> month, included |-> budget[month].included,
        used |-> budget[month].used, allow |-> allow]]
  /\ UNCHANGED <<month, budget, ledger, created, lapsed, edit, stripeVars>>

MutConditionsNoIncluded(r) ==
  LET row == budget[debit[r].month] IN
  /\ row.exists
  /\ Kind[r] # "voice" /\ ~debit[r].allow => row.used <= debit[r].included - Cost[r]

(* The conditions of the debit's transaction on the row as it is now.      *)
budgetDebitConditions(r) ==
  LET row == budget[debit[r].month] IN
  /\ row.exists
  /\ Kind[r] \in {"debit", "job"} => row.included = debit[r].included
  /\ Kind[r] # "voice" /\ ~debit[r].allow => row.used <= debit[r].included - Cost[r]

MutUsedFromRead(r) == debit[r].used + Cost[r]

(* ADD usedCredits: the store adds to the value it holds.                  *)
UsedAfter(r) == budget[debit[r].month].used + Cost[r]

(* The transaction commits: usage, ledger entry and deduplication row.  An *)
(* existing deduplication row fails the whole transaction.                 *)
transactBudgetDebit(r) ==
  LET m == debit[r].month
      inc == IncludedPart(debit[r].included, debit[r].used, Cost[r])
      key == DedupKey(r, m)
  IN
  /\ debit[r].phase = "read"
  /\ budgetDebitConditions(r)
  /\ Kind[r] \in {"job", "voice"} => key \notin created
  /\ budget' = [budget EXCEPT ![m].used = UsedAfter(r)]
  /\ ledger' = [ledger EXCEPT ![r] = [month |-> m, included |-> inc, overage |-> Cost[r] - inc]]
  /\ created' = IF Kind[r] \in {"job", "voice"} THEN created \cup {key} ELSE created
  /\ debit' = [debit EXCEPT ![r] = Done]
  /\ UNCHANGED <<month, lapsed, edit, stripeVars>>

(* The transaction is refused or fails, or the process dies first.         *)
DebitFails(r) ==
  /\ debit[r].phase = "read"
  /\ debit' = [debit EXCEPT ![r] = Done]
  /\ UNCHANGED <<month, budget, ledger, created, lapsed, edit, stripeVars>>

(* What is left of an AI job or a scan expires: the job's row 24 hours or  *)
(* 30 days after it was queued, a result 7 or 30 days after it was stored. *)
(* The target is then unknown again and a later call may be charged.       *)
RowExpires(key) ==
  /\ key.kind = "job"
  /\ created' = created \ {key}
  /\ lapsed' = lapsed \cup
       {r \in Debits : ledger[r].month # 0 /\ DedupKey(r, ledger[r].month) = key}
  /\ UNCHANGED <<month, budget, debit, ledger, edit, stripeVars>>

----------------------------------------------------------------------------
(* Administrators set a month's budget.                                    *)

(* The portal refuses less than what it read as used.                      *)
SetAccepted(e, m, amount) == e \in Portal => amount >= budget[m].used

(* The handler reads the used credits it is going to keep.                 *)
ReadUsedCredits(e, m, amount) ==
  /\ edit[e].phase = "idle"
  /\ SetAccepted(e, m, amount)
  /\ edit' = [edit EXCEPT ![e] =
       [phase |-> "read", month |-> m, included |-> amount, used |-> budget[m].used]]
  /\ UNCHANGED <<month, budget, budgetVars, stripeVars>>

(* It then replaces the whole row, unconditionally.                        *)
CreateOrUpdateBudget(e) ==
  /\ edit[e].phase = "read"
  /\ budget' = [budget EXCEPT ![edit[e].month] =
       [exists |-> TRUE, included |-> edit[e].included, used |-> edit[e].used]]
  /\ edit' = [edit EXCEPT ![e].phase = "done"]
  /\ UNCHANGED <<month, budgetVars, stripeVars>>

----------------------------------------------------------------------------
(* Purchases.                                                              *)

(* The portal records a pending purchase for any month before it asks      *)
(* Stripe for a checkout session.                                          *)
createPendingCreditPurchase(p, m) ==
  /\ purchase[p].status = "none"
  /\ purchase' = [purchase EXCEPT ![p] = [status |-> "pending", month |-> m]]
  /\ UNCHANGED <<month, budget, budgetVars, edit, stripe, hook, acked, crashes>>

(* Stripe opens the session and the user is sent to it.                    *)
CreateCreditsCheckout(p) ==
  /\ purchase[p].status = "pending" /\ stripe[p] = "none"
  /\ stripe' = [stripe EXCEPT ![p] = "open"]
  /\ UNCHANGED <<month, budget, budgetVars, edit, purchase, hook, acked, crashes>>

(* Stripe gave no session; nobody has a URL to pay at.                     *)
markCreditPurchaseFailed(p) ==
  /\ purchase[p].status = "pending" /\ stripe[p] = "none"
  /\ purchase' = [purchase EXCEPT ![p].status = "failed"]
  /\ UNCHANGED <<month, budget, budgetVars, edit, stripe, hook, acked, crashes>>

(* Stripe's side of the session.  A completed checkout is paid at once, or *)
(* its payment is processed and succeeds or fails later; an open one may   *)
(* expire.                                                                 *)
SessionAdvances(p, state) ==
  /\ \/ stripe[p] = "open" /\ state \in {"processing", "paid", "short", "lapsed"}
     \/ stripe[p] = "processing" /\ state \in {"paid", "short", "lapsed"}
  /\ stripe' = [stripe EXCEPT ![p] = state]
  /\ UNCHANGED <<month, budget, budgetVars, edit, purchase, hook, acked, crashes>>

(* Whether a completion event carries a settled payment.  The event of a   *)
(* checkout that is still processing is answered and does nothing.         *)
stripeCheckoutSessionPaymentSettled(p) == stripe[p] \in {"paid", "short"}

MutAmountUnchecked(p) == TRUE

(* The session matches the purchase in session, customer, currency and     *)
(* amount; only the amount can be off for the purchase's own session.      *)
validateStripePaymentCheckoutAgainstPurchase(p) == stripe[p] # "short"

MutAnswerBeforeApplying(p, h) ==
  /\ hook[p][h] = "idle" /\ stripe[p] = "paid" /\ purchase[p].status # "paid"
  /\ hook' = [hook EXCEPT ![p][h] = "apply"]
  /\ acked' = acked \cup {p}
  /\ UNCHANGED <<month, budget, budgetVars, edit, purchase, stripe, crashes>>

(* A payment event is delivered, for the first time or again.              *)
handleStripePaymentCheckoutCompleted(p, h) ==
  /\ hook[p][h] = "idle"
  /\ stripeCheckoutSessionPaymentSettled(p)
  /\ validateStripePaymentCheckoutAgainstPurchase(p)
  /\ purchase[p].status # "paid"
  /\ hook' = [hook EXCEPT ![p][h] = "apply"]
  /\ UNCHANGED <<month, budget, budgetVars, edit, purchase, stripe, acked, crashes>>

(* A delivery that finds the purchase paid or the session not matching, or *)
(* cannot read the purchase, is answered with 200 all the same.            *)
PaymentSkipped(p, h) ==
  /\ hook[p][h] = "idle"
  /\ stripeCheckoutSessionPaymentSettled(p)
  /\ \/ purchase[p].status = "paid"
     \/ ~validateStripePaymentCheckoutAgainstPurchase(p)
     \/ StoreErrors
  /\ acked' = acked \cup {p}
  /\ UNCHANGED <<month, budget, budgetVars, edit, purchase, stripe, hook, crashes>>

MutPurchaseApplicable(p) == TRUE

(* The transaction's condition on the purchase.                            *)
PurchaseApplicable(p) == purchase[p].status = "pending"

(* The purchase becomes paid and its credits are added to its month's row, *)
(* which is created if need be.                                            *)
applyCreditPurchasePaid(p, h) ==
  LET m == purchase[p].month IN
  /\ hook[p][h] = "apply"
  /\ PurchaseApplicable(p)
  /\ purchase' = [purchase EXCEPT ![p].status = "paid"]
  /\ budget' = [budget EXCEPT ![m] =
       [exists |-> TRUE, included |-> @.included + Credits[p], used |-> @.used]]
  /\ hook' = [hook EXCEPT ![p][h] = "idle"]
  /\ acked' = acked \cup {p}
  /\ UNCHANGED <<month, budgetVars, edit, stripe, crashes>>

(* The transaction is refused, or the store fails: the webhook answers 200 *)
(* either way.                                                             *)
ApplyRefused(p, h) ==
  /\ hook[p][h] = "apply"
  /\ ~PurchaseApplicable(p) \/ StoreErrors
  /\ hook' = [hook EXCEPT ![p][h] = "idle"]
  /\ acked' = acked \cup {p}
  /\ UNCHANGED <<month, budget, budgetVars, edit, purchase, stripe, crashes>>

(* An expiry or payment failure is delivered and finds a pending purchase; *)
(* on any other it does nothing.                                           *)
SessionLapseDelivered(p, h) ==
  /\ hook[p][h] = "idle"
  /\ stripe[p] = "lapsed"
  /\ purchase[p].status = "pending"
  /\ hook' = [hook EXCEPT ![p][h] = "expire"]
  /\ UNCHANGED <<month, budget, budgetVars, edit, purchase, stripe, acked, crashes>>

(* The purchase is marked expired whatever its status is by now.           *)
handleStripeCheckoutSessionExpired(p, h) ==
  /\ hook[p][h] = "expire"
  /\ purchase' = [purchase EXCEPT ![p].status = "expired"]
  /\ hook' = [hook EXCEPT ![p][h] = "idle"]
  /\ UNCHANGED <<month, budget, budgetVars, edit, stripe, acked, crashes>>

(* An invocation dies before it writes; Stripe gets no answer.             *)
HookCrash(p, h) ==
  /\ hook[p][h] # "idle" /\ crashes < MaxCrashes
  /\ hook' = [hook EXCEPT ![p][h] = "idle"]
  /\ crashes' = crashes + 1
  /\ UNCHANGED <<month, budget, budgetVars, edit, purchase, stripe, acked>>

----------------------------------------------------------------------------
(* The calendar month changes under calls in flight.                       *)
NextMonth ==
  /\ month < MaxMonth
  /\ month' = month + 1
  /\ UNCHANGED <<budget, budgetVars, edit, stripeVars>>

DebitStep(r) ==
  \/ \E allow \in Policies : DebitDeclined(r, allow) \/ loadInstanceBudgetMonth(r, allow)
  \/ transactBudgetDebit(r)
  \/ DebitFails(r)

SetStep(e) ==
  \/ \E m \in Months, amount \in Amounts : ReadUsedCredits(e, m, amount)
  \/ CreateOrUpdateBudget(e)

CheckoutStep(p) ==
  \/ \E m \in Months : createPendingCreditPurchase(p, m)
  \/ CreateCreditsCheckout(p)
  \/ markCreditPurchaseFailed(p)
  \/ \E state \in Sessions : SessionAdvances(p, state)

HookStep(p, h) ==
  \/ handleStripePaymentCheckoutCompleted(p, h)
  \/ PaymentSkipped(p, h)
  \/ applyCreditPurchasePaid(p, h)
  \/ ApplyRefused(p, h)
  \/ SessionLapseDelivered(p, h)
  \/ handleStripeCheckoutSessionExpired(p, h)
  \/ HookCrash(p, h)

Next ==
  \/ \E r \in Debits : DebitStep(r)
  \/ \E key \in created : RowExpires(key)
  \/ \E e \in Sets : SetStep(e)
  \/ \E p \in Purchases : CheckoutStep(p) \/ \E h \in Hooks : HookStep(p, h)
  \/ NextMonth

Spec == Init /\ [][Next]_vars

(* Stripe redelivers a payment event until it is answered with 2xx, and an *)
(* invocation that did not die carries on.                                 *)
Delivery(p) ==
  /\ p \notin acked
  /\ \E h \in Hooks : handleStripePaymentCheckoutCompleted(p, h) \/ PaymentSkipped(p, h)

Fairness ==
  \A p \in Purchases :
    /\ WF_vars(Delivery(p))
    /\ \A h \in Hooks : WF_vars(applyCreditPurchasePaid(p, h) \/ ApplyRefused(p, h))

LiveSpec == Spec /\ Fairness

----------------------------------------------------------------------------
(* Properties.                                                             *)

(* Every row, snapshot, ledger entry and webhook phase has its type.       *)
TypeOK ==
  /\ month \in Months
  /\ budget \in [Months -> Row]
  /\ debit \in [Debits -> [phase : {"idle", "read", "done"}, month : 0..MaxMonth,
                           included : Nat, used : Nat, allow : BOOLEAN]]
  /\ ledger \in [Debits -> [month : 0..MaxMonth, included : Nat, overage : Nat]]
  /\ lapsed \subseteq Debits
  /\ edit \in [Sets -> [phase : {"idle", "read", "done"}, month : 0..MaxMonth,
                        included : Nat, used : Nat]]
  /\ purchase \in [Purchases -> [status : Statuses, month : Months]]
  /\ stripe \in [Purchases -> Sessions]
  /\ hook \in [Purchases -> [Hooks -> {"idle", "apply", "expire"}]]
  /\ acked \subseteq Purchases
  /\ crashes \in Nat

(* What each call has charged, and the calls a month's ledger names.       *)
Debited == [r \in Debits |-> ledger[r].included + ledger[r].overage]
EntriesOf(m) == {r \in Debits : ledger[r].month = m}

PaidIn(m) == {p \in Purchases : purchase[p].status = "paid" /\ purchase[p].month = m}

(* A month's used credits are what its ledger entries say was debited: no  *)
(* debit is lost, doubled or charged to another month (the debit's update  *)
(* and its ledger entry are one transaction).  With an administrator's set *)
(* in flight this is what "Preserve used credits" promises.                *)
UsedIsLedger ==
  \A m \in Months : budget[m].used = MapThenSumSet(LAMBDA r : Debited[r], EntriesOf(m))

(* A month's included credits are its grant and every paid purchase once,  *)
(* whatever the webhook is delivered, repeated or interrupted              *)
(* (applyCreditPurchasePaid).                                              *)
IncludedIsPurchased ==
  \A m \in Months :
    budget[m].included = Grant[m] + MapThenSumSet(LAMBDA p : Credits[p], PaidIn(m))

(* While overage is not allowed, no interleaving of stale reads, purchases *)
(* and portal budget changes lets a month's usage exceed its credits       *)
(* (budgetDebitConditions checks the row again when the debit commits).    *)
WithinBudget == \A m \in Months : budget[m].used <= budget[m].included

Charged(r) == ledger[r].month # 0

(* Two deliveries of one voice call are charged twice only in different    *)
(* months, and two requests for one AI job or scan only if what the first  *)
(* one stored expired before the second one's charge (UsageMeteringDedup   *)
(* rows are kept; AIJob, AIResult and LinkSafetyBasicResult rows have a    *)
(* TTL): of the charged calls whose row is still there, one per target.    *)
ChargedOnce ==
  \A r1, r2 \in Debits :
    /\ r1 # r2 /\ Kind[r1] = Kind[r2] /\ Kind[r1] \in {"job", "voice"}
    /\ Target[r1] = Target[r2]
    /\ Charged(r1) /\ Charged(r2) /\ {r1, r2} \cap lapsed = {}
    => Kind[r1] = "voice" /\ ledger[r1].month # ledger[r2].month

(* Credits are added only for a payment that Stripe has settled in full,   *)
(* not for a checkout whose asynchronous payment may still fail.           *)
CreditsNeedPayment == \A p \in Purchases : purchase[p].status = "paid" => stripe[p] = "paid"

(* A paid purchase stays paid: no late expiry event, duplicated delivery   *)
(* or second invocation turns it back.                                     *)
PaidIsFinal ==
  [][\A p \in Purchases : purchase[p].status = "paid" => purchase'[p].status = "paid"]_vars

(* Every payment settled in full ends as credits on the budget             *)
(* (docs/portal.md on the Stripe webhook).                                 *)
PaidIsCredited == \A p \in Purchases : stripe[p] = "paid" ~> purchase[p].status = "paid"
============================================================================
