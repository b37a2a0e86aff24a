-------------------------- MODULE MCCreditBudget --------------------------
(***************************************************************************)
(* Instances of CreditBudget for TLC: the calls and the values of its      *)
(* function-valued constants.                                              *)
(***************************************************************************)
EXTENDS CreditBudget, TLC

CONSTANTS
  v1, v2,  \* two deliveries of one voice call
  j1, j2,  \* two requests for one AI job
  s1,      \* an SMS
  d1       \* a plain debit

CallKind ==
  v1 :> "voice" @@ v2 :> "voice" @@ j1 :> "job" @@ j2 :> "job" @@ s1 :> "sms" @@ d1 :> "debit"
CallTarget == v1 :> "a" @@ v2 :> "a" @@ j1 :> "a" @@ j2 :> "a" @@ s1 :> "a" @@ d1 :> "a"
StrictCost == j1 :> 2 @@ j2 :> 2 @@ d1 :> 1
MeteredCost == v1 :> 2 @@ v2 :> 2 @@ j1 :> 1 @@ j2 :> 1 @@ s1 :> 1

(* The deliveries, the requests and the webhook invocations are alike.     *)
MeteredSymmetry ==
  {f @@ g @@ h : f \in Permutations({v1, v2}), g \in Permutations({j1, j2}), h \in Permutations(Hooks)}

OneCredit == <<2>>
TwoCredits == <<1, 2>>
OneMonth == <<2>>
TwoMonths == <<2, 0>>
============================================================================
