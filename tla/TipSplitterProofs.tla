------------------------- MODULE TipSplitterProofs -------------------------
(***************************************************************************)
(* Proofs about TipSplitter for every set of wallets, tokens, hosts,       *)
(* amounts, fees and limits.  The state falls into groups of variables     *)
(* that few actions touch (hosts, allowlist, limits, ledgers); each group  *)
(* has an inductive invariant of its own, and the frame lemmas say which   *)
(* steps may touch which group.                                            *)
(***************************************************************************)
EXTENDS TipSplitter, SetInduction

----------------------------------------------------------------------------
(* Frames.                                                                 *)

(* Only the host-registry calls touch the host registry.                   *)
LEMMA HostFrame == ASSUME Next PROVE HostStep \/ UNCHANGED hostVars
<1>1. CASE TipStep
  BY <1>1 DEF TipStep, tipETH, tipToken, tipAgent, Tip, hostVars
<1>2. CASE BatchStep
  BY <1>2 DEF BatchStep, BatchTip, BatchIteration, hostVars
<1>3. CASE PayoutStep
  BY <1>3 DEF PayoutStep, withdraw, sweepStray, CallReturns, Donate, hostVars
<1>4. CASE AdminStep
  BY <1>4 DEF AdminStep, AllowToken, DisallowToken, setMaxTipAmount, setMinTipAmount,
     pause, unpause, setWithdrawalsPaused, setAgentIdentityRegistry, hostVars
<1> QED BY <1>1, <1>2, <1>3, <1>4 DEF Next

(* Only setTokenAllowed touches the allowlist.                             *)
LEMMA ListFrame ==
  ASSUME Next
  PROVE  (\E token \in Tokens : AllowToken(token) \/ DisallowToken(token)) \/ UNCHANGED listVars
<1>1. CASE TipStep
  BY <1>1 DEF TipStep, tipETH, tipToken, tipAgent, Tip, listVars
<1>2. CASE BatchStep
  BY <1>2 DEF BatchStep, BatchTip, BatchIteration, listVars
<1>3. CASE PayoutStep
  BY <1>3 DEF PayoutStep, withdraw, sweepStray, CallReturns, Donate, listVars
<1>4. CASE HostStep
  BY <1>4 DEF HostStep, registerHost, updateHost, setHostActive, setLesserWallet, listVars
<1>5. CASE AdminStep
  BY <1>5 DEF AdminStep, setMaxTipAmount, setMinTipAmount,
     pause, unpause, setWithdrawalsPaused, setAgentIdentityRegistry, listVars
<1> QED BY <1>1, <1>2, <1>3, <1>4, <1>5 DEF Next

(* Only setMaxTipAmount and setMinTipAmount touch the limits.              *)
LEMMA LimitFrame ==
  ASSUME Next
  PROVE  \/ \E x \in Assets, amount \in Limits :
              setMaxTipAmount(x, amount) \/ setMinTipAmount(x, amount)
         \/ UNCHANGED limitVars
<1>1. CASE TipStep
  BY <1>1 DEF TipStep, tipETH, tipToken, tipAgent, Tip, limitVars
<1>2. CASE BatchStep
  BY <1>2 DEF BatchStep, BatchTip, BatchIteration, limitVars
<1>3. CASE PayoutStep
  BY <1>3 DEF PayoutStep, withdraw, sweepStray, CallReturns, Donate, limitVars
<1>4. CASE HostStep
  BY <1>4 DEF HostStep, registerHost, updateHost, setHostActive, setLesserWallet, limitVars
<1>5. CASE AdminStep
  BY <1>5 DEF AdminStep, AllowToken, DisallowToken,
     pause, unpause, setWithdrawalsPaused, setAgentIdentityRegistry, limitVars
<1> QED BY <1>1, <1>2, <1>3, <1>4, <1>5 DEF Next

(* Administration and host calls leave the ledgers and the open            *)
(* transaction alone.                                                      *)
LEMMA LedgerFrame ==
  ASSUME Next
  PROVE  TipStep \/ BatchStep \/ PayoutStep \/ UNCHANGED <<ledgerVars, txVars, received>>
<1>1. CASE HostStep
  BY <1>1 DEF HostStep, registerHost, updateHost, setHostActive, setLesserWallet, ledgerVars, txVars
<1>2. CASE AdminStep
  BY <1>2 DEF AdminStep, AllowToken, DisallowToken, setMaxTipAmount, setMinTipAmount,
     pause, unpause, setWithdrawalsPaused, setAgentIdentityRegistry, ledgerVars, txVars
<1> QED BY <1>1, <1>2 DEF Next

----------------------------------------------------------------------------
(* The host registry.                                                      *)

HostsOf(w) == {h \in HostIds : hosts[h].wallet = w}

HostTypeOK ==
  /\ lesserWallet \in Wallets
  /\ hosts \in [HostIds -> HostConfig]
  /\ hostWalletRefCount \in [Wallets -> Nat]

(* The count setLesserWallet reads is exact.                               *)
RefCountExact == \A w \in Wallets : hostWalletRefCount[w] = Cardinality(HostsOf(w))

HostInv == HostTypeOK /\ RefCountExact /\ LesserWalletIsNoHost

(* Moving a host from one wallet to another changes the two sets of hosts  *)
(* by that host and no other set.                                          *)
LEMMA HostsOfUpdate ==
  ASSUME HostTypeOK, NEW h \in HostIds, NEW c \in HostConfig, hosts' = [hosts EXCEPT ![h] = c],
         NEW w \in Wallets
  PROVE  HostsOf(w)' = IF c.wallet = w THEN HostsOf(w) \cup {h} ELSE HostsOf(w) \ {h}
BY DEF HostsOf, HostTypeOK, HostConfig

LEMMA HostsOfFinite == \A w : IsFiniteSet(HostsOf(w)) /\ Cardinality(HostsOf(w)) \in Nat
<1> SUFFICES ASSUME NEW w PROVE IsFiniteSet(HostsOf(w)) /\ Cardinality(HostsOf(w)) \in Nat
  OBVIOUS
<1>1. HostsOf(w) \in SUBSET HostIds
  BY DEF HostsOf
<1>2. IsFiniteSet(HostsOf(w))
  BY <1>1, FiniteAssumption, FS_Subset
<1> QED BY <1>2, FS_CardinalityType

LEMMA HostInvInit == Init => HostInv
<1> SUFFICES ASSUME Init PROVE HostInv
  OBVIOUS
<1>1. HostTypeOK
  BY DEF Init, HostTypeOK, HostConfig, NoHost, Accounts, MAX_HOST_FEE_BPS
<1>2. \A w \in Wallets : HostsOf(w) = {}
  BY AddressAssumption DEF Init, HostsOf, NoHost
<1>3. RefCountExact
  BY <1>2, FS_EmptySet DEF RefCountExact, Init
<1>4. LesserWalletIsNoHost
  BY AddressAssumption DEF LesserWalletIsNoHost, Init, NoHost
<1> QED BY <1>1, <1>3, <1>4 DEF HostInv

LEMMA HostInvStep == HostInv /\ [Next]_vars => HostInv'
<1> SUFFICES ASSUME HostInv, [Next]_vars PROVE HostInv'
  OBVIOUS
<1> USE DEF HostInv
<1>1. CASE UNCHANGED hostVars
  BY <1>1 DEF hostVars, HostTypeOK, RefCountExact, LesserWalletIsNoHost, HostsOf
<1>2. ASSUME NEW h \in HostIds, NEW w \in Wallets, NEW f \in Fees, registerHost(h, w, f)
      PROVE  HostInv'
  <2> DEFINE c == [wallet |-> w, feeBps |-> f, isActive |-> TRUE]
  <2>1. c \in HostConfig
    BY <1>2, NumberAssumption DEF registerHost, HostConfig, Accounts, MAX_HOST_FEE_BPS
  <2>2. HostTypeOK'
    BY <1>2, <2>1 DEF registerHost, HostTypeOK
  <2>3. RefCountExact'
    <3> SUFFICES ASSUME NEW v \in Wallets
                 PROVE  hostWalletRefCount'[v] = Cardinality(HostsOf(v)')
      BY DEF RefCountExact
    <3>1. HostsOf(v)' = IF w = v THEN HostsOf(v) \cup {h} ELSE HostsOf(v) \ {h}
      BY <1>2, <2>1, HostsOfUpdate DEF registerHost
    <3>2. h \notin HostsOf(v)
      BY <1>2, AddressAssumption DEF registerHost, HostsOf
    <3>3. HostsOf(v) \ {h} = HostsOf(v)
      BY <3>2
    <3>4. Cardinality(HostsOf(v) \cup {h}) = Cardinality(HostsOf(v)) + 1
      BY <3>2, HostsOfFinite, FS_AddElement
    <3> QED BY <1>2, <3>1, <3>3, <3>4 DEF registerHost, RefCountExact, HostTypeOK
  <2>4. LesserWalletIsNoHost'
    BY <1>2 DEF registerHost, LesserWalletIsNoHost, HostTypeOK
  <2> QED BY <2>2, <2>3, <2>4
<1>3. ASSUME NEW h \in HostIds, NEW w \in Wallets, NEW f \in Fees, updateHost(h, w, f)
      PROVE  HostInv'
  <2> DEFINE c   == [wallet |-> w, feeBps |-> f, isActive |-> hosts[h].isActive]
             old == hosts[h].wallet
  <2>1. c \in HostConfig /\ old \in Wallets
    BY <1>3, NumberAssumption DEF updateHost, HostTypeOK, HostConfig, Accounts, MAX_HOST_FEE_BPS
  <2>2. \A v \in Wallets : h \in HostsOf(v) <=> v = old
    BY DEF HostsOf
  <2>3. hosts' = [hosts EXCEPT ![h] = c] /\ lesserWallet' = lesserWallet
    BY <1>3 DEF updateHost
  <2>4. CASE w = old
    <3>1. hostWalletRefCount' = hostWalletRefCount
      BY <1>3, <2>4 DEF updateHost, MovedRefCount
    <3>2. \A v \in Wallets : HostsOf(v)' = HostsOf(v)
      BY <2>1, <2>3, <2>4 DEF HostsOf, HostTypeOK
    <3>3. HostTypeOK' /\ LesserWalletIsNoHost'
      BY <2>1, <2>3, <2>4, <3>1 DEF HostTypeOK, LesserWalletIsNoHost
    <3> QED BY <3>1, <3>2, <3>3 DEF RefCountExact
  <2>5. CASE w # old
    <3>1. hostWalletRefCount' = [hostWalletRefCount EXCEPT ![old] = @ - 1, ![w] = @ + 1]
      BY <1>3, <2>5 DEF updateHost, MovedRefCount
    <3>2. \A v \in Wallets : Cardinality(HostsOf(v)') =
            IF v = w THEN Cardinality(HostsOf(v)) + 1
            ELSE IF v = old THEN Cardinality(HostsOf(v)) - 1 ELSE Cardinality(HostsOf(v))
      <4> SUFFICES ASSUME NEW v \in Wallets
                   PROVE  Cardinality(HostsOf(v)') =
                            IF v = w THEN Cardinality(HostsOf(v)) + 1
                            ELSE IF v = old THEN Cardinality(HostsOf(v)) - 1 ELSE Cardinality(HostsOf(v))
        OBVIOUS
      <4>1. HostsOf(v)' = IF w = v THEN HostsOf(v) \cup {h} ELSE HostsOf(v) \ {h}
        BY <2>1, <2>3, HostsOfUpdate
      <4>2. IsFiniteSet(HostsOf(v))
        BY HostsOfFinite
      <4>3. Cardinality(HostsOf(v) \cup {h}) =
              IF h \in HostsOf(v) THEN Cardinality(HostsOf(v)) ELSE Cardinality(HostsOf(v)) + 1
        BY <4>2, FS_AddElement
      <4>4. Cardinality(HostsOf(v) \ {h}) =
              IF h \in HostsOf(v) THEN Cardinality(HostsOf(v)) - 1 ELSE Cardinality(HostsOf(v))
        BY <4>2, FS_RemoveElement
      <4> QED BY <2>2, <2>5, <4>1, <4>3, <4>4
    <3>3. Cardinality(HostsOf(old)) # 0
      BY <2>1, <2>2, HostsOfFinite, FS_EmptySet
    <3>4. hostWalletRefCount[old] - 1 \in Nat
      BY <2>1, <3>3 DEF HostTypeOK, RefCountExact
    <3>5. HostTypeOK'
      BY <2>1, <2>3, <3>1, <3>4, <2>5 DEF HostTypeOK
    <3>6. RefCountExact'
      BY <2>1, <2>5, <3>1, <3>2 DEF HostTypeOK, RefCountExact
    <3>7. LesserWalletIsNoHost'
      BY <1>3, <2>3 DEF updateHost, HostTypeOK, LesserWalletIsNoHost
    <3> QED BY <3>5, <3>6, <3>7
  <2> QED BY <2>4, <2>5
<1>4. ASSUME NEW h \in HostIds, NEW b \in BOOLEAN, setHostActive(h, b)
      PROVE  HostInv'
  <2> DEFINE c == [wallet |-> hosts[h].wallet, feeBps |-> hosts[h].feeBps, isActive |-> b]
  <2>1. c \in HostConfig
    BY DEF HostTypeOK, HostConfig
  <2>2. hosts' = [hosts EXCEPT ![h] = c] /\ UNCHANGED <<lesserWallet, hostWalletRefCount>>
    BY <1>4 DEF setHostActive
  <2>3. \A v \in Wallets : HostsOf(v)' = HostsOf(v)
    BY <2>2 DEF HostsOf, HostTypeOK
  <2> QED BY <2>1, <2>2, <2>3 DEF HostTypeOK, RefCountExact, LesserWalletIsNoHost
<1>5. ASSUME NEW w \in Wallets, setLesserWallet(w) PROVE HostInv'
  <2>1. HostsOf(w) = {}
    BY <1>5, HostsOfFinite, FS_EmptySet DEF setLesserWallet, RefCountExact
  <2> QED BY <1>5, <2>1 DEF setLesserWallet, HostTypeOK, RefCountExact, HostsOf, LesserWalletIsNoHost
<1>6. CASE HostStep
  BY <1>2, <1>3, <1>4, <1>5, <1>6 DEF HostStep
<1>7. CASE UNCHANGED vars
  BY <1>1, <1>7 DEF vars
<1> QED BY <1>1, <1>6, <1>7, HostFrame

(* No host's wallet is ever the Lesser wallet, for any number of hosts and *)
(* wallets and any order of registerHost, updateHost and setLesserWallet.  *)
THEOREM LesserWalletSeparate == Spec => []LesserWalletIsNoHost
<1>1. HostInv => LesserWalletIsNoHost
  BY DEF HostInv
<1> QED BY <1>1, HostInvInit, HostInvStep, PTL DEF Spec

----------------------------------------------------------------------------
(* The token allowlist.                                                    *)

ListTypeOK ==
  /\ allowedTokens \in [Tokens -> BOOLEAN]
  /\ allowedTokenList \in Seq(Tokens)
  /\ tokenIndex \in [Tokens -> Nat]

ListInv == ListTypeOK /\ AllowlistConsistent

LEMMA ListInvInit == Init => ListInv
BY DEF Init, ListInv, ListTypeOK, AllowlistConsistent

(* What the swap-and-pop returns.                                          *)
LEMMA SwapAndPopSeq ==
  ASSUME NEW list \in Seq(Tokens), Len(list) # 0, NEW idx \in 1..Len(list)
  PROVE  /\ SwapAndPop(list, idx) \in Seq(Tokens)
         /\ Len(SwapAndPop(list, idx)) = Len(list) - 1
         /\ \A i \in 1..(Len(list) - 1) :
              SwapAndPop(list, idx)[i] = IF i = idx THEN list[Len(list)] ELSE list[i]
BY DEF SwapAndPop

LEMMA ListInvAllow ==
  ASSUME ListInv, NEW token \in Tokens, AllowToken(token)
  PROVE  ListInv'
<1> USE DEF ListInv
<1>1. CASE allowedTokens[token]
  BY <1>1 DEF AllowToken, ListTypeOK, AllowlistConsistent
<1>2. CASE ~allowedTokens[token]
  <2>1. /\ allowedTokenList' = Append(allowedTokenList, token)
        /\ tokenIndex' = [tokenIndex EXCEPT ![token] = Len(allowedTokenList) + 1]
        /\ allowedTokens' = [allowedTokens EXCEPT ![token] = TRUE]
    BY <1>2 DEF AllowToken
  <2>2. ListTypeOK'
    BY <2>1 DEF ListTypeOK
  <2>3. \A i \in 1..Len(allowedTokenList) : allowedTokenList[i] # token
    BY <1>2 DEF AllowlistConsistent
  <2>4. /\ Len(allowedTokenList') = Len(allowedTokenList) + 1
        /\ \A i \in 1..Len(allowedTokenList) : allowedTokenList'[i] = allowedTokenList[i]
        /\ allowedTokenList'[Len(allowedTokenList) + 1] = token
    BY <2>1 DEF ListTypeOK
  <2>5. AllowlistConsistent'
    <3>1. ASSUME NEW t \in Tokens
          PROVE  IF allowedTokens'[t]
                 THEN /\ tokenIndex'[t] \in 1..Len(allowedTokenList')
                      /\ allowedTokenList'[tokenIndex'[t]] = t
                 ELSE tokenIndex'[t] = 0
      BY <2>1, <2>4 DEF ListTypeOK, AllowlistConsistent
    <3>2. ASSUME NEW i \in 1..Len(allowedTokenList')
          PROVE  allowedTokens'[allowedTokenList'[i]] /\ tokenIndex'[allowedTokenList'[i]] = i
      <4>1. CASE i = Len(allowedTokenList) + 1
        BY <2>1, <2>4, <4>1 DEF ListTypeOK
      <4>2. CASE i \in 1..Len(allowedTokenList)
        BY <2>1, <2>3, <2>4, <4>2 DEF ListTypeOK, AllowlistConsistent
      <4> QED BY <2>4, <4>1, <4>2 DEF ListTypeOK
    <3> QED BY <3>1, <3>2 DEF AllowlistConsistent
  <2> QED BY <2>2, <2>5
<1> QED BY <1>1, <1>2

LEMMA ListInvDisallow ==
  ASSUME ListInv, NEW token \in Tokens, DisallowToken(token)
  PROVE  ListInv'
<1> USE DEF ListInv
<1>1. CASE ~allowedTokens[token]
  BY <1>1 DEF DisallowToken, ListTypeOK, AllowlistConsistent
<1>2. CASE allowedTokens[token]
  <2> DEFINE n    == Len(allowedTokenList)
             idx  == tokenIndex[token]
             last == allowedTokenList[n]
  <2>1. /\ n \in Nat /\ n # 0 /\ idx \in 1..n /\ allowedTokenList[idx] = token
        /\ last \in Tokens /\ allowedTokens[last] /\ tokenIndex[last] = n
    BY <1>2 DEF ListTypeOK, AllowlistConsistent
  <2>2. /\ allowedTokenList' = SwapAndPop(allowedTokenList, idx)
        /\ tokenIndex' = IF idx = n THEN [tokenIndex EXCEPT ![token] = 0]
                         ELSE [tokenIndex EXCEPT ![last] = idx, ![token] = 0]
        /\ allowedTokens' = [allowedTokens EXCEPT ![token] = FALSE]
    BY <1>2 DEF DisallowToken
  <2>3. /\ allowedTokenList' \in Seq(Tokens)
        /\ Len(allowedTokenList') = n - 1
        /\ \A i \in 1..(n - 1) : allowedTokenList'[i] = IF i = idx THEN last ELSE allowedTokenList[i]
    <3>1. allowedTokenList \in Seq(Tokens) /\ Len(allowedTokenList) # 0
      BY <2>1 DEF ListTypeOK
    <3>2. idx \in 1..Len(allowedTokenList)
      BY <2>1
    <3> HIDE DEF idx
    <3> QED BY <2>2, <3>1, <3>2, SwapAndPopSeq
  <2>4. idx = n <=> last = token
    BY <2>1 DEF ListTypeOK, AllowlistConsistent
  <2>5. \A t \in Tokens : tokenIndex'[t] =
          IF t = token THEN 0 ELSE IF t = last THEN idx ELSE tokenIndex[t]
    <3>1. CASE idx = n
      BY <2>1, <2>2, <2>4, <3>1 DEF ListTypeOK
    <3>2. CASE idx # n
      BY <2>1, <2>2, <2>4, <3>2 DEF ListTypeOK
    <3> QED BY <3>1, <3>2
  <2>9. \A t \in Tokens : t # token => allowedTokens'[t] = allowedTokens[t]
    BY <2>2 DEF ListTypeOK
  <2>6. ListTypeOK'
    BY <2>1, <2>2, <2>3 DEF ListTypeOK
  <2>7. ASSUME NEW t \in Tokens
        PROVE  IF allowedTokens'[t]
               THEN /\ tokenIndex'[t] \in 1..Len(allowedTokenList')
                    /\ allowedTokenList'[tokenIndex'[t]] = t
               ELSE tokenIndex'[t] = 0
    <3>1. CASE t = token
      BY <2>2, <2>5, <3>1 DEF ListTypeOK
    <3>2. CASE t # token /\ ~allowedTokens[t]
      BY <2>1, <2>2, <2>5, <3>2 DEF ListTypeOK, AllowlistConsistent
    <3>3. CASE t # token /\ allowedTokens[t] /\ t = last
      <4>1. idx # n /\ idx \in 1..(n - 1) /\ tokenIndex'[t] = idx
        BY <2>1, <2>4, <2>5, <3>3
      <4>2. allowedTokenList'[idx] = last
        BY <2>3, <4>1
      <4> QED BY <2>1, <2>3, <2>9, <3>3, <4>1, <4>2
    <3>4. CASE t # token /\ allowedTokens[t] /\ t # last
      <4>1. /\ tokenIndex[t] \in 1..n /\ allowedTokenList[tokenIndex[t]] = t
            /\ tokenIndex[t] # n /\ tokenIndex[t] # idx
        BY <2>1, <3>4 DEF ListTypeOK, AllowlistConsistent
      <4>2. tokenIndex'[t] = tokenIndex[t] /\ allowedTokens'[t]
        BY <2>2, <2>5, <3>4 DEF ListTypeOK
      <4> QED BY <2>1, <2>3, <4>1, <4>2
    <3> QED BY <3>1, <3>2, <3>3, <3>4
  <2>8. ASSUME NEW i \in 1..Len(allowedTokenList')
        PROVE  allowedTokens'[allowedTokenList'[i]] /\ tokenIndex'[allowedTokenList'[i]] = i
    <3>1. i \in 1..(n - 1)
      BY <2>1, <2>3
    <3>2. CASE i = idx
      <4>1. last # token /\ allowedTokenList'[i] = last
        BY <2>1, <2>3, <2>4, <3>1, <3>2
      <4> QED BY <2>1, <2>5, <2>9, <3>2, <4>1
    <3>3. CASE i # idx
      <4>1. /\ allowedTokenList[i] \in Tokens /\ allowedTokens[allowedTokenList[i]]
            /\ tokenIndex[allowedTokenList[i]] = i
        BY <2>1, <3>1 DEF ListTypeOK, AllowlistConsistent
      <4>2. allowedTokenList[i] # token /\ allowedTokenList[i] # last
        BY <2>1, <3>1, <3>3, <4>1
      <4> QED BY <2>2, <2>3, <2>5, <3>1, <3>3, <4>1, <4>2 DEF ListTypeOK
    <3> QED BY <3>2, <3>3
  <2> QED BY <2>6, <2>7, <2>8 DEF AllowlistConsistent
<1> QED BY <1>1, <1>2

LEMMA ListInvStep == ListInv /\ [Next]_vars => ListInv'
<1> SUFFICES ASSUME ListInv, [Next]_vars PROVE ListInv'
  OBVIOUS
<1>1. CASE UNCHANGED listVars
  BY <1>1 DEF listVars, ListInv, ListTypeOK, AllowlistConsistent
<1>2. CASE UNCHANGED vars
  BY <1>1, <1>2 DEF vars
<1> QED BY <1>1, <1>2, ListFrame, ListInvAllow, ListInvDisallow

(* List, 1-based index and flag of the allowlist agree after any sequence  *)
(* of setTokenAllowed calls over any set of tokens.                        *)
THEOREM AllowlistStaysConsistent == Spec => []AllowlistConsistent
<1>1. ListInv => AllowlistConsistent
  BY DEF ListInv
<1> QED BY <1>1, ListInvInit, ListInvStep, PTL DEF Spec

----------------------------------------------------------------------------
(* The tip limits.                                                         *)

LimitTypeOK ==
  /\ maxTipAmount \in [Assets -> Nat]
  /\ minTipAmount \in [Assets -> Nat]
  /\ hasCustomMinTipAmount \in [Assets -> BOOLEAN]

(* The minimum in force is at least the smallest custom minimum and not    *)
(* above the maximum.                                                      *)
LimitRange ==
  \A x \in Assets :
    /\ EffectiveMinTipAmount(x) >= MIN_CUSTOM_MIN
    /\ maxTipAmount[x] = 0 \/ EffectiveMinTipAmount(x) <= maxTipAmount[x]

LimitInv == LimitTypeOK /\ LimitRange

LEMMA LimitInvInit == Init => LimitInv
BY DEF Init, LimitInv, LimitTypeOK, LimitRange, EffectiveMinTipAmount, MIN_TIP_AMOUNT, MIN_CUSTOM_MIN

LEMMA LimitInvStep == LimitInv /\ [Next]_vars => LimitInv'
<1> SUFFICES ASSUME LimitInv, [Next]_vars PROVE LimitInv'
  OBVIOUS
<1> USE DEF LimitInv, LimitTypeOK, LimitRange, EffectiveMinTipAmount, MIN_TIP_AMOUNT, MIN_CUSTOM_MIN
<1>1. CASE UNCHANGED limitVars
  BY <1>1 DEF limitVars
<1>2. ASSUME NEW x \in Assets, NEW a \in Limits, setMaxTipAmount(x, a) PROVE LimitInv'
  BY <1>2, NumberAssumption DEF setMaxTipAmount
<1>3. ASSUME NEW x \in Assets, NEW a \in Limits, setMinTipAmount(x, a) PROVE LimitInv'
  BY <1>3, NumberAssumption DEF setMinTipAmount
<1>4. CASE UNCHANGED vars
  BY <1>1, <1>4 DEF vars
<1> QED BY <1>1, <1>2, <1>3, <1>4, LimitFrame

LEMMA LimitInvImplies == LimitInv => LimitsAdmitATip
BY DEF LimitInv, LimitTypeOK, LimitRange, LimitsAdmitATip, EffectiveMinTipAmount, LesserShare,
   MIN_TIP_AMOUNT, MIN_CUSTOM_MIN, LESSER_FEE_BPS, BPS_DENOMINATOR

(* setMinTipAmount and setMaxTipAmount never leave an asset without an     *)
(* amount that may be tipped.                                              *)
THEOREM LimitsAlwaysAdmitATip == Spec => []LimitsAdmitATip
BY LimitInvImplies, LimitInvInit, LimitInvStep, PTL DEF Spec

----------------------------------------------------------------------------
(* The split and the running totals of a batch.                            *)

(* For every amount and every fee that can be registered the three shares  *)
(* are naturals that add up to the amount: _split's subtraction never      *)
(* underflows and nothing is lost to rounding.                             *)
LEMMA SplitExact ==
  ASSUME NEW amount \in Nat, NEW fee \in 0..MAX_HOST_FEE_BPS
  PROVE  /\ LesserShare(amount) \in Nat
         /\ HostShare(fee, amount) \in Nat
         /\ ActorShare(fee, amount) \in Nat
         /\ LesserShare(amount) + HostShare(fee, amount) + ActorShare(fee, amount) = amount
<1> DEFINE p == amount * fee
<1>1. p \in Nat /\ p <= amount * 500
  BY DEF MAX_HOST_FEE_BPS
<1>2. LesserShare(amount) \in Nat /\ 10000 * LesserShare(amount) <= amount * 100
  BY DEF LesserShare, LESSER_FEE_BPS, BPS_DENOMINATOR
<1>3. HostShare(fee, amount) = p \div 10000
  BY DEF HostShare, BPS_DENOMINATOR
<1> HIDE DEF p
<1>4. HostShare(fee, amount) \in Nat /\ 10000 * HostShare(fee, amount) <= amount * 500
  BY <1>1, <1>3
<1>5. ActorShare(fee, amount) = amount - LesserShare(amount) - HostShare(fee, amount)
  BY DEF ActorShare
<1> QED BY <1>2, <1>4, <1>5

(* The defining equation of the running totals.                            *)
LEMMA BatchTotalsDef ==
  ASSUME NEW items \in Seq(Item)
  PROVE  BatchTotals(items) =
           [i \in 0..Len(items) |->
              IF i = 0 THEN 0 ELSE BatchTotals(items)[i - 1] + items[i].amount]
<1> DEFINE n == Len(items)
           Solves(f, k) == f = [i \in 0..k |-> IF i = 0 THEN 0 ELSE f[i - 1] + items[i].amount]
           S == {k \in 0..n : \E f : Solves(f, k)}
<1>1. n \in Nat
  OBVIOUS
<1>2. 0 \in S
  <2>1. Solves([i \in 0..0 |-> 0], 0)
    OBVIOUS
  <2>2. \E f : Solves(f, 0)
    <3> HIDE DEF Solves
    <3> QED BY <2>1
  <2> HIDE DEF Solves
  <2> QED BY <1>1, <2>2
<1>3. ASSUME NEW k \in 0..(n - 1), k \in S PROVE (k + 1) \in S
  <2>1. PICK f : Solves(f, k)
    BY <1>3
  <2> DEFINE g == [i \in 0..(k + 1) |-> IF i = k + 1 THEN f[k] + items[k + 1].amount ELSE f[i]]
  <2>2. \A i \in 0..k : g[i] = f[i]
    BY <1>1
  <2>3. \A i \in 0..(k + 1) : g[i] = IF i = 0 THEN 0 ELSE g[i - 1] + items[i].amount
    <3> SUFFICES ASSUME NEW i \in 0..(k + 1)
                 PROVE  g[i] = IF i = 0 THEN 0 ELSE g[i - 1] + items[i].amount
      OBVIOUS
    <3>1. CASE i = k + 1
      BY <1>1, <2>2, <3>1
    <3>2. CASE i \in 0..k
      <4>1. f[i] = IF i = 0 THEN 0 ELSE f[i - 1] + items[i].amount
        BY <2>1, <3>2
      <4>2. i # 0 => g[i - 1] = f[i - 1]
        BY <2>2, <3>2
      <4> QED BY <2>2, <3>2, <4>1, <4>2
    <3> QED BY <1>1, <3>1, <3>2
  <2>4. g = [i \in 0..(k + 1) |-> g[i]]
    OBVIOUS
  <2> HIDE DEF g
  <2>5. Solves(g, k + 1)
    BY <2>3, <2>4
  <2> HIDE DEF Solves
  <2>6. \E h : Solves(h, k + 1)
    BY <2>5
  <2> QED BY <1>1, <2>6
<1>4. 0..n \subseteq S
  <2> HIDE DEF S, n
  <2> QED BY <1>1, <1>2, <1>3, IntervalInduction
<1>5. \E f : Solves(f, n)
  BY <1>1, <1>4
<1> QED BY <1>5 DEF BatchTotals

(* The running totals of a batch start at 0, grow by each amount, and none *)
(* exceeds the last.                                                       *)
LEMMA BatchTotalsGrow ==
  ASSUME NEW items \in Seq(Item)
  PROVE  LET tot == BatchTotals(items) IN
         /\ tot[0] = 0
         /\ \A i \in 0..Len(items) : tot[i] \in Nat /\ tot[i] <= tot[Len(items)]
         /\ \A i \in 1..Len(items) : tot[i] = tot[i - 1] + items[i].amount
<1> DEFINE tot == BatchTotals(items)
           n   == Len(items)
<1>1. tot = [i \in 0..n |-> IF i = 0 THEN 0 ELSE tot[i - 1] + items[i].amount]
  BY BatchTotalsDef
<1>2. n \in Nat /\ \A i \in 1..n : items[i].amount \in Nat
  <2>1. n \in Nat /\ \A i \in 1..n : items[i] \in Item
    OBVIOUS
  <2>2. \A it \in Item : it.amount \in Nat
    BY NumberAssumption DEF Item
  <2> QED BY <2>1, <2>2
<1> HIDE DEF tot, n
<1>3. tot[0] = 0 /\ \A i \in 1..n : tot[i] = tot[i - 1] + items[i].amount
  BY <1>1, <1>2
<1>4. \A i \in 0..n : tot[i] \in Nat
  <2> DEFINE S == {i \in 0..n : tot[i] \in Nat}
  <2>1. 0 \in S
    BY <1>2, <1>3
  <2>2. ASSUME NEW i \in 0..(n - 1), i \in S PROVE (i + 1) \in S
    <3>1. i + 1 \in 1..n /\ (i + 1) - 1 = i
      BY <1>2
    <3>2. tot[i + 1] = tot[i] + items[i + 1].amount
      BY <1>3, <3>1
    <3>3. tot[i] \in Nat /\ items[i + 1].amount \in Nat /\ i + 1 \in 0..n
      BY <1>2, <2>2, <3>1
    <3>4. tot[i + 1] \in Nat
      BY <3>2, <3>3
    <3> QED BY <3>3, <3>4
  <2>3. 0..n \subseteq S
    <3> HIDE DEF S
    <3> QED BY <1>2, <2>1, <2>2, IntervalInduction
  <2> QED BY <2>3
<1>5. \A i \in 0..n : tot[n - i] <= tot[n]
  <2> DEFINE S == {i \in 0..n : tot[n - i] <= tot[n]}
  <2>1. 0 \in S
    <3>1. n - 0 = n /\ n \in 0..n
      BY <1>2
    <3> QED BY <1>2, <1>4, <3>1
  <2>2. ASSUME NEW i \in 0..(n - 1), i \in S PROVE (i + 1) \in S
    <3>1. n - i \in 1..n /\ (n - i) - 1 = n - (i + 1) /\ n - (i + 1) \in 0..n /\ n - i \in 0..n
      BY <1>2
    <3>2. tot[n - i] = tot[n - (i + 1)] + items[n - i].amount
      BY <1>3, <3>1
    <3>3. tot[n - (i + 1)] \in Nat /\ items[n - i].amount \in Nat /\ tot[n] \in Nat
      BY <1>2, <1>4, <3>1
    <3> QED BY <1>2, <2>2, <3>2, <3>3
  <2>3. 0..n \subseteq S
    <3> HIDE DEF S
    <3> QED BY <1>2, <2>1, <2>2, IntervalInduction
  <2> QED BY <2>3
<1>6. \A i \in 0..n : tot[i] <= tot[n]
  <2> SUFFICES ASSUME NEW i \in 0..n PROVE tot[i] <= tot[n]
    OBVIOUS
  <2>1. n - i \in 0..n /\ n - (n - i) = i
    BY <1>2
  <2> QED BY <1>5, <2>1
<1> QED BY <1>3, <1>4, <1>6 DEF tot, n

----------------------------------------------------------------------------
(* The ledgers.                                                            *)

BookTypeOK ==
  /\ pending \in [Assets -> [Wallets -> Nat]]
  /\ totalPending \in [Assets -> Nat]

(* What sweepStray trusts: the total kept per asset is the sum of what is  *)
(* owed to the wallets.                                                    *)
LedgerSum == \A x \in Assets : SumsTo(Wallets, pending[x], totalPending[x])

(* What has been received for a batch and not yet credited.                *)
InFlight(x) ==
  IF lock = "loop" /\ batch.asset = x
  THEN BatchTotals(batch.items)[Len(batch.items)] - BatchTotals(batch.items)[batch.next - 1]
  ELSE 0

LoopOK ==
  lock = "loop" =>
    /\ batch \in BatchType
    /\ batch.next <= Len(batch.items) /\ Len(batch.items) <= MaxBatch
    /\ hosts[batch.hostId].wallet # Zero

Covered == \A x \in Assets : balance[x] >= totalPending[x] + InFlight(x)

FundTypeOK ==
  /\ balance \in [Assets -> Nat]
  /\ received \in [Assets -> Nat]
  /\ lock \in {"free", "call", "loop"}

LedgerInv == BookTypeOK /\ LedgerSum /\ FundTypeOK /\ LoopOK /\ Covered

LEMMA LedgerInvInit == Init => LedgerInv
<1> SUFFICES ASSUME Init PROVE LedgerInv
  OBVIOUS
<1>1. BookTypeOK /\ FundTypeOK /\ LoopOK
  BY DEF Init, BookTypeOK, FundTypeOK, LoopOK
<1>2. LedgerSum
  BY SumOfZeros DEF Init, LedgerSum
<1>3. Covered
  BY DEF Init, Covered, InFlight
<1> QED BY <1>1, <1>2, <1>3 DEF LedgerInv

LEMMA CreditToSum ==
  ASSUME NEW f \in [Wallets -> Nat], NEW t \in Nat, SumsTo(Wallets, f, t),
         NEW w \in Wallets, NEW v \in Nat
  PROVE  /\ CreditTo(f, w, v) \in [Wallets -> Nat]
         /\ SumsTo(Wallets, CreditTo(f, w, v), t + v)
         /\ \A u \in Wallets : CreditTo(f, w, v)[u] >= f[u]
<1>1. SumsTo(Wallets, [f EXCEPT ![w] = @ + v], t + v)
  BY SumAdd
<1>2. CreditTo(f, w, v) = [f EXCEPT ![w] = @ + v]
  BY DEF CreditTo
<1>3. CreditTo(f, w, v) \in [Wallets -> Nat] /\ \A u \in Wallets : CreditTo(f, w, v)[u] >= f[u]
  BY <1>2
<1> QED BY <1>1, <1>2, <1>3

(* A credit raises one total by the amount and keeps it the sum of the     *)
(* entries, also when one wallet receives two of the shares.               *)
LEMMA CreditKeepsBooks ==
  ASSUME HostTypeOK, BookTypeOK, LedgerSum,
         NEW x \in Assets, NEW h \in HostIds, hosts[h].wallet # Zero,
         NEW actor \in Wallets, NEW amount \in Nat, Credit(x, h, actor, amount)
  PROVE  /\ BookTypeOK' /\ LedgerSum'
         /\ totalPending' = [totalPending EXCEPT ![x] = @ + amount]
         /\ \A y \in Assets, w \in Wallets : pending'[y][w] >= pending[y][w]
<1> DEFINE fee == hosts[h].feeBps
           hw  == hosts[h].wallet
           a   == LesserShare(amount)
           b   == HostShare(fee, amount)
           c   == ActorShare(fee, amount)
           p0  == pending[x]
           p1  == CreditTo(p0, lesserWallet, a)
           p2  == CreditTo(p1, hw, b)
           p3  == CreditTo(p2, actor, c)
<1>1. fee \in 0..MAX_HOST_FEE_BPS /\ hw \in Wallets /\ lesserWallet \in Wallets
  BY DEF HostTypeOK, HostConfig, Accounts
<1>2. a \in Nat /\ b \in Nat /\ c \in Nat /\ a + b + c = amount
  BY <1>1, SplitExact
<1>3. pending' = [pending EXCEPT ![x] = p3] /\ totalPending' = [totalPending EXCEPT ![x] = @ + amount]
  BY DEF Credit
<1>4. p0 \in [Wallets -> Nat] /\ totalPending[x] \in Nat
  BY DEF BookTypeOK
<1>5. SumsTo(Wallets, p0, totalPending[x])
  BY DEF LedgerSum
<1> HIDE DEF fee, hw, a, b, c, p0
<1>6. /\ p1 \in [Wallets -> Nat] /\ SumsTo(Wallets, p1, totalPending[x] + a)
      /\ \A w \in Wallets : p1[w] >= p0[w]
  BY <1>1, <1>2, <1>4, <1>5, CreditToSum
<1>7. totalPending[x] + a \in Nat /\ totalPending[x] + a + b \in Nat
  BY <1>2, <1>4
<1> HIDE DEF p1
<1>8. /\ p2 \in [Wallets -> Nat] /\ SumsTo(Wallets, p2, totalPending[x] + a + b)
      /\ \A w \in Wallets : p2[w] >= p1[w]
  BY <1>1, <1>2, <1>6, <1>7, CreditToSum
<1> HIDE DEF p2
<1>10. /\ p3 \in [Wallets -> Nat] /\ SumsTo(Wallets, p3, totalPending[x] + a + b + c)
       /\ \A w \in Wallets : p3[w] >= p2[w]
  BY <1>2, <1>7, <1>8, CreditToSum
<1> HIDE DEF p3
<1>12. totalPending[x] + a + b + c = totalPending[x] + amount
  BY <1>2, <1>4
<1>13. \A w \in Wallets : p3[w] >= p0[w]
  BY <1>4, <1>6, <1>8, <1>10
<1>14. BookTypeOK'
  BY <1>3, <1>10 DEF BookTypeOK
<1>15. LedgerSum'
  BY <1>3, <1>10, <1>12 DEF BookTypeOK, LedgerSum
<1>16. \A y \in Assets, w \in Wallets : pending'[y][w] >= pending[y][w]
  BY <1>3, <1>13 DEF BookTypeOK, p0
<1> QED BY <1>3, <1>14, <1>15, <1>16

LEMMA LedgerInvTip ==
  ASSUME HostTypeOK, LedgerInv, NEW x \in Assets, NEW h \in HostIds, NEW sender \in Wallets,
         NEW actor \in Wallets, NEW amount \in Amounts, Tip(x, h, sender, actor, amount)
  PROVE  LedgerInv'
<1> USE DEF LedgerInv
<1>1. amount \in Nat
  BY NumberAssumption
<1>2. /\ BookTypeOK' /\ LedgerSum'
      /\ totalPending' = [totalPending EXCEPT ![x] = @ + amount]
  BY <1>1, CreditKeepsBooks DEF Tip, TipOK
<1>3. lock = "free" /\ lock' = lock /\ Receive(x, amount)
  BY DEF Tip, MayEnter, txVars
<1>4. FundTypeOK' /\ LoopOK'
  BY <1>1, <1>3 DEF FundTypeOK, LoopOK, Receive
<1>5. Covered'
  BY <1>1, <1>2, <1>3 DEF Covered, InFlight, Receive, FundTypeOK, BookTypeOK
<1> QED BY <1>2, <1>4, <1>5

LEMMA LedgerInvBatch ==
  ASSUME HostTypeOK, LedgerInv, NEW x \in Assets, NEW h \in HostIds, NEW sender \in Wallets,
         NEW n \in 1..MaxBatch, NEW items \in [1..n -> Item], NEW value \in Amounts,
         BatchTip(x, h, sender, items, value)
  PROVE  LedgerInv'
<1> USE DEF LedgerInv
<1>1. items \in Seq(Item) /\ Len(items) = n /\ n \in Nat /\ n >= 1
  BY NumberAssumption
<1>2. /\ lock = "free" /\ lock' = "loop" /\ Receive(x, value)
      /\ value = BatchTotals(items)[Len(items)]
      /\ batch' = [asset |-> x, hostId |-> h, sender |-> sender, items |-> items, next |-> 1]
      /\ UNCHANGED <<pending, totalPending, hosts>>
      /\ hosts[h].wallet # Zero
  BY <1>1 DEF BatchTip, MayEnter, hostVars, TipOK
<1>3. value \in Nat
  BY NumberAssumption
<1>4. BookTypeOK' /\ LedgerSum' /\ FundTypeOK'
  BY <1>2, <1>3 DEF BookTypeOK, LedgerSum, FundTypeOK, Receive
<1>5. LoopOK'
  BY <1>1, <1>2, NumberAssumption DEF LoopOK, BatchType
<1>6. \A y \in Assets : InFlight(y)' = IF y = x THEN value ELSE 0
  <2>1. BatchTotals(items)[0] = 0
    BY <1>1, BatchTotalsGrow
  <2>2. value - 0 = value
    BY <1>3
  <2>3. batch'.next - 1 = 0 /\ batch'.items = items /\ batch'.asset = x
    BY <1>2
  <2> QED BY <1>2, <2>1, <2>2, <2>3 DEF InFlight
<1>7. Covered'
  BY <1>2, <1>3, <1>6 DEF Covered, InFlight, Receive, FundTypeOK, BookTypeOK
<1> QED BY <1>4, <1>5, <1>7

LEMMA LedgerInvIteration ==
  ASSUME HostTypeOK, LedgerInv, BatchIteration
  PROVE  LedgerInv'
<1> USE DEF LedgerInv
<1> DEFINE x    == batch.asset
           k    == batch.next
           item == batch.items[k]
           tot  == BatchTotals(batch.items)
           n    == Len(batch.items)
<1>1. /\ lock = "loop" /\ batch \in BatchType /\ k <= n /\ n <= MaxBatch
      /\ hosts[batch.hostId].wallet # Zero
  BY DEF BatchIteration, LoopOK
<1>2. /\ x \in Assets /\ batch.hostId \in HostIds /\ batch.items \in Seq(Item)
      /\ k \in Nat /\ k >= 1 /\ n \in Nat /\ k \in 1..n
  BY <1>1, NumberAssumption DEF BatchType
<1>3. item \in Item
  BY <1>2
<1>4. item.actor \in Wallets /\ item.amount \in Nat
  BY <1>3, NumberAssumption DEF Item
<1>5. /\ BookTypeOK' /\ LedgerSum'
      /\ totalPending' = [totalPending EXCEPT ![x] = @ + item.amount]
  <2>1. Credit(x, batch.hostId, item.actor, item.amount)
    BY DEF BatchIteration
  <2> HIDE DEF x, item
  <2> QED BY <1>1, <1>2, <1>4, <2>1, CreditKeepsBooks
<1>6. UNCHANGED <<balance, received, hosts>>
  BY DEF BatchIteration, hostVars
<1>7. /\ tot[k] = tot[k - 1] + item.amount
      /\ tot[k] \in Nat /\ tot[k - 1] \in Nat /\ tot[n] \in Nat /\ tot[k] <= tot[n]
  <2>1. k - 1 \in 0..n /\ k \in 0..n /\ n \in 0..n
    BY <1>2
  <2> QED BY <1>2, <2>1, BatchTotalsGrow
<1>8. \A y \in Assets : InFlight(y) = IF y = x THEN tot[n] - tot[k - 1] ELSE 0
  BY <1>1 DEF InFlight
<1>9. CASE k = n
  <2>1. lock' = "free"
    BY <1>9 DEF BatchIteration
  <2>2. FundTypeOK' /\ LoopOK'
    BY <1>6, <2>1 DEF FundTypeOK, LoopOK
  <2>3. \A y \in Assets : InFlight(y)' = 0
    BY <2>1 DEF InFlight
  <2>4. Covered'
    <3> SUFFICES ASSUME NEW y \in Assets PROVE balance'[y] >= totalPending'[y] + 0
      BY <2>3 DEF Covered
    <3>1. balance[y] >= totalPending[y] + InFlight(y) /\ balance[y] \in Nat /\ totalPending[y] \in Nat
      BY DEF Covered, FundTypeOK, BookTypeOK
    <3>2. totalPending'[y] = IF y = x THEN totalPending[y] + item.amount ELSE totalPending[y]
      BY <1>2, <1>5 DEF BookTypeOK
    <3>3. InFlight(y) = IF y = x THEN item.amount ELSE 0
      BY <1>4, <1>7, <1>8, <1>9
    <3> QED BY <1>4, <1>6, <3>1, <3>2, <3>3
  <2> QED BY <1>5, <2>2, <2>4
<1>10. CASE k # n
  <2>1. /\ lock' = "loop"
        /\ batch' = [asset |-> x, hostId |-> batch.hostId, sender |-> batch.sender,
                     items |-> batch.items, next |-> k + 1]
    BY <1>1, <1>10 DEF BatchIteration
  <2>2. k + 1 <= n /\ (k + 1) - 1 = k
    BY <1>2, <1>10
  <2>3. FundTypeOK'
    BY <1>6, <2>1 DEF FundTypeOK
  <2>4. batch' \in BatchType
    <3>1. batch.sender \in Wallets /\ k + 1 \in 1..MaxBatch
      BY <1>1, <1>2, <2>2, NumberAssumption DEF BatchType
    <3> QED BY <1>2, <2>1, <3>1, NumberAssumption DEF BatchType
  <2>5. LoopOK'
    BY <1>1, <1>6, <2>1, <2>2, <2>4 DEF LoopOK
  <2>6. \A y \in Assets : InFlight(y)' = IF y = x THEN tot[n] - tot[k] ELSE 0
    <3>1. batch'.asset = x /\ batch'.items = batch.items /\ batch'.next - 1 = k
      BY <2>1, <2>2
    <3> QED BY <2>1, <3>1 DEF InFlight
  <2>7. Covered'
    <3> SUFFICES ASSUME NEW y \in Assets PROVE balance'[y] >= totalPending'[y] + InFlight(y)'
      BY DEF Covered
    <3>1. balance[y] >= totalPending[y] + InFlight(y) /\ balance[y] \in Nat /\ totalPending[y] \in Nat
      BY DEF Covered, FundTypeOK, BookTypeOK
    <3>2. totalPending'[y] = IF y = x THEN totalPending[y] + item.amount ELSE totalPending[y]
      BY <1>2, <1>5 DEF BookTypeOK
    <3>3. InFlight(y) = IF y = x THEN InFlight(y)' + item.amount ELSE InFlight(y)'
      <4>1. InFlight(y) = IF y = x THEN tot[n] - tot[k - 1] ELSE 0
        BY <1>8
      <4>2. InFlight(y)' = IF y = x THEN tot[n] - tot[k] ELSE 0
        BY <2>6
      <4> HIDE DEF x, item, tot, n, k
      <4> QED BY <1>4, <1>7, <4>1, <4>2
    <3>4. InFlight(y)' \in Nat
      <4>1. InFlight(y)' = IF y = x THEN tot[n] - tot[k] ELSE 0
        BY <2>6
      <4> HIDE DEF x, item, tot, n, k
      <4> QED BY <1>7, <4>1
    <3> HIDE DEF x, item
    <3> QED BY <1>4, <1>6, <3>1, <3>2, <3>3, <3>4
  <2> QED BY <1>5, <2>3, <2>5, <2>7
<1> QED BY <1>9, <1>10

(* withdraw finds its amount in the total (the subtraction cannot          *)
(* underflow) and lowers entry, total and balance by the same amount.      *)
LEMMA LedgerInvWithdraw ==
  ASSUME LedgerInv, NEW x \in Assets, NEW who \in Wallets, withdraw(x, who)
  PROVE  LedgerInv'
<1> USE DEF LedgerInv
<1> DEFINE v == pending[x][who]
           g == [pending[x] EXCEPT ![who] = 0]
<1>1. /\ lock = "free" /\ lock' \in {"free", "call"} /\ UNCHANGED <<hosts, batch, received>>
      /\ pending' = [pending EXCEPT ![x] = g]
      /\ totalPending' = [totalPending EXCEPT ![x] = @ - v]
      /\ balance' = [balance EXCEPT ![x] = @ - v]
      /\ balance[x] >= v
  BY DEF withdraw, MayEnter, OpensCall, hostVars
<1>2. pending[x] \in [Wallets -> Nat] /\ totalPending[x] \in Nat /\ balance[x] \in Nat
  BY DEF BookTypeOK, FundTypeOK
<1>3. v <= totalPending[x] /\ SumsTo(Wallets, g, totalPending[x] - v)
  BY <1>2, SumClear DEF LedgerSum
<1>4. v \in Nat /\ g \in [Wallets -> Nat]
  BY <1>2
<1> HIDE DEF v, g
<1>5. BookTypeOK'
  BY <1>1, <1>2, <1>3, <1>4 DEF BookTypeOK
<1>6. LedgerSum'
  BY <1>1, <1>3 DEF LedgerSum, BookTypeOK
<1>7. FundTypeOK' /\ LoopOK'
  BY <1>1, <1>2, <1>4 DEF FundTypeOK, LoopOK
<1>8. Covered'
  <2>1. \A y \in Assets : InFlight(y) = 0 /\ InFlight(y)' = 0
    BY <1>1 DEF InFlight
  <2> QED BY <1>1, <1>2, <1>3, <1>4, <2>1 DEF Covered, BookTypeOK, FundTypeOK
<1> QED BY <1>5, <1>6, <1>7, <1>8

LEMMA LedgerInvSweep ==
  ASSUME LedgerInv, NEW x \in Assets, sweepStray(x)
  PROVE  LedgerInv'
<1> USE DEF LedgerInv
<1>1. /\ lock = "free" /\ lock' \in {"free", "call"}
      /\ UNCHANGED <<hosts, batch, received, pending, totalPending>>
      /\ balance' = [balance EXCEPT ![x] = @ - (@ - totalPending[x])]
  BY DEF sweepStray, MayEnter, OpensCall, hostVars
<1>2. balance' = [balance EXCEPT ![x] = totalPending[x]]
  <2>1. balance[x] - (balance[x] - totalPending[x]) = totalPending[x]
    BY DEF BookTypeOK, FundTypeOK
  <2> QED BY <1>1, <2>1
<1>3. BookTypeOK' /\ LedgerSum' /\ FundTypeOK' /\ LoopOK'
  BY <1>1, <1>2 DEF BookTypeOK, LedgerSum, FundTypeOK, LoopOK
<1>4. Covered'
  <2>1. \A y \in Assets : InFlight(y) = 0 /\ InFlight(y)' = 0
    BY <1>1 DEF InFlight
  <2> QED BY <1>1, <1>2, <2>1 DEF Covered, BookTypeOK, FundTypeOK
<1> QED BY <1>3, <1>4

LEMMA LedgerInvOther ==
  ASSUME LedgerInv,
         CallReturns \/ \E x \in Assets, amount \in Amounts : Donate(x, amount)
  PROVE  LedgerInv'
<1> USE DEF LedgerInv
<1>1. CASE CallReturns
  <2>1. lock = "call" /\ lock' = "free" /\ UNCHANGED <<hosts, pending, totalPending, balance, received>>
    BY <1>1 DEF CallReturns, hostVars, ledgerVars
  <2>2. Covered'
    BY <2>1 DEF Covered, InFlight
  <2> QED BY <2>1, <2>2 DEF BookTypeOK, LedgerSum, FundTypeOK, LoopOK
<1>2. ASSUME NEW x \in Assets, NEW amount \in Amounts, Donate(x, amount) PROVE LedgerInv'
  <2>1. /\ lock # "loop" /\ Receive(x, amount) /\ amount \in Nat
        /\ UNCHANGED <<hosts, pending, totalPending, lock, batch>>
    BY <1>2, NumberAssumption DEF Donate, OwnerTurn, hostVars, txVars
  <2>2. BookTypeOK' /\ LedgerSum' /\ FundTypeOK' /\ LoopOK'
    BY <2>1 DEF BookTypeOK, LedgerSum, FundTypeOK, LoopOK, Receive
  <2>3. \A y \in Assets : InFlight(y) = 0 /\ InFlight(y)' = 0
    BY <2>1 DEF InFlight
  <2>4. Covered'
    BY <2>1, <2>3 DEF Covered, BookTypeOK, FundTypeOK, Receive
  <2> QED BY <2>2, <2>4
<1> QED BY <1>1, <1>2

(* The owner cannot act while a batch loops, so its host stays registered. *)
LEMMA HostStepOutsideLoop == HostStep => lock # "loop"
BY DEF HostStep, registerHost, updateHost, setHostActive, setLesserWallet, OwnerTurn

LEMMA LedgerInvStep == HostInv /\ LedgerInv /\ [Next]_vars => LedgerInv'
<1> SUFFICES ASSUME HostInv, LedgerInv, [Next]_vars PROVE LedgerInv'
  OBVIOUS
<1>1. HostTypeOK
  BY DEF HostInv
<1>2. CASE UNCHANGED <<ledgerVars, txVars, received>> /\ (HostStep \/ UNCHANGED hostVars)
  <2>1. UNCHANGED <<pending, totalPending, balance, lock, batch, received>>
    BY <1>2 DEF ledgerVars, txVars
  <2>2. LoopOK'
    BY <1>2, <2>1, HostStepOutsideLoop DEF LedgerInv, LoopOK, hostVars
  <2>3. Covered'
    BY <2>1 DEF LedgerInv, Covered, InFlight
  <2> QED BY <2>1, <2>2, <2>3 DEF LedgerInv, BookTypeOK, LedgerSum, FundTypeOK
<1>3. CASE TipStep
  <2>1. PICK h \in HostIds, sender \in Wallets, actor \in Wallets, amount \in Amounts, x \in Assets :
          Tip(x, h, sender, actor, amount)
    BY <1>3 DEF TipStep, tipETH, tipToken, tipAgent, Assets
  <2> QED BY <1>1, <2>1, LedgerInvTip
<1>4. CASE BatchStep
  BY <1>1, <1>4, LedgerInvBatch, LedgerInvIteration DEF BatchStep
<1>5. CASE PayoutStep
  BY <1>5, LedgerInvWithdraw, LedgerInvSweep, LedgerInvOther DEF PayoutStep
<1>6. CASE UNCHANGED vars
  BY <1>2, <1>6 DEF vars
<1> QED BY <1>2, <1>3, <1>4, <1>5, <1>6, LedgerFrame, HostFrame

LEMMA CoveredIsSolvent == LedgerInv => Solvent
<1> SUFFICES ASSUME LedgerInv, NEW x \in Assets PROVE balance[x] >= totalPending[x]
  BY DEF Solvent
<1> USE DEF LedgerInv
<1>1. balance[x] >= totalPending[x] + InFlight(x) /\ balance[x] \in Nat /\ totalPending[x] \in Nat
  BY DEF Covered, BookTypeOK, FundTypeOK
<1>2. InFlight(x) \in Nat
  <2>1. CASE lock = "loop"
    <3>1. /\ batch.items \in Seq(Item) /\ batch.next - 1 \in 0..Len(batch.items)
          /\ Len(batch.items) \in 0..Len(batch.items)
      BY <2>1, NumberAssumption DEF LoopOK, BatchType
    <3> DEFINE all  == BatchTotals(batch.items)[Len(batch.items)]
               done == BatchTotals(batch.items)[batch.next - 1]
    <3>2. all \in Nat /\ done \in Nat /\ done <= all
      BY <3>1, BatchTotalsGrow
    <3>3. InFlight(x) = IF batch.asset = x THEN all - done ELSE 0
      BY <2>1 DEF InFlight
    <3> HIDE DEF all, done
    <3> QED BY <3>2, <3>3
  <2>2. CASE lock # "loop"
    BY <2>2 DEF InFlight
  <2> QED BY <2>1, <2>2
<1> QED BY <1>1, <1>2

(* The contract can always pay every recipient: for any amounts, fees,     *)
(* batches, rotations, sweeps and stray payments, and inside an open ETH   *)
(* payment too, the balance of each asset covers the total owed.           *)
THEOREM AlwaysSolvent == Spec => []Solvent
<1>1. Init => HostInv /\ LedgerInv
  BY HostInvInit, LedgerInvInit
<1>2. HostInv /\ LedgerInv /\ [Next]_vars => (HostInv /\ LedgerInv)'
  BY HostInvStep, LedgerInvStep
<1> QED BY <1>1, <1>2, CoveredIsSolvent, PTL DEF Spec

(* The total sweepStray subtracts from the balance is the sum of what the  *)
(* wallets are owed, whatever roles one wallet plays in a tip.             *)
THEOREM TotalsAreSums == Spec => []TotalIsSumOfPending
<1>1. Init => HostInv /\ LedgerInv
  BY HostInvInit, LedgerInvInit
<1>2. HostInv /\ LedgerInv /\ [Next]_vars => (HostInv /\ LedgerInv)'
  BY HostInvStep, LedgerInvStep
<1>3. LedgerInv => TotalIsSumOfPending
  <2> SUFFICES ASSUME LedgerInv, NEW x \in Assets
               PROVE  totalPending[x] = MapThenSumSet(LAMBDA w : pending[x][w], Wallets)
    BY DEF TotalIsSumOfPending
  <2>1. PICK f : f = pending[x]
    OBVIOUS
  <2>2. f \in [Wallets -> Nat] /\ SumsTo(Wallets, f, totalPending[x])
    BY <2>1 DEF LedgerInv, BookTypeOK, LedgerSum
  <2>3. FoldedSum(Wallets, f) = totalPending[x]
    BY <2>2, FiniteAssumption, SumIsFold
  <2> QED BY <2>1, <2>3 DEF FoldedSum, FoldOf, First, MapThenSumSet, MapThenFoldSet
<1> QED BY <1>1, <1>2, <1>3, PTL DEF Spec

----------------------------------------------------------------------------
(* Types and action properties.                                            *)

AdminTypeOK ==
  /\ paused \in BOOLEAN
  /\ withdrawalsPaused \in BOOLEAN
  /\ agentIdentityRegistry \in {Zero} \cup Registries

LEMMA AdminTypeInit == Init => AdminTypeOK
BY DEF Init, AdminTypeOK

LEMMA AdminTypeStep == AdminTypeOK /\ [Next]_vars => AdminTypeOK'
<1> SUFFICES ASSUME AdminTypeOK, [Next]_vars PROVE AdminTypeOK'
  OBVIOUS
<1>1. CASE UNCHANGED adminVars
  BY <1>1 DEF AdminTypeOK, adminVars
<1>2. CASE TipStep
  BY <1>1, <1>2 DEF TipStep, tipETH, tipToken, tipAgent, Tip
<1>3. CASE BatchStep
  BY <1>1, <1>3 DEF BatchStep, BatchTip, BatchIteration
<1>4. CASE PayoutStep
  BY <1>1, <1>4 DEF PayoutStep, withdraw, sweepStray, CallReturns, Donate
<1>5. CASE HostStep
  BY <1>1, <1>5 DEF HostStep, registerHost, updateHost, setHostActive, setLesserWallet
<1>6. CASE AdminStep
  <2>1. CASE \E token \in Tokens : AllowToken(token) \/ DisallowToken(token)
    BY <1>1, <2>1 DEF AllowToken, DisallowToken
  <2>2. CASE \E x \in Assets, amount \in Limits : setMaxTipAmount(x, amount) \/ setMinTipAmount(x, amount)
    BY <1>1, <2>2 DEF setMaxTipAmount, setMinTipAmount
  <2>3. CASE pause \/ unpause
    BY <2>3 DEF pause, unpause, AdminTypeOK
  <2>4. CASE \E b \in BOOLEAN : setWithdrawalsPaused(b)
    BY <2>4 DEF setWithdrawalsPaused, AdminTypeOK
  <2>5. CASE \E registry \in Registries \cup {Zero} : setAgentIdentityRegistry(registry)
    BY <2>5 DEF setAgentIdentityRegistry, AdminTypeOK
  <2> QED BY <1>6, <2>1, <2>2, <2>3, <2>4, <2>5 DEF AdminStep
<1>7. CASE UNCHANGED vars
  BY <1>1, <1>7 DEF vars
<1> QED BY <1>2, <1>3, <1>4, <1>5, <1>6, <1>7 DEF Next

IndInv == HostInv /\ ListInv /\ LimitInv /\ LedgerInv /\ AdminTypeOK

LEMMA IndInvHolds == Spec => []IndInv
<1>1. Init => IndInv
  BY HostInvInit, ListInvInit, LimitInvInit, LedgerInvInit, AdminTypeInit DEF IndInv
<1>2. IndInv /\ [Next]_vars => IndInv'
  BY HostInvStep, ListInvStep, LimitInvStep, LedgerInvStep, AdminTypeStep DEF IndInv
<1> QED BY <1>1, <1>2, PTL DEF Spec

(* Every variable of the contract keeps its range: in particular no        *)
(* subtraction on a ledger, a total or a reference count underflows.       *)
THEOREM TypesHold == Spec => []TypeOK
<1>1. IndInv => TypeOK
  BY DEF IndInv, HostInv, HostTypeOK, ListInv, ListTypeOK, LimitInv, LimitTypeOK,
     LedgerInv, BookTypeOK, FundTypeOK, LoopOK, AdminTypeOK, TypeOK
<1> QED BY <1>1, IndInvHolds, PTL

(* A step that credits never lowers an entry.                              *)
LEMMA DebitIsWithdrawal ==
  ASSUME IndInv, [Next]_vars, NEW x \in Assets, NEW w \in Wallets, pending'[x][w] < pending[x][w]
  PROVE  withdraw(x, w)
<1>1. HostTypeOK /\ BookTypeOK /\ LedgerSum /\ LoopOK /\ LedgerInv
  BY DEF IndInv, HostInv, LedgerInv
<1>2. pending[x][w] \in Nat
  BY <1>1 DEF BookTypeOK
<1>3. pending' # pending
  BY <1>2
<1>4. ASSUME NEW y \in Assets, NEW h \in HostIds, NEW actor \in Wallets, NEW amount \in Nat,
             hosts[h].wallet # Zero, Credit(y, h, actor, amount)
      PROVE  FALSE
  BY <1>1, <1>2, <1>4, CreditKeepsBooks DEF BookTypeOK
<1>5. CASE TipStep
  <2>1. PICK h \in HostIds, sender \in Wallets, actor \in Wallets, amount \in Amounts, y \in Assets :
          Tip(y, h, sender, actor, amount)
    BY <1>5 DEF TipStep, tipETH, tipToken, tipAgent, Assets
  <2> QED BY <1>4, <2>1, NumberAssumption DEF Tip, TipOK
<1>6. CASE BatchStep
  <2>1. BatchIteration
    BY <1>3, <1>6 DEF BatchStep, BatchTip
  <2> DEFINE item == batch.items[batch.next]
  <2>2. /\ batch.asset \in Assets /\ batch.hostId \in HostIds /\ hosts[batch.hostId].wallet # Zero
        /\ item \in Item
    BY <1>1, <2>1, NumberAssumption DEF BatchIteration, LoopOK, BatchType
  <2>3. item.actor \in Wallets /\ item.amount \in Nat
    BY <2>2, NumberAssumption DEF Item
  <2>4. Credit(batch.asset, batch.hostId, item.actor, item.amount)
    BY <2>1 DEF BatchIteration
  <2> HIDE DEF item
  <2> QED BY <1>4, <2>2, <2>3, <2>4
<1>7. CASE PayoutStep
  <2>1. PICK y \in Assets, v \in Wallets : withdraw(y, v)
    BY <1>3, <1>7 DEF PayoutStep, sweepStray, CallReturns, Donate, ledgerVars
  <2>2. y = x /\ v = w
    BY <1>1, <1>2, <2>1 DEF withdraw, BookTypeOK
  <2> QED BY <2>1, <2>2
<1>8. CASE UNCHANGED <<ledgerVars, txVars, received>>
  BY <1>3, <1>8 DEF ledgerVars
<1>9. CASE UNCHANGED vars
  BY <1>3, <1>9 DEF vars, ledgerVars
<1> QED BY <1>5, <1>6, <1>7, <1>8, <1>9, LedgerFrame

(* A credited wallet loses nothing but what a withdrawal, outside both     *)
(* pauses, pays out of its own entry in full.                              *)
THEOREM CreditsAreSafe == Spec => OnlyWithdrawalsDebit
<1> DEFINE Debit(x, w) ==
      pending'[x][w] < pending[x][w] =>
        /\ ~paused /\ ~withdrawalsPaused
        /\ pending'[x][w] = 0
        /\ balance'[x] = balance[x] - pending[x][w]
        /\ \A v \in Wallets \ {w} : pending'[x][v] = pending[x][v]
<1>1. IndInv /\ [Next]_vars => \A x \in Assets, w \in Wallets : Debit(x, w)
  <2> SUFFICES ASSUME IndInv, [Next]_vars, NEW x \in Assets, NEW w \in Wallets,
                      pending'[x][w] < pending[x][w]
               PROVE  /\ ~paused /\ ~withdrawalsPaused
                      /\ pending'[x][w] = 0
                      /\ balance'[x] = balance[x] - pending[x][w]
                      /\ \A v \in Wallets \ {w} : pending'[x][v] = pending[x][v]
    OBVIOUS
  <2>1. withdraw(x, w)
    BY DebitIsWithdrawal
  <2>2. BookTypeOK /\ FundTypeOK
    BY DEF IndInv, LedgerInv
  <2> QED BY <2>1, <2>2 DEF withdraw, BookTypeOK, FundTypeOK
<1>2. IndInv /\ [Next]_vars => [\A x \in Assets, w \in Wallets : Debit(x, w)]_vars
  BY <1>1
<1> QED BY <1>2, IndInvHolds, PTL DEF Spec, OnlyWithdrawalsDebit

(* Money leaves the contract only as what a wallet is owed, or under both  *)
(* pauses down to exactly what is owed, however transactions interleave    *)
(* with the receivers of open payments (withdraw, sweepStray).             *)
THEOREM OutflowIsAccounted == Spec => OutflowIsOwedOrStray
<1> DEFINE Outflow(x) ==
      balance'[x] < balance[x] =>
        \/ \E w \in Wallets : balance[x] - balance'[x] = pending[x][w] - pending'[x][w]
        \/ /\ paused /\ withdrawalsPaused
           /\ balance'[x] = totalPending[x] /\ pending' = pending
<1>1. IndInv /\ [Next]_vars => \A x \in Assets : Outflow(x)
  <2> SUFFICES ASSUME IndInv, [Next]_vars, NEW x \in Assets, balance'[x] < balance[x]
               PROVE  \/ \E w \in Wallets : balance[x] - balance'[x] = pending[x][w] - pending'[x][w]
                      \/ /\ paused /\ withdrawalsPaused
                         /\ balance'[x] = totalPending[x] /\ pending' = pending
    OBVIOUS
  <2>1. BookTypeOK /\ FundTypeOK /\ LoopOK
    BY DEF IndInv, LedgerInv
  <2>2. balance \in [Assets -> Nat] /\ balance[x] \in Nat /\ balance' # balance
    BY <2>1 DEF FundTypeOK
  <2>3. ASSUME NEW y \in Assets, NEW amount \in Nat, Receive(y, amount) PROVE FALSE
    BY <2>2, <2>3 DEF Receive
  <2>4. CASE TipStep
    <3>1. PICK amount \in Amounts, y \in Assets : Receive(y, amount)
      BY <2>4 DEF TipStep, tipETH, tipToken, tipAgent, Tip, Assets
    <3> QED BY <2>3, <3>1, NumberAssumption
  <2>5. CASE BatchStep
    <3>1. PICK value \in Amounts, y \in Assets : Receive(y, value)
      BY <2>2, <2>5 DEF BatchStep, BatchTip, BatchIteration
    <3> QED BY <2>3, <3>1, NumberAssumption
  <2>6. CASE PayoutStep
    <3>1. CASE \E y \in Assets, w \in Wallets : withdraw(y, w)
      <4>1. PICK y \in Assets, w \in Wallets : withdraw(y, w)
        BY <3>1
      <4>2. y = x
        BY <2>2, <4>1 DEF withdraw
      <4>3. pending[x][w] \in Nat /\ pending'[x][w] = 0 /\ balance'[x] = balance[x] - pending[x][w]
        BY <2>1, <2>2, <4>1, <4>2 DEF withdraw, BookTypeOK
      <4>4. balance[x] - balance'[x] = pending[x][w] - pending'[x][w]
        BY <2>2, <4>3
      <4> QED BY <4>4
    <3>2. CASE \E y \in Assets : sweepStray(y)
      <4>1. PICK y \in Assets : sweepStray(y)
        BY <3>2
      <4>2. y = x
        BY <2>2, <4>1 DEF sweepStray
      <4>3. totalPending[x] \in Nat
        BY <2>1 DEF BookTypeOK
      <4> QED BY <2>2, <4>1, <4>2, <4>3 DEF sweepStray
    <3>3. CASE \E y \in Assets, amount \in Amounts : Donate(y, amount)
      BY <2>3, <3>3, NumberAssumption DEF Donate
    <3>4. CASE CallReturns
      BY <2>2, <3>4 DEF CallReturns, ledgerVars
    <3> QED BY <2>6, <3>1, <3>2, <3>3, <3>4 DEF PayoutStep
  <2>7. CASE UNCHANGED ledgerVars
    BY <2>2, <2>7 DEF ledgerVars
  <2> QED BY <2>4, <2>5, <2>6, <2>7, LedgerFrame DEF vars
<1>2. IndInv /\ [Next]_vars => [\A x \in Assets : Outflow(x)]_vars
  BY <1>1
<1> QED BY <1>2, IndInvHolds, PTL DEF Spec, OutflowIsOwedOrStray
============================================================================
