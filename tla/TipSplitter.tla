---------------------------- MODULE TipSplitter ----------------------------
(***************************************************************************)
(* contracts/contracts/TipSplitter.sol: tips are split between the Lesser  *)
(* wallet, the host wallet and the actor, credited to pull-payment ledgers *)
(* and withdrawn by their owners; the contract owner (a Safe) keeps the    *)
(* host registry, the token allowlist, the tip limits and the pauses.      *)
(*                                                                         *)
(* Abstractions.  Zero is address(0); as the contract does for its limit   *)
(* mappings, Zero also stands for ETH, so pendingETH and pendingToken      *)
(* become one ledger indexed by asset.  A reverted transaction leaves no   *)
(* trace in the EVM, so a require that fails is a false guard.  The two    *)
(* places where ETH is sent hand control to the receiver: there the        *)
(* transaction is open (lock = "call") until CallReturns, and the owner's  *)
(* unguarded functions may run nested in it.  A batch is a loop, one step  *)
(* per iteration (lock = "loop"), and makes no external call while it      *)
(* runs.  ERC-20 transfers of allowlisted tokens are atomic; one that      *)
(* delivers less than was asked reverts.  Events, content hashes and the   *)
(* uint256 range (checked arithmetic reverts) are left out.                *)
(***************************************************************************)
EXTENDS Integers, Sequences, FiniteSets, FiniteSetsExt

CONSTANTS
  Zero,        \* address(0), also the key under which ETH is kept
  Wallets,     \* the non-zero accounts
  Tokens,      \* ERC-20 addresses the owner may allow or not
  Contracts,   \* addresses that have code (tokens and identity registries)
  Registries,  \* candidate ERC-8004 identity registries
  HostIds,
  Amounts,     \* tip amounts and msg.values that are tried
  Fees,        \* host fees in basis points that are tried
  Limits,      \* tip limits that are tried
  MaxBatch,    \* bound: longest batch (20 in the contract)
  InflowCap    \* bound: what the contract ever receives of one asset

ASSUME AddressAssumption ==
  /\ Zero \notin Wallets /\ Zero \notin Tokens /\ Zero \notin Registries

ASSUME NumberAssumption ==
  /\ Amounts \subseteq Nat /\ Fees \subseteq Nat /\ Limits \subseteq Nat
  /\ MaxBatch \in Nat /\ InflowCap \in Nat

(* Addresses and host ids are words of a fixed size.                       *)
ASSUME FiniteAssumption == IsFiniteSet(HostIds) /\ IsFiniteSet(Wallets)

VARIABLES
  lesserWallet, hosts, hostWalletRefCount,            \* host registry
  pending, totalPending, balance,                     \* ledgers, real balance
  allowedTokens, allowedTokenList, tokenIndex,        \* token allowlist
  maxTipAmount, minTipAmount, hasCustomMinTipAmount,  \* tip limits
  paused, withdrawalsPaused, agentIdentityRegistry,   \* administration
  lock, batch,                                        \* the open transaction
  received                     \* auxiliary: gross inflow per asset, for the bound

hostVars   == <<lesserWallet, hosts, hostWalletRefCount>>
ledgerVars == <<pending, totalPending, balance>>
listVars   == <<allowedTokens, allowedTokenList, tokenIndex>>
limitVars  == <<maxTipAmount, minTipAmount, hasCustomMinTipAmount>>
adminVars  == <<paused, withdrawalsPaused, agentIdentityRegistry>>
txVars     == <<lock, batch>>

vars == <<hostVars, ledgerVars, listVars, limitVars, adminVars, txVars, received>>

LESSER_FEE_BPS   == 100
MAX_HOST_FEE_BPS == 500
BPS_DENOMINATOR  == 10000
MIN_TIP_AMOUNT   == 10000
MIN_CUSTOM_MIN   == 100

Assets   == Tokens \cup {Zero}
Accounts == Wallets \cup {Zero}

NoHost  == [wallet |-> Zero, feeBps |-> 0, isActive |-> FALSE]
NoBatch == [asset |-> Zero, hostId |-> Zero, sender |-> Zero,
            items |-> << >>, next |-> 0]

----------------------------------------------------------------------------
(* The split.                                                              *)

LesserShare(amount)        == (amount * LESSER_FEE_BPS) \div BPS_DENOMINATOR
HostShare(feeBps, amount)  == (amount * feeBps) \div BPS_DENOMINATOR
ActorShare(feeBps, amount) == amount - LesserShare(amount) - HostShare(feeBps, amount)

EffectiveMinTipAmount(x) ==
  IF hasCustomMinTipAmount[x] THEN minTipAmount[x] ELSE MIN_TIP_AMOUNT

(* The running totals of the loop that adds up the amounts of a batch.     *)
BatchTotals(items) ==
  LET tot[i \in 0..Len(items)] == IF i = 0 THEN 0 ELSE tot[i - 1] + items[i].amount
  IN  tot

CreditTo(ledger, a, v) == [ledger EXCEPT ![a] = @ + v]

MayEnter  == lock = "free"   \* nonReentrant
OwnerTurn == lock # "loop"   \* the Safe may act between and inside calls

----------------------------------------------------------------------------
(* Tips.                                                                   *)

TipOK(x, hostId, sender, actor, amount) ==
  /\ amount >= EffectiveMinTipAmount(x)
  /\ actor # Zero
  /\ actor # sender
  /\ maxTipAmount[x] > 0 => amount <= maxTipAmount[x]
  /\ hosts[hostId].wallet # Zero
  /\ hosts[hostId].isActive
  /\ LesserShare(amount) > 0

MutCreditForgetsTotal(x, hostId, actor, amount) ==
  LET host == hosts[hostId] IN
  /\ pending' = [pending EXCEPT ![x] =
                   CreditTo(CreditTo(CreditTo(@, lesserWallet, LesserShare(amount)),
                                     host.wallet, HostShare(host.feeBps, amount)),
                            actor, ActorShare(host.feeBps, amount))]
  /\ totalPending' = [totalPending EXCEPT ![x] = @ + ActorShare(host.feeBps, amount)]

Credit(x, hostId, actor, amount) ==
  LET host == hosts[hostId] IN
  /\ pending' = [pending EXCEPT ![x] =
                   CreditTo(CreditTo(CreditTo(@, lesserWallet, LesserShare(amount)),
                                     host.wallet, HostShare(host.feeBps, amount)),
                            actor, ActorShare(host.feeBps, amount))]
  /\ totalPending' = [totalPending EXCEPT ![x] = @ + amount]

Receive(x, amount) ==
  /\ received[x] + amount <= InflowCap
  /\ received' = [received EXCEPT ![x] = @ + amount]
  /\ balance' = [balance EXCEPT ![x] = @ + amount]

TokenAccepted(x) == x # Zero => allowedTokens[x]

Tip(x, hostId, sender, actor, amount) ==
  /\ MayEnter /\ ~paused
  /\ TokenAccepted(x)
  /\ TipOK(x, hostId, sender, actor, amount)
  /\ Receive(x, amount)
  /\ Credit(x, hostId, actor, amount)
  /\ UNCHANGED <<hostVars, listVars, limitVars, adminVars, txVars>>

tipETH(hostId, sender, actor, amount) == Tip(Zero, hostId, sender, actor, amount)

tipToken(token, hostId, sender, actor, amount) == Tip(token, hostId, sender, actor, amount)

(* The wallet the registry returns is any account of the environment.      *)
tipAgent(x, hostId, sender, agentWallet, amount) ==
  /\ agentIdentityRegistry # Zero
  /\ agentWallet # Zero
  /\ Tip(x, hostId, sender, agentWallet, amount)

(* value is msg.value for ETH; for a token it is what the transferFrom of  *)
(* the total delivered.                                                    *)
(* The tests of the loop body read nothing the loop writes, so a batch in  *)
(* which one of them fails is refused as a whole when it starts.           *)
BatchTip(x, hostId, sender, items, value) ==
  LET total == BatchTotals(items)[Len(items)] IN
  /\ MayEnter /\ ~paused
  /\ TokenAccepted(x)
  /\ total > 0
  /\ value = total
  /\ \A i \in 1..Len(items) : TipOK(x, hostId, sender, items[i].actor, items[i].amount)
  /\ Receive(x, value)
  /\ lock' = "loop"
  /\ batch' = [asset |-> x, hostId |-> hostId, sender |-> sender,
               items |-> items, next |-> 1]
  /\ UNCHANGED <<hostVars, pending, totalPending, listVars, limitVars, adminVars>>

BatchIteration ==
  /\ lock = "loop"
  /\ LET item == batch.items[batch.next] IN
       Credit(batch.asset, batch.hostId, item.actor, item.amount)
  /\ IF batch.next = Len(batch.items)
       THEN lock' = "free" /\ batch' = NoBatch
       ELSE /\ lock' = lock
            /\ batch' = [asset |-> batch.asset, hostId |-> batch.hostId, sender |-> batch.sender,
                         items |-> batch.items, next |-> batch.next + 1]
  /\ UNCHANGED <<hostVars, balance, listVars, limitVars, adminVars, received>>

----------------------------------------------------------------------------
(* Withdrawals.                                                            *)

(* Sending ETH gives the receiver control before the call returns.         *)
OpensCall(x) == /\ lock' = (IF x = Zero THEN "call" ELSE lock)
                /\ UNCHANGED batch

MutPayBeforeEffects(x, who) ==
  /\ MayEnter /\ ~paused /\ ~withdrawalsPaused
  /\ pending[x][who] > 0
  /\ balance[x] >= pending[x][who]
  /\ balance' = [balance EXCEPT ![x] = @ - pending[x][who]]
  /\ pending' = [pending EXCEPT ![x][who] = 0]
  /\ UNCHANGED totalPending
  /\ OpensCall(x)
  /\ UNCHANGED <<hostVars, listVars, limitVars, adminVars, received>>

withdraw(x, who) ==
  /\ MayEnter /\ ~paused /\ ~withdrawalsPaused
  /\ pending[x][who] > 0
  /\ balance[x] >= pending[x][who]       \* else the transfer itself reverts
  /\ pending' = [pending EXCEPT ![x][who] = 0]
  /\ totalPending' = [totalPending EXCEPT ![x] = @ - pending[x][who]]
  /\ balance' = [balance EXCEPT ![x] = @ - pending[x][who]]
  /\ OpensCall(x)
  /\ UNCHANGED <<hostVars, listVars, limitVars, adminVars, received>>

MutSweepAll(x) ==
  /\ MayEnter /\ paused /\ withdrawalsPaused
  /\ balance[x] > totalPending[x]
  /\ balance' = [balance EXCEPT ![x] = 0]
  /\ OpensCall(x)
  /\ UNCHANGED <<hostVars, pending, totalPending, listVars, limitVars, adminVars, received>>

sweepStray(x) ==
  /\ MayEnter /\ paused /\ withdrawalsPaused
  /\ balance[x] > totalPending[x]
  /\ balance' = [balance EXCEPT ![x] = @ - (@ - totalPending[x])]
  /\ OpensCall(x)
  /\ UNCHANGED <<hostVars, pending, totalPending, listVars, limitVars, adminVars, received>>

CallReturns ==
  /\ lock = "call"
  /\ lock' = "free"
  /\ UNCHANGED <<hostVars, ledgerVars, listVars, limitVars, adminVars, batch, received>>

(* receive() refuses plain ETH, but selfdestruct and coinbase payments do  *)
(* not ask, and anyone may transfer tokens to the contract.                *)
Donate(x, amount) ==
  /\ OwnerTurn
  /\ Receive(x, amount)
  /\ UNCHANGED <<hostVars, pending, totalPending, listVars, limitVars, adminVars, txVars>>

----------------------------------------------------------------------------
(* Host registry (owner).                                                  *)

MutRegisterAnyFee(hostId, wallet, feeBps) ==
  /\ OwnerTurn
  /\ wallet # Zero /\ wallet # lesserWallet
  /\ hosts[hostId].wallet = Zero
  /\ hostWalletRefCount' = [hostWalletRefCount EXCEPT ![wallet] = @ + 1]
  /\ hosts' = [hosts EXCEPT ![hostId] = [wallet |-> wallet, feeBps |-> feeBps, isActive |-> TRUE]]
  /\ UNCHANGED <<lesserWallet, ledgerVars, listVars, limitVars, adminVars, txVars, received>>

registerHost(hostId, wallet, feeBps) ==
  /\ OwnerTurn
  /\ wallet # Zero /\ wallet # lesserWallet
  /\ feeBps <= MAX_HOST_FEE_BPS
  /\ hosts[hostId].wallet = Zero
  /\ hostWalletRefCount' = [hostWalletRefCount EXCEPT ![wallet] = @ + 1]
  /\ hosts' = [hosts EXCEPT ![hostId] = [wallet |-> wallet, feeBps |-> feeBps, isActive |-> TRUE]]
  /\ UNCHANGED <<lesserWallet, ledgerVars, listVars, limitVars, adminVars, txVars, received>>

MovedRefCount(old, new) ==
  IF old = new THEN hostWalletRefCount
  ELSE [hostWalletRefCount EXCEPT ![old] = @ - 1, ![new] = @ + 1]

MutUpdateHostKeepsCount(hostId, wallet, feeBps) ==
  /\ OwnerTurn
  /\ hosts[hostId].wallet # Zero
  /\ wallet # Zero /\ wallet # lesserWallet
  /\ feeBps <= MAX_HOST_FEE_BPS
  /\ hosts' = [hosts EXCEPT ![hostId] =
                [wallet |-> wallet, feeBps |-> feeBps, isActive |-> hosts[hostId].isActive]]
  /\ UNCHANGED <<hostWalletRefCount, lesserWallet, ledgerVars, listVars, limitVars, adminVars, txVars, received>>

updateHost(hostId, wallet, feeBps) ==
  /\ OwnerTurn
  /\ hosts[hostId].wallet # Zero
  /\ wallet # Zero /\ wallet # lesserWallet
  /\ feeBps <= MAX_HOST_FEE_BPS
  /\ hostWalletRefCount' = MovedRefCount(hosts[hostId].wallet, wallet)
  /\ hosts' = [hosts EXCEPT ![hostId] =
                [wallet |-> wallet, feeBps |-> feeBps, isActive |-> hosts[hostId].isActive]]
  /\ UNCHANGED <<lesserWallet, ledgerVars, listVars, limitVars, adminVars, txVars, received>>

setHostActive(hostId, active) ==
  /\ OwnerTurn
  /\ hosts[hostId].wallet # Zero
  /\ hosts' = [hosts EXCEPT ![hostId] =
                [wallet |-> hosts[hostId].wallet, feeBps |-> hosts[hostId].feeBps, isActive |-> active]]
  /\ UNCHANGED <<lesserWallet, hostWalletRefCount, ledgerVars, listVars, limitVars, adminVars, txVars, received>>

setLesserWallet(newWallet) ==
  /\ OwnerTurn
  /\ newWallet # Zero /\ newWallet # lesserWallet
  /\ hostWalletRefCount[newWallet] = 0
  /\ lesserWallet' = newWallet
  /\ UNCHANGED <<hosts, hostWalletRefCount, ledgerVars, listVars, limitVars, adminVars, txVars, received>>

----------------------------------------------------------------------------
(* Token allowlist (owner): swap-and-pop over a list with a 1-based index. *)

AllowToken(token) ==
  /\ OwnerTurn
  /\ token \in Contracts
  /\ IF allowedTokens[token] THEN UNCHANGED <<allowedTokenList, tokenIndex>>
     ELSE /\ allowedTokenList' = Append(allowedTokenList, token)
          /\ tokenIndex' = [tokenIndex EXCEPT ![token] = Len(allowedTokenList) + 1]
  /\ allowedTokens' = [allowedTokens EXCEPT ![token] = TRUE]
  /\ UNCHANGED <<hostVars, ledgerVars, limitVars, adminVars, txVars, received>>

(* The list with its last element moved into position idx and popped.      *)
SwapAndPop(list, idx) ==
  [i \in 1..(Len(list) - 1) |-> IF i = idx THEN list[Len(list)] ELSE list[i]]

MutDisallowKeepsLastIndex(token) ==
  /\ OwnerTurn
  /\ IF ~allowedTokens[token] THEN UNCHANGED <<allowedTokenList, tokenIndex>>
     ELSE /\ allowedTokenList' = SwapAndPop(allowedTokenList, tokenIndex[token])
          /\ tokenIndex' = [tokenIndex EXCEPT ![token] = 0]
  /\ allowedTokens' = [allowedTokens EXCEPT ![token] = FALSE]
  /\ UNCHANGED <<hostVars, ledgerVars, limitVars, adminVars, txVars, received>>

DisallowToken(token) ==
  LET idx  == tokenIndex[token]
      last == allowedTokenList[Len(allowedTokenList)]
  IN
  /\ OwnerTurn
  /\ IF ~allowedTokens[token] THEN UNCHANGED <<allowedTokenList, tokenIndex>>
     ELSE /\ allowedTokenList' = SwapAndPop(allowedTokenList, idx)
          /\ tokenIndex' = IF idx = Len(allowedTokenList)
                           THEN [tokenIndex EXCEPT ![token] = 0]
                           ELSE [tokenIndex EXCEPT ![last] = idx, ![token] = 0]
  /\ allowedTokens' = [allowedTokens EXCEPT ![token] = FALSE]
  /\ UNCHANGED <<hostVars, ledgerVars, limitVars, adminVars, txVars, received>>

----------------------------------------------------------------------------
(* Limits, pauses and the agent registry (owner).                          *)

setMaxTipAmount(x, amount) ==
  /\ OwnerTurn
  /\ amount > 0 => amount >= EffectiveMinTipAmount(x)
  /\ maxTipAmount' = [maxTipAmount EXCEPT ![x] = amount]
  /\ UNCHANGED <<minTipAmount, hasCustomMinTipAmount, hostVars, ledgerVars, listVars, adminVars, txVars, received>>

MutSetMinIgnoresCap(x, amount) ==
  /\ OwnerTurn
  /\ amount >= MIN_CUSTOM_MIN
  /\ minTipAmount' = [minTipAmount EXCEPT ![x] = amount]
  /\ hasCustomMinTipAmount' = [hasCustomMinTipAmount EXCEPT ![x] = TRUE]
  /\ UNCHANGED <<maxTipAmount, hostVars, ledgerVars, listVars, adminVars, txVars, received>>

setMinTipAmount(x, amount) ==
  /\ OwnerTurn
  /\ amount >= MIN_CUSTOM_MIN
  /\ maxTipAmount[x] > 0 => amount <= maxTipAmount[x]
  /\ minTipAmount' = [minTipAmount EXCEPT ![x] = amount]
  /\ hasCustomMinTipAmount' = [hasCustomMinTipAmount EXCEPT ![x] = TRUE]
  /\ UNCHANGED <<maxTipAmount, hostVars, ledgerVars, listVars, adminVars, txVars, received>>

pause ==
  /\ OwnerTurn /\ ~paused
  /\ paused' = TRUE
  /\ UNCHANGED <<withdrawalsPaused, agentIdentityRegistry, hostVars, ledgerVars, listVars, limitVars, txVars, received>>

unpause ==
  /\ OwnerTurn /\ paused
  /\ paused' = FALSE
  /\ UNCHANGED <<withdrawalsPaused, agentIdentityRegistry, hostVars, ledgerVars, listVars, limitVars, txVars, received>>

setWithdrawalsPaused(b) ==
  /\ OwnerTurn
  /\ withdrawalsPaused' = b
  /\ UNCHANGED <<paused, agentIdentityRegistry, hostVars, ledgerVars, listVars, limitVars, txVars, received>>

setAgentIdentityRegistry(registry) ==
  /\ OwnerTurn
  /\ registry = Zero \/ registry \in Contracts
  /\ agentIdentityRegistry' = registry
  /\ UNCHANGED <<paused, withdrawalsPaused, hostVars, ledgerVars, listVars, limitVars, txVars, received>>

----------------------------------------------------------------------------
Init ==
  /\ lesserWallet \in Wallets
  /\ agentIdentityRegistry \in {Zero} \cup (Registries \cap Contracts)
  /\ hosts = [h \in HostIds |-> NoHost]
  /\ hostWalletRefCount = [w \in Wallets |-> 0]
  /\ pending = [x \in Assets |-> [w \in Wallets |-> 0]]
  /\ totalPending = [x \in Assets |-> 0]
  /\ balance = [x \in Assets |-> 0]
  /\ allowedTokens = [t \in Tokens |-> FALSE]
  /\ allowedTokenList = << >>
  /\ tokenIndex = [t \in Tokens |-> 0]
  /\ maxTipAmount = [x \in Assets |-> 0]
  /\ minTipAmount = [x \in Assets |-> 0]
  /\ hasCustomMinTipAmount = [x \in Assets |-> FALSE]
  /\ paused = FALSE
  /\ withdrawalsPaused = FALSE
  /\ lock = "free"
  /\ batch = NoBatch
  /\ received = [x \in Assets |-> 0]

Item == [actor : Wallets, amount : Amounts]

TipStep ==
  \E hostId \in HostIds, sender \in Wallets, actor \in Wallets, amount \in Amounts :
    \/ tipETH(hostId, sender, actor, amount)
    \/ \E token \in Tokens : tipToken(token, hostId, sender, actor, amount)
    \/ \E x \in Assets : tipAgent(x, hostId, sender, actor, amount)

BatchStep ==
  \/ \E x \in Assets, hostId \in HostIds, sender \in Wallets, n \in 1..MaxBatch, value \in Amounts :
       \E items \in [1..n -> Item] : BatchTip(x, hostId, sender, items, value)
  \/ BatchIteration

PayoutStep ==
  \/ \E x \in Assets, who \in Wallets : withdraw(x, who)
  \/ \E x \in Assets : sweepStray(x)
  \/ CallReturns
  \/ \E x \in Assets, amount \in Amounts : Donate(x, amount)

HostStep ==
  \/ \E hostId \in HostIds, wallet \in Wallets, feeBps \in Fees :
       registerHost(hostId, wallet, feeBps) \/ updateHost(hostId, wallet, feeBps)
  \/ \E hostId \in HostIds, active \in BOOLEAN : setHostActive(hostId, active)
  \/ \E wallet \in Wallets : setLesserWallet(wallet)

AdminStep ==
  \/ \E token \in Tokens : AllowToken(token) \/ DisallowToken(token)
  \/ \E x \in Assets, amount \in Limits : setMaxTipAmount(x, amount) \/ setMinTipAmount(x, amount)
  \/ pause \/ unpause
  \/ \E b \in BOOLEAN : setWithdrawalsPaused(b)
  \/ \E registry \in Registries \cup {Zero} : setAgentIdentityRegistry(registry)

Next == TipStep \/ BatchStep \/ PayoutStep \/ HostStep \/ AdminStep

Spec == Init /\ [][Next]_vars

----------------------------------------------------------------------------
(* Properties.                                                             *)

HostConfig == [wallet : Accounts, feeBps : 0..MAX_HOST_FEE_BPS, isActive : BOOLEAN]

BatchType == [asset : Assets, hostId : HostIds, sender : Wallets, items : Seq(Item), next : 1..MaxBatch]

(* Every mapping keeps its range; no ledger entry, total or reference      *)
(* count goes below zero (the checked arithmetic of TipSplitter.sol never  *)
(* has to revert), and no registered fee exceeds MAX_HOST_FEE_BPS.         *)
TypeOK ==
  /\ lesserWallet \in Wallets
  /\ hosts \in [HostIds -> HostConfig]
  /\ hostWalletRefCount \in [Wallets -> Nat]
  /\ pending \in [Assets -> [Wallets -> Nat]]
  /\ totalPending \in [Assets -> Nat]
  /\ balance \in [Assets -> Nat]
  /\ received \in [Assets -> Nat]
  /\ allowedTokens \in [Tokens -> BOOLEAN]
  /\ allowedTokenList \in Seq(Tokens)
  /\ tokenIndex \in [Tokens -> Nat]
  /\ maxTipAmount \in [Assets -> Nat]
  /\ minTipAmount \in [Assets -> Nat]
  /\ hasCustomMinTipAmount \in [Assets -> BOOLEAN]
  /\ paused \in BOOLEAN
  /\ withdrawalsPaused \in BOOLEAN
  /\ agentIdentityRegistry \in {Zero} \cup Registries
  /\ lock \in {"free", "call", "loop"}
  /\ lock = "loop" => batch \in BatchType /\ batch.next <= Len(batch.items)

(* The contract always holds at least what it owes, in the middle of a     *)
(* batch and while an ETH payment is handing control to its receiver too   *)
(* (withdraw clears the ledger before it pays).                            *)
Solvent == \A x \in Assets : balance[x] >= totalPending[x]

(* The total kept per asset, which sweepStray trusts, is the sum of what   *)
(* is owed: _split loses nothing to rounding, and a wallet that is host,   *)
(* actor or Lesser wallet at once is credited each of its shares.          *)
TotalIsSumOfPending ==
  \A x \in Assets :
    totalPending[x] = MapThenSumSet(LAMBDA w : pending[x][w], Wallets)

(* setTokenAllowed's swap-and-pop keeps list, index and flag in step: a    *)
(* token is allowed exactly when its 1-based index points at it, every     *)
(* list entry is allowed, and a token that is not allowed has index 0.     *)
AllowlistConsistent ==
  /\ \A t \in Tokens :
       IF allowedTokens[t]
       THEN tokenIndex[t] \in 1..Len(allowedTokenList) /\ allowedTokenList[tokenIndex[t]] = t
       ELSE tokenIndex[t] = 0
  /\ \A i \in 1..Len(allowedTokenList) :
       allowedTokens[allowedTokenList[i]] /\ tokenIndex[allowedTokenList[i]] = i

(* registerHost and updateHost refuse the Lesser wallet, and               *)
(* setLesserWallet, which cannot enumerate hosts, trusts a reference count: *)
(* no sequence of the three makes a host's wallet the Lesser wallet.       *)
LesserWalletIsNoHost == \A h \in HostIds : hosts[h].wallet # lesserWallet

(* Whatever order limits are set in, an asset has an amount that may be    *)
(* tipped: the minimum in force is not above the maximum, and is large     *)
(* enough for _split to find a non-zero Lesser share.                      *)
LimitsAdmitATip ==
  \A x \in Assets :
    /\ maxTipAmount[x] = 0 \/ EffectiveMinTipAmount(x) <= maxTipAmount[x]
    /\ LesserShare(EffectiveMinTipAmount(x)) > 0

(* A credited recipient never loses money: an entry of the ledger falls    *)
(* only by a withdrawal, outside both pauses, that pays exactly that entry *)
(* out; host or Lesser wallet rotations, delisting and sweeps never move   *)
(* or shrink it.                                                           *)
OnlyWithdrawalsDebit ==
  [][\A x \in Assets, w \in Wallets :
       pending'[x][w] < pending[x][w] =>
         /\ ~paused /\ ~withdrawalsPaused
         /\ pending'[x][w] = 0
         /\ balance'[x] = balance[x] - pending[x][w]
         /\ \A v \in Wallets \ {w} : pending'[x][v] = pending[x][v]]_vars

(* Money leaves the contract only to a recipient who is owed it, or, under *)
(* the full emergency pause, down to exactly what is owed (sweepStray).    *)
OutflowIsOwedOrStray ==
  [][\A x \in Assets :
       balance'[x] < balance[x] =>
         \/ \E w \in Wallets : balance[x] - balance'[x] = pending[x][w] - pending'[x][w]
         \/ /\ paused /\ withdrawalsPaused
            /\ balance'[x] = totalPending[x] /\ pending' = pending]_vars
============================================================================
