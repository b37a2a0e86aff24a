---------------------------- MODULE SoulRegistry ----------------------------
(***************************************************************************)
(* contracts/SoulRegistry.sol: ERC-721 soul tokens whose holder is the     *)
(* wallet TipSplitter pays.  A soul is minted once, may be transferred in  *)
(* a claim window after its mint, and then moves only by a rotation that   *)
(* the contract owner submits with signatures of both wallets.             *)
(*                                                                         *)
(* A transaction is one action.  The only call to foreign code, in         *)
(* withdrawFees, comes after every assignment and its failure reverts all  *)
(* of them, so a reentrant transaction is the same as a later one.         *)
(* Presentation (metaURI, avatar styles, renderers, tokenURI) affects no   *)
(* guard and is left out.  The contract owner is whoever passes onlyOwner. *)
(*                                                                         *)
(* A rotation signature, once given, exists for ever: sigs holds the       *)
(* signatures that could be presented.  Mint permits and attestations are  *)
(* presented by their content; the signer may have signed any of them.     *)
(***************************************************************************)
EXTENDS Integers, FiniteSets

CONSTANTS
    Agents, Wallets,
    Zero,           \* address(0)
    Signers,        \* possible mint signers and attestors
    Window,         \* claimWindowSeconds
    Fees,           \* mint fees the owner may set
    Deadlines,      \* deadlines of permits, attestations and proposals
    MaxTime,        \* bound on the clock
    MaxNonce,       \* bound: wallets sign proposals up to this nonce
    MaxTransfers,   \* bound on claim-window transfers of a soul
    MaxBalance      \* bound on the contract's balance

ASSUME SoulConstants ==
    /\ Zero \notin Wallets /\ Zero \notin Signers
    /\ Fees \subseteq Nat /\ Deadlines \subseteq Nat
    /\ Window \in Nat /\ MaxTime \in Nat /\ MaxNonce \in Nat
    /\ MaxTransfers \in Nat /\ MaxBalance \in Nat

VARIABLES
    time,               \* block.timestamp; deployment is at 1
    owners,             \* ERC721 _owners
    approved,           \* ERC721 _tokenApprovals
    operators,          \* ERC721 _operatorApprovals, <<holder, operator>>
    agentWallet,
    mintedAt,
    everMinted,
    agentNonces,
    transferCount,
    lastTransferredAt,
    principals,
    attestors,
    mintSigner,
    mintFee,
    accumulatedFees,
    balance,            \* address(this).balance
    usedPermits,
    usedAttestations,
    paused,
    sigs,               \* rotation signatures in existence
    executed            \* history: rotations performed and proposals they used

token  == <<owners, approved, agentWallet, transferCount, lastTransferredAt>>
minted == <<mintedAt, everMinted, principals>>
used   == <<usedPermits, usedAttestations>>
money  == <<mintFee, accumulatedFees, balance>>
roles  == <<attestors, mintSigner, paused>>
rot    == <<agentNonces, executed>>
vars   == <<time, token, operators, minted, used, money, roles, rot, sigs>>

Accounts == Wallets \cup {Zero}
Proposals == [cur : Wallets, new : Wallets, nonce : 0 .. MaxNonce, deadline : Deadlines]
Signatures == [by : Wallets, agent : Agents, prop : Proposals]
Permits == [to : Wallets, agent : Agents, deadline : Deadlines]
Attestations == [to : Wallets, agent : Agents, principal : Wallets,
                 deadline : Deadlines, submitter : Wallets]

Init ==
    /\ time = 1
    /\ owners = [a \in Agents |-> Zero]
    /\ approved = [a \in Agents |-> Zero]
    /\ operators = {}
    /\ agentWallet = [a \in Agents |-> Zero]
    /\ mintedAt = [a \in Agents |-> 0]
    /\ everMinted = [a \in Agents |-> FALSE]
    /\ agentNonces = [a \in Agents |-> 0]
    /\ transferCount = [a \in Agents |-> 0]
    /\ lastTransferredAt = [a \in Agents |-> 0]
    /\ principals = [a \in Agents |-> Zero]
    /\ attestors = {}
    /\ mintSigner = Zero
    /\ mintFee = 0
    /\ accumulatedFees = 0
    /\ balance = 0
    /\ usedPermits = {} /\ usedAttestations = {}
    /\ paused = FALSE
    /\ sigs = {}
    /\ executed = [a \in Agents |-> [count |-> 0, props |-> {}]]

-----------------------------------------------------------------------------
(* _update: every change of holder goes through it.                        *)

\* OpenZeppelin's _isAuthorized.
Authorised(a, auth) ==
    \/ auth = owners[a]
    \/ auth = approved[a]
    \/ <<owners[a], auth>> \in operators

MutSoulboundLate(a) == mintedAt[a] = 0 \/ time > mintedAt[a] + Window

Soulbound(a) == mintedAt[a] = 0 \/ time >= mintedAt[a] + Window

MutMayUpdateIgnoresPause(to, a, auth) ==
    /\ owners[a] # Zero /\ to # Zero /\ auth # Zero => ~ Soulbound(a)
    /\ auth # Zero => Authorised(a, auth)

\* Rotations, mints and burns pass auth = address(0), which skips both the
\* claim window and the authorisation.
MayUpdate(to, a, auth) ==
    /\ ~ paused
    /\ owners[a] # Zero /\ to # Zero /\ auth # Zero => ~ Soulbound(a)
    /\ auth # Zero => Authorised(a, auth)

MutBurnKeepsWallet(to, a) == IF to = Zero THEN agentWallet[a] ELSE to

\* Deleted on a burn, otherwise the new holder.
WalletAfter(to, a) == to

update(to, a, auth) ==
    /\ MayUpdate(to, a, auth)
    /\ owners' = [owners EXCEPT ![a] = to]
    /\ approved' = [approved EXCEPT ![a] = IF owners[a] = Zero THEN @ ELSE Zero]
    /\ agentWallet' = [agentWallet EXCEPT ![a] = WalletAfter(to, a)]
    /\ IF owners[a] # Zero /\ to # Zero
       THEN /\ transferCount' = [transferCount EXCEPT ![a] = @ + 1]
            /\ lastTransferredAt' = [lastTransferredAt EXCEPT ![a] = time]
       ELSE UNCHANGED <<transferCount, lastTransferredAt>>

-----------------------------------------------------------------------------
(* Minting and burning.                                                    *)

MutMintableAfterBurn(a) == owners[a] = Zero

Mintable(a) == owners[a] = Zero /\ ~ everMinted[a]

mintSoulInternal(to, a, principal) ==
    /\ Mintable(a)
    /\ everMinted' = [everMinted EXCEPT ![a] = TRUE]
    /\ mintedAt' = [mintedAt EXCEPT ![a] = time]
    /\ principals' = [principals EXCEPT ![a] = IF principal = Zero THEN @ ELSE principal]
    /\ update(to, a, Zero)

PayFee ==
    /\ balance + mintFee <= MaxBalance
    /\ accumulatedFees' = accumulatedFees + mintFee
    /\ balance' = balance + mintFee
    /\ UNCHANGED mintFee

mintSoul(p) ==
    /\ ~ paused
    /\ time <= p.deadline
    /\ mintSigner # Zero
    /\ p \notin usedPermits
    /\ usedPermits' = usedPermits \cup {p}
    /\ PayFee
    /\ mintSoulInternal(p.to, p.agent, Zero)
    /\ UNCHANGED <<time, operators, usedAttestations, roles, rot, sigs>>

mintSoulOwner(to, a) ==
    /\ ~ paused
    /\ mintSoulInternal(to, a, Zero)
    /\ UNCHANGED <<time, operators, used, money, roles, rot, sigs>>

selfMintSoul(t) ==
    /\ ~ paused
    /\ time <= t.deadline
    /\ attestors # {}
    /\ t \notin usedAttestations
    /\ usedAttestations' = usedAttestations \cup {t}
    /\ PayFee
    /\ mintSoulInternal(t.to, t.agent, t.principal)
    /\ UNCHANGED <<time, operators, usedPermits, roles, rot, sigs>>

burnSoul(a) ==
    /\ ~ paused
    /\ owners[a] # Zero
    /\ update(Zero, a, Zero)
    /\ UNCHANGED <<time, operators, minted, used, money, roles, rot, sigs>>

-----------------------------------------------------------------------------
(* Transfers, approvals and rotations.                                     *)

transferFrom(sender, to, a) ==
    /\ owners[a] # Zero
    /\ transferCount[a] < MaxTransfers
    /\ update(to, a, sender)
    /\ UNCHANGED <<time, operators, minted, used, money, roles, rot, sigs>>

\* Not subject to the pause.
approve(sender, to, a) ==
    /\ owners[a] # Zero
    /\ sender = owners[a] \/ <<owners[a], sender>> \in operators
    /\ approved' = [approved EXCEPT ![a] = to]
    /\ UNCHANGED <<time, owners, agentWallet, transferCount, lastTransferredAt,
                   operators, minted, used, money, roles, rot, sigs>>

setApprovalForAll(holder, op) ==
    /\ \/ operators' = operators \cup {<<holder, op>>}
       \/ operators' = operators \ {<<holder, op>>}
    /\ UNCHANGED <<time, token, minted, used, money, roles, rot, sigs>>

\* Off chain: either wallet of a proposal signs it.
SignRotation(a, p) ==
    /\ p.cur # p.new
    /\ \E by \in {p.cur, p.new} :
         sigs' = sigs \cup {[by |-> by, agent |-> a, prop |-> p]}
    /\ UNCHANGED <<time, token, operators, minted, used, money, roles, rot>>

Signed(a, p) == \A w \in {p.cur, p.new} : [by |-> w, agent |-> a, prop |-> p] \in sigs

Execute(a, p) ==
    executed' = [executed EXCEPT ![a] = [count |-> executed[a].count + 1,
                                         props |-> executed[a].props \cup {p}]]

MutNonceAfter(p) == p.nonce

NonceAfter(p) == p.nonce + 1

rotateWallet(a, p) ==
    /\ ~ paused
    /\ agentWallet[a] # Zero /\ owners[a] # Zero
    /\ p.cur = agentWallet[a] /\ p.new # p.cur
    /\ time <= p.deadline
    /\ p.nonce = agentNonces[a]
    /\ Signed(a, p)
    /\ agentNonces' = [agentNonces EXCEPT ![a] = NonceAfter(p)]
    /\ update(p.new, a, Zero)
    /\ Execute(a, p)
    /\ UNCHANGED <<time, operators, minted, used, money, roles, sigs>>

-----------------------------------------------------------------------------
(* Owner's administration, and the chain.                                  *)

addAttestor(s) ==
    /\ s \notin attestors
    /\ attestors' = attestors \cup {s}
    /\ UNCHANGED <<time, token, operators, minted, used, money, mintSigner, paused, rot, sigs>>

removeAttestor(s) ==
    /\ s \in attestors
    /\ attestors' = attestors \ {s}
    /\ UNCHANGED <<time, token, operators, minted, used, money, mintSigner, paused, rot, sigs>>

setMintSigner(s) ==
    /\ mintSigner' = s
    /\ UNCHANGED <<time, token, operators, minted, used, money, attestors, paused, rot, sigs>>

setMintFee(fee) ==
    /\ mintFee' = fee
    /\ UNCHANGED <<time, token, operators, minted, used, accumulatedFees, balance, roles, rot, sigs>>

FeesDue == IF accumulatedFees > balance THEN balance ELSE accumulatedFees

MutWithdrawKeepsFees ==
    /\ accumulatedFees # 0
    /\ balance' = balance - FeesDue
    /\ UNCHANGED <<time, token, operators, minted, used, mintFee, accumulatedFees, roles, rot, sigs>>

withdrawFees ==
    /\ accumulatedFees # 0
    /\ accumulatedFees' = accumulatedFees - FeesDue
    /\ balance' = balance - FeesDue
    /\ UNCHANGED <<time, token, operators, minted, used, mintFee, roles, rot, sigs>>

pause ==
    /\ ~ paused /\ paused' = TRUE
    /\ UNCHANGED <<time, token, operators, minted, used, money, attestors, mintSigner, rot, sigs>>

unpause ==
    /\ paused /\ paused' = FALSE
    /\ UNCHANGED <<time, token, operators, minted, used, money, attestors, mintSigner, rot, sigs>>

\* ETH forced into the contract (it has no receive function).
ForcedEther ==
    /\ balance < MaxBalance
    /\ balance' = balance + 1
    /\ UNCHANGED <<time, token, operators, minted, used, mintFee, accumulatedFees, roles, rot, sigs>>

Tick ==
    /\ time < MaxTime
    /\ time' = time + 1
    /\ UNCHANGED <<token, operators, minted, used, money, roles, rot, sigs>>

MintStep ==
    \/ \E p \in Permits : mintSoul(p)
    \/ \E to \in Wallets, a \in Agents : mintSoulOwner(to, a)
    \/ \E t \in Attestations : selfMintSoul(t)
    \/ \E a \in Agents : burnSoul(a)

HolderStep ==
    \/ \E s, to \in Wallets, a \in Agents : transferFrom(s, to, a)
    \/ \E s \in Wallets, to \in Accounts, a \in Agents : approve(s, to, a)
    \/ \E h, op \in Wallets : setApprovalForAll(h, op)
    \/ \E a \in Agents, p \in Proposals : SignRotation(a, p)
    \/ \E a \in Agents, p \in Proposals : rotateWallet(a, p)

AdminStep ==
    \/ \E s \in Signers : addAttestor(s) \/ removeAttestor(s) \/ setMintSigner(s)
    \/ \E fee \in Fees : setMintFee(fee)
    \/ withdrawFees \/ pause \/ unpause

Next == MintStep \/ HolderStep \/ AdminStep \/ ForcedEther \/ Tick

Spec == Init /\ [][Next]_vars

-----------------------------------------------------------------------------
(* Properties.                                                             *)

TypeOK ==
    /\ time \in Nat
    /\ owners \in [Agents -> Accounts]
    /\ approved \in [Agents -> Accounts]
    /\ operators \subseteq Wallets \X Wallets
    /\ agentWallet \in [Agents -> Accounts]
    /\ mintedAt \in [Agents -> Nat]
    /\ everMinted \in [Agents -> BOOLEAN]
    /\ agentNonces \in [Agents -> 0 .. MaxNonce + 1]
    /\ transferCount \in [Agents -> Nat]
    /\ lastTransferredAt \in [Agents -> Nat]
    /\ principals \in [Agents -> Accounts]
    /\ attestors \subseteq Signers
    /\ mintSigner \in Signers \cup {Zero}
    /\ mintFee \in Nat /\ accumulatedFees \in Nat /\ balance \in Nat
    /\ usedPermits \subseteq Permits /\ usedAttestations \subseteq Attestations
    /\ paused \in BOOLEAN
    /\ sigs \subseteq Signatures
    /\ executed \in [Agents -> [count : Nat, props : SUBSET Proposals]]

\* The wallet TipSplitter resolves for an agent is the holder of its soul,
\* and nobody after a burn, whatever mix of mints, transfers, rotations and
\* burns came before.
WalletIsHolder == agentWallet = owners

\* withdrawFees never has to settle for less than the accumulated fees.
FeesBacked == accumulatedFees <= balance

\* No signed rotation proposal takes effect twice, even when the soul comes
\* back to the wallet that signed it.
NoReplay == \A a \in Agents : executed[a].count = Cardinality(executed[a].props)

\* A burned agent id is never minted again, by permit, attestation or owner,
\* and a declared principal never changes.
BurnIsFinal ==
    [][\A a \in Agents : everMinted[a] =>
         /\ owners[a] = Zero => owners'[a] = Zero
         /\ principals'[a] = principals[a]]_vars

\* Once the claim window is over a soul passes from one wallet to another
\* only if both signed this very change at the current nonce; no approval or
\* operator given earlier is enough.
SoulboundByConsent ==
    [][\A a \in Agents :
         /\ owners[a] # Zero /\ owners'[a] \notin {owners[a], Zero}
         /\ time >= mintedAt[a] + Window
         => \E p \in Proposals :
              /\ p.cur = owners[a] /\ p.new = owners'[a]
              /\ p.nonce = agentNonces[a] /\ time <= p.deadline
              /\ Signed(a, p)]_vars

\* While the contract is paused no soul is minted, moved or burned and no
\* agent's wallet changes, by any entry point.
PauseFreezesSouls == [][paused => UNCHANGED <<owners, agentWallet>>]_vars
=============================================================================
