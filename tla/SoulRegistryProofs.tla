------------------------- MODULE SoulRegistryProofs -------------------------
(***************************************************************************)
(* Custody of souls, for any number of agents and wallets and any claim    *)
(* window.  CustodyInv is the inductive invariant: the bound wallet is the *)
(* holder, and each executed proposal carries a nonce below the agent's    *)
(* current one, so that the next execution is of a proposal not used yet.  *)
(*                                                                         *)
(* Every step is quiet about souls, mints, burns, moves or rotates one     *)
(* (StepShapes); the proofs go through these five cases.                   *)
(***************************************************************************)
EXTENDS SoulRegistry, FiniteSetTheorems, TLAPS

Quiet == UNCHANGED <<owners, agentWallet, minted, rot>>

Minting ==
    /\ ~ paused
    /\ UNCHANGED rot
    /\ \E a \in Agents, to \in Wallets, pr \in Accounts : mintSoulInternal(to, a, pr)

Burning ==
    /\ ~ paused
    /\ UNCHANGED <<minted, rot>>
    /\ \E a \in Agents : owners[a] # Zero /\ update(Zero, a, Zero)

Moving ==
    /\ UNCHANGED <<minted, rot>>
    /\ \E s, to \in Wallets, a \in Agents : owners[a] # Zero /\ update(to, a, s)

Rotating == \E a \in Agents, p \in Proposals : rotateWallet(a, p)

Shape == Quiet \/ Minting \/ Burning \/ Moving \/ Rotating

LEMMA StepShapes == [Next]_vars => Shape
  <1> SUFFICES ASSUME [Next]_vars PROVE Shape
    OBVIOUS
  <1>1. CASE UNCHANGED vars
    BY <1>1 DEF vars, token, Shape, Quiet
  <1>2. CASE MintStep
    <2>1. ASSUME NEW p \in Permits, mintSoul(p) PROVE Minting
      <3>1. p.to \in Wallets /\ p.agent \in Agents /\ Zero \in Accounts
        BY DEF Permits, Accounts
      <3> QED
        BY <2>1, <3>1 DEF mintSoul, Minting
    <2>2. ASSUME NEW to \in Wallets, NEW a \in Agents, mintSoulOwner(to, a)
          PROVE  Minting
      <3>1. Zero \in Accounts
        BY DEF Accounts
      <3> QED
        BY <2>2, <3>1 DEF mintSoulOwner, Minting
    <2>3. ASSUME NEW t \in Attestations, selfMintSoul(t) PROVE Minting
      <3>1. t.to \in Wallets /\ t.agent \in Agents /\ t.principal \in Accounts
        BY DEF Attestations, Accounts
      <3> QED
        BY <2>3, <3>1 DEF selfMintSoul, Minting
    <2>4. ASSUME NEW a \in Agents, burnSoul(a) PROVE Burning
      BY <2>4 DEF burnSoul, Burning
    <2> QED
      BY <1>2, <2>1, <2>2, <2>3, <2>4 DEF MintStep, Shape
  <1>3. CASE HolderStep
    <2>1. ASSUME NEW s \in Wallets, NEW to \in Wallets, NEW a \in Agents,
                 transferFrom(s, to, a)
          PROVE  Moving
      BY <2>1 DEF transferFrom, Moving
    <2>2. ASSUME NEW s \in Wallets, NEW to \in Accounts, NEW a \in Agents,
                 approve(s, to, a)
          PROVE  Quiet
      BY <2>2 DEF approve, Quiet
    <2>3. ASSUME NEW h \in Wallets, NEW op \in Wallets, setApprovalForAll(h, op)
          PROVE  Quiet
      BY <2>3 DEF setApprovalForAll, Quiet, token
    <2>4. ASSUME NEW a \in Agents, NEW p \in Proposals, SignRotation(a, p)
          PROVE  Quiet
      BY <2>4 DEF SignRotation, Quiet, token
    <2> QED
      BY <1>3, <2>1, <2>2, <2>3, <2>4 DEF HolderStep, Shape, Rotating
  <1>4. CASE AdminStep
    BY <1>4 DEF AdminStep, addAttestor, removeAttestor, setMintSigner, setMintFee,
                withdrawFees, pause, unpause, token, Quiet, Shape
  <1>5. CASE ForcedEther \/ Tick
    BY <1>5 DEF ForcedEther, Tick, token, Quiet, Shape
  <1> QED
    BY <1>1, <1>2, <1>3, <1>4, <1>5 DEF Next

-----------------------------------------------------------------------------
Custody ==
    /\ owners \in [Agents -> Accounts]
    /\ agentWallet \in [Agents -> Accounts]
    /\ agentWallet = owners
    /\ everMinted \in [Agents -> BOOLEAN]
    /\ principals \in [Agents -> Accounts]

\* One change of holder keeps the bound wallet equal to the holder.
LEMMA UpdateKeepsHolder ==
    ASSUME NEW to \in Accounts, NEW a \in Agents, NEW auth,
           owners \in [Agents -> Accounts], agentWallet = owners,
           update(to, a, auth)
    PROVE  /\ owners' \in [Agents -> Accounts] /\ agentWallet' = owners'
           /\ \A b \in Agents : owners'[b] = IF b = a THEN to ELSE owners[b]
  BY DEF update, WalletAfter

LEMMA CustodyInit == Init => Custody
  BY DEF Init, Custody, Accounts

LEMMA CustodyStep == Custody /\ [Next]_vars => Custody'
  <1> SUFFICES ASSUME Custody, [Next]_vars PROVE Custody'
    OBVIOUS
  <1>z. Zero \in Accounts /\ Wallets \subseteq Accounts
    BY DEF Accounts
  <1>1. CASE Quiet
    BY <1>1 DEF Quiet, minted, Custody
  <1>2. CASE Minting
    <2>1. PICK a \in Agents, to \in Wallets, pr \in Accounts : mintSoulInternal(to, a, pr)
      BY <1>2 DEF Minting
    <2>2. owners' \in [Agents -> Accounts] /\ agentWallet' = owners'
      BY <2>1, <1>z, UpdateKeepsHolder DEF mintSoulInternal, Custody
    <2>3. everMinted' \in [Agents -> BOOLEAN] /\ principals' \in [Agents -> Accounts]
      BY <2>1 DEF mintSoulInternal, Custody
    <2> QED
      BY <2>2, <2>3 DEF Custody
  <1>3. CASE Burning
    <2>1. PICK a \in Agents : update(Zero, a, Zero)
      BY <1>3 DEF Burning
    <2>2. owners' \in [Agents -> Accounts] /\ agentWallet' = owners'
      BY <2>1, <1>z, UpdateKeepsHolder DEF Custody
    <2> QED
      BY <1>3, <2>2 DEF Custody, Burning, minted
  <1>4. CASE Moving
    <2>1. PICK s \in Wallets, to \in Wallets, a \in Agents : update(to, a, s)
      BY <1>4 DEF Moving
    <2>2. owners' \in [Agents -> Accounts] /\ agentWallet' = owners'
      BY <2>1, <1>z, UpdateKeepsHolder DEF Custody
    <2> QED
      BY <1>4, <2>2 DEF Custody, Moving, minted
  <1>5. CASE Rotating
    <2>1. PICK a \in Agents, p \in Proposals : rotateWallet(a, p)
      BY <1>5 DEF Rotating
    <2>2. p.new \in Accounts
      BY <1>z DEF Proposals
    <2>3. owners' \in [Agents -> Accounts] /\ agentWallet' = owners'
      BY <2>1, <2>2, UpdateKeepsHolder DEF Custody, rotateWallet
    <2> QED
      BY <2>1, <2>3 DEF Custody, rotateWallet, minted
  <1> QED
    BY StepShapes, <1>1, <1>2, <1>3, <1>4, <1>5 DEF Shape

LEMMA CustodyHolds == Spec => []Custody
  BY CustodyInit, CustodyStep, PTL DEF Spec

\* getAgentWallet, which TipSplitter pays, is always the holder of the soul.
THEOREM WalletIsAlwaysHolder == Spec => []WalletIsHolder
  <1>1. Custody => WalletIsHolder
    BY DEF Custody, WalletIsHolder
  <1> QED
    BY <1>1, CustodyHolds, PTL

-----------------------------------------------------------------------------
\* A burned id stays burned and a principal stays as declared.
THEOREM BurnsAreFinal == Spec => BurnIsFinal
  <1> DEFINE Kept ==
        \A a \in Agents : everMinted[a] =>
          /\ owners[a] = Zero => owners'[a] = Zero
          /\ principals'[a] = principals[a]
  <1>1. Custody /\ [Next]_vars => Kept
    <2> SUFFICES ASSUME Custody, [Next]_vars, NEW a \in Agents, everMinted[a]
                 PROVE  /\ owners[a] = Zero => owners'[a] = Zero
                        /\ principals'[a] = principals[a]
      OBVIOUS
    <2>z. Zero \in Accounts /\ Wallets \subseteq Accounts
      BY DEF Accounts
    <2>1. CASE Quiet
      BY <2>1 DEF Quiet, minted
    <2>2. CASE Minting
      <3>1. PICK b \in Agents, to \in Wallets, pr \in Accounts : mintSoulInternal(to, b, pr)
        BY <2>2 DEF Minting
      <3>2. a # b
        BY <3>1 DEF mintSoulInternal, Mintable
      <3>3. owners'[a] = owners[a]
        BY <3>1, <3>2, <2>z, UpdateKeepsHolder DEF mintSoulInternal, Custody
      <3>4. principals'[a] = principals[a]
        BY <3>1, <3>2 DEF mintSoulInternal, Custody
      <3> QED
        BY <3>3, <3>4
    <2>3. CASE Burning
      <3>1. PICK b \in Agents : update(Zero, b, Zero)
        BY <2>3 DEF Burning
      <3>2. owners'[a] = IF a = b THEN Zero ELSE owners[a]
        BY <3>1, <2>z, UpdateKeepsHolder DEF Custody
      <3> QED
        BY <2>3, <3>2 DEF Burning, minted
    <2>4. CASE Moving
      <3>1. PICK s \in Wallets, to \in Wallets, b \in Agents : owners[b] # Zero /\ update(to, b, s)
        BY <2>4 DEF Moving
      <3>2. owners'[a] = IF a = b THEN to ELSE owners[a]
        BY <3>1, <2>z, UpdateKeepsHolder DEF Custody
      <3> QED
        BY <2>4, <3>1, <3>2 DEF Moving, minted
    <2>5. CASE Rotating
      <3>1. PICK b \in Agents, p \in Proposals : rotateWallet(b, p)
        BY <2>5 DEF Rotating
      <3>2. p.new \in Accounts
        BY <2>z DEF Proposals
      <3>3. owners'[a] = IF a = b THEN p.new ELSE owners[a]
        BY <3>1, <3>2, UpdateKeepsHolder DEF Custody, rotateWallet
      <3> QED
        BY <3>1, <3>3 DEF rotateWallet, minted
    <2> QED
      BY StepShapes, <2>1, <2>2, <2>3, <2>4, <2>5 DEF Shape
  <1>2. Custody /\ [Next]_vars => [Kept]_vars
    BY <1>1
  <1>3. [][Kept]_vars => BurnIsFinal
    BY PTL DEF BurnIsFinal
  <1> QED
    BY <1>2, <1>3, CustodyHolds, PTL DEF Spec

-----------------------------------------------------------------------------
Consented(a) ==
    \E p \in Proposals :
       /\ p.cur = owners[a] /\ p.new = owners'[a]
       /\ p.nonce = agentNonces[a] /\ time <= p.deadline
       /\ Signed(a, p)

\* After the claim window only a rotation signed by both wallets moves a soul.
THEOREM SoulboundNeedsConsent == Spec => SoulboundByConsent
  <1> DEFINE Bound ==
        \A a \in Agents :
          /\ owners[a] # Zero /\ owners'[a] \notin {owners[a], Zero}
          /\ time >= mintedAt[a] + Window
          => \E p \in Proposals :
               /\ p.cur = owners[a] /\ p.new = owners'[a]
               /\ p.nonce = agentNonces[a] /\ time <= p.deadline
               /\ Signed(a, p)
  <1>1. Custody /\ [Next]_vars => Bound
    <2> SUFFICES ASSUME Custody, [Next]_vars, NEW a \in Agents,
                        owners[a] # Zero, owners'[a] # owners[a], owners'[a] # Zero,
                        time >= mintedAt[a] + Window
                 PROVE  Consented(a)
      BY DEF Consented
    <2>z. Zero \in Accounts /\ Wallets \subseteq Accounts
      BY DEF Accounts
    <2>1. ~ Quiet
      BY DEF Quiet
    <2>2. ~ Minting
      <3> SUFFICES ASSUME NEW b \in Agents, NEW to \in Wallets, NEW pr \in Accounts,
                          mintSoulInternal(to, b, pr)
                   PROVE  FALSE
        BY DEF Minting
      <3>1. owners[b] = Zero
        BY DEF mintSoulInternal, Mintable
      <3>2. owners'[a] = IF a = b THEN to ELSE owners[a]
        BY <2>z, UpdateKeepsHolder DEF mintSoulInternal, Custody
      <3> QED
        BY <3>1, <3>2
    <2>3. ~ Burning
      <3> SUFFICES ASSUME NEW b \in Agents, update(Zero, b, Zero) PROVE FALSE
        BY DEF Burning
      <3>1. owners'[a] = IF a = b THEN Zero ELSE owners[a]
        BY <2>z, UpdateKeepsHolder DEF Custody
      <3> QED
        BY <3>1
    <2>4. ~ Moving
      <3> SUFFICES ASSUME NEW s \in Wallets, NEW to \in Wallets, NEW b \in Agents,
                          owners[b] # Zero, update(to, b, s)
                   PROVE  FALSE
        BY DEF Moving
      <3>1. owners'[a] = IF a = b THEN to ELSE owners[a]
        BY <2>z, UpdateKeepsHolder DEF Custody
      <3>2. a = b
        BY <3>1
      <3>3. to # Zero /\ s # Zero
        BY SoulConstants
      <3>4. ~ Soulbound(a)
        BY <3>2, <3>3 DEF update, MayUpdate
      <3> QED
        BY <3>4 DEF Soulbound
    <2>5. CASE Rotating
      <3>1. PICK b \in Agents, p \in Proposals : rotateWallet(b, p)
        BY <2>5 DEF Rotating
      <3>2. p.new \in Accounts
        BY <2>z DEF Proposals
      <3>3. owners'[a] = IF a = b THEN p.new ELSE owners[a]
        BY <3>1, <3>2, UpdateKeepsHolder DEF Custody, rotateWallet
      <3>4. a = b /\ p.new = owners'[a] /\ p.cur = owners[a]
        BY <3>1, <3>3 DEF rotateWallet, Custody
      <3>5. p.nonce = agentNonces[a] /\ time <= p.deadline /\ Signed(a, p)
        BY <3>1, <3>4 DEF rotateWallet
      <3> QED
        BY <3>4, <3>5 DEF Consented
    <2> QED
      BY StepShapes, <2>1, <2>2, <2>3, <2>4, <2>5 DEF Shape
  <1>2. Custody /\ [Next]_vars => [Bound]_vars
    BY <1>1
  <1>3. [][Bound]_vars => SoulboundByConsent
    BY PTL DEF SoulboundByConsent
  <1> QED
    BY <1>2, <1>3, CustodyHolds, PTL DEF Spec

\* A pause stops every way of minting, moving or burning a soul.
THEOREM PausesFreezeSouls == Spec => PauseFreezesSouls
  <1> DEFINE Frozen == paused => UNCHANGED <<owners, agentWallet>>
  <1>1. [Next]_vars => Frozen
    <2> SUFFICES ASSUME [Next]_vars, paused PROVE UNCHANGED <<owners, agentWallet>>
      OBVIOUS
    <2>1. ~ Minting /\ ~ Burning
      BY DEF Minting, Burning
    <2>2. ~ Moving /\ ~ Rotating
      BY DEF Moving, Rotating, update, MayUpdate, rotateWallet
    <2> QED
      BY StepShapes, <2>1, <2>2 DEF Shape, Quiet
  <1>2. [Next]_vars => [Frozen]_vars
    BY <1>1
  <1>3. [][Frozen]_vars => PauseFreezesSouls
    BY PTL DEF PauseFreezesSouls
  <1> QED
    BY <1>2, <1>3, PTL DEF Spec

-----------------------------------------------------------------------------
ReplayInv ==
    /\ agentNonces \in [Agents -> Nat]
    /\ executed \in [Agents -> [count : Nat, props : SUBSET Proposals]]
    /\ \A a \in Agents :
         /\ IsFiniteSet(executed[a].props)
         /\ executed[a].count = Cardinality(executed[a].props)
         /\ \A p \in executed[a].props : p.nonce < agentNonces[a]

LEMMA ReplayInit == Init => ReplayInv
  BY FS_EmptySet DEF Init, ReplayInv

LEMMA ReplayStep == ReplayInv /\ [Next]_vars => ReplayInv'
  <1> SUFFICES ASSUME ReplayInv, [Next]_vars PROVE ReplayInv'
    OBVIOUS
  <1>1. CASE UNCHANGED rot
    BY <1>1 DEF rot, ReplayInv
  <1>2. CASE Rotating
    <2>1. PICK a \in Agents, p \in Proposals : rotateWallet(a, p)
      BY <1>2 DEF Rotating
    <2>2. p.nonce \in Nat /\ p.nonce = agentNonces[a]
      BY <2>1 DEF rotateWallet, ReplayInv
    <2>3. agentNonces' \in [Agents -> Nat]
      BY <2>1, <2>2 DEF rotateWallet, NonceAfter, ReplayInv
    <2>4. /\ executed[a].count \in Nat /\ executed[a].props \in SUBSET Proposals
          /\ IsFiniteSet(executed[a].props)
          /\ executed[a].count = Cardinality(executed[a].props)
          /\ p \notin executed[a].props
      BY <2>2 DEF ReplayInv
    <2>5. /\ IsFiniteSet(executed[a].props \cup {p})
          /\ Cardinality(executed[a].props \cup {p}) = executed[a].count + 1
      BY <2>4, FS_AddElement
    <2>6. executed' = [executed EXCEPT ![a] =
             [count |-> executed[a].count + 1, props |-> executed[a].props \cup {p}]]
      BY <2>1 DEF rotateWallet, Execute
    <2>7. executed' \in [Agents -> [count : Nat, props : SUBSET Proposals]]
      BY <2>4, <2>6 DEF ReplayInv
    <2>8. ASSUME NEW b \in Agents
          PROVE  /\ IsFiniteSet(executed'[b].props)
                 /\ executed'[b].count = Cardinality(executed'[b].props)
                 /\ \A q \in executed'[b].props : q.nonce < agentNonces'[b]
      <3>1. CASE b = a
        <4>1. executed'[b].props = executed[a].props \cup {p}
              /\ executed'[b].count = executed[a].count + 1
          BY <2>6, <3>1 DEF ReplayInv
        <4>2. agentNonces'[b] = agentNonces[a] + 1
          BY <2>1, <2>2, <3>1 DEF rotateWallet, NonceAfter, ReplayInv
        <4>3. ASSUME NEW q \in executed'[b].props PROVE q.nonce < agentNonces'[b]
          <5>1. CASE q = p
            BY <5>1, <4>2, <2>2
          <5>2. CASE q \in executed[a].props
            <6>1. q \in Proposals /\ q.nonce < agentNonces[a]
              BY <5>2, <2>4 DEF ReplayInv
            <6>2. q.nonce \in Nat
              BY <6>1, SoulConstants DEF Proposals
            <6> QED
              BY <6>1, <6>2, <4>2, <2>2
          <5> QED
            BY <4>1, <5>1, <5>2
        <4> QED
          BY <4>1, <4>3, <2>5
      <3>2. CASE b # a
        <4>1. executed'[b] = executed[b] /\ agentNonces'[b] = agentNonces[b]
          BY <2>1, <2>6, <3>2 DEF rotateWallet, ReplayInv
        <4> QED
          BY <4>1 DEF ReplayInv
      <3> QED
        BY <3>1, <3>2
    <2> QED
      BY <2>3, <2>7, <2>8 DEF ReplayInv
  <1> QED
    BY StepShapes, <1>1, <1>2 DEF Shape, Quiet, Minting, Burning, Moving

\* No rotation proposal is executed twice.
THEOREM RotationsNeverReplay == Spec => []NoReplay
  <1>1. ReplayInv => NoReplay
    BY DEF ReplayInv, NoReplay
  <1> QED
    BY <1>1, ReplayInit, ReplayStep, PTL DEF Spec

-----------------------------------------------------------------------------
FeeInv ==
    /\ mintFee \in Nat /\ accumulatedFees \in Nat /\ balance \in Nat
    /\ accumulatedFees <= balance

LEMMA FeeStep == FeeInv /\ [Next]_vars => FeeInv'
  <1> SUFFICES ASSUME FeeInv, [Next]_vars PROVE FeeInv'
    OBVIOUS
  <1>1. CASE UNCHANGED money
    BY <1>1 DEF money, FeeInv
  <1>2. CASE PayFee
    BY <1>2 DEF PayFee, FeeInv
  <1>3. ASSUME NEW fee \in Fees, setMintFee(fee) PROVE FeeInv'
    BY <1>3, SoulConstants DEF setMintFee, FeeInv
  <1>4. CASE withdrawFees
    BY <1>4 DEF withdrawFees, FeesDue, FeeInv
  <1>5. CASE ForcedEther
    BY <1>5 DEF ForcedEther, FeeInv
  <1>6. MintStep => UNCHANGED money \/ PayFee
    BY DEF MintStep, mintSoul, mintSoulOwner, selfMintSoul, burnSoul
  <1>7. HolderStep => UNCHANGED money
    BY DEF HolderStep, transferFrom, approve, setApprovalForAll, SignRotation, rotateWallet
  <1>8. AdminStep => \/ UNCHANGED money \/ withdrawFees
                     \/ \E fee \in Fees : setMintFee(fee)
    BY DEF AdminStep, addAttestor, removeAttestor, setMintSigner, pause, unpause
  <1>9. Tick \/ UNCHANGED vars => UNCHANGED money
    BY DEF Tick, vars
  <1> QED
    BY <1>1, <1>2, <1>3, <1>4, <1>5, <1>6, <1>7, <1>8, <1>9 DEF Next

\* The contract always holds the fees it has accumulated.
THEOREM FeesAlwaysBacked == Spec => []FeesBacked
  <1>1. Init => FeeInv
    BY DEF Init, FeeInv
  <1>2. FeeInv => FeesBacked
    BY DEF FeeInv, FeesBacked
  <1> QED
    BY <1>1, <1>2, FeeStep, PTL DEF Spec
=============================================================================
