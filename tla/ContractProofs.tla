--------------------------- MODULE ContractProofs ---------------------------
(***************************************************************************)
(* The contracts and their relayers, for every set of accounts, orders,    *)
(* locks, burns, signers and amounts: MORMEscrow.sol; what a quorum of     *)
(* signers may do (USDmLockBridge.sol, GuardianMultisig.sol,               *)
(* MORMBridgeMS.sol); the challenge period (MORMBridgeOptimistic.sol); and *)
(* the backing of every dollar (USDm.sol, the USDm half of                 *)
(* export_relayer.py, relayer.py).                                         *)
(***************************************************************************)
EXTENDS MCContracts, SumTheorems, SequenceTheorems

-----------------------------------------------------------------------------
(***************************************************************************)
(* MORMEscrow.sol implements EscrowVault.                                  *)
(*                                                                         *)
(* The strengthening is the type of what the mapping reads: the balance,   *)
(* the stakes and their sum are numbers, so that a slash, which takes the  *)
(* same stake from both, leaves their difference to the orders alone.      *)
(***************************************************************************)
DealType == [buyer : Wallets \cup {Nobody}, seller : Wallets \cup {Nobody}, amount : Nat,
             status : PendingStatus \cup {"None", "Finalized", "Refunded"}]

EscrowInv ==
    /\ deals \in [EvmOrders -> DealType]
    /\ \A o \in EvmOrders : deals[o].status = "None" <=> deals[o].seller = Nobody
    /\ stakeOf \in [Wallets -> Nat]
    /\ contractBalance \in Int /\ stakeSum \in Int

LEMMA FeeIsPart == \A v \in Values : v \in Nat /\ FeeOf(v) \in Nat /\ v - FeeOf(v) \in Nat
<1> TAKE v \in Values
<1>1. v \in Nat /\ FEE_BPS \in Nat /\ BPS_DENOM \in Nat \ {0} /\ FEE_BPS <= BPS_DENOM
  BY EscrowAssumption
<1> DEFINE p == v * FEE_BPS
<1>2. p \in Nat /\ p <= v * BPS_DENOM
  BY <1>1, SMTT(60)
<1>3. p \div BPS_DENOM \in Nat /\ (p \div BPS_DENOM) <= v
  <2> DEFINE q == p \div BPS_DENOM
             r == p % BPS_DENOM
  <2>1. q \in Int /\ r \in 0..(BPS_DENOM - 1) /\ p = BPS_DENOM * q + r
    <3> HIDE DEF p
    <3> QED BY <1>1, <1>2
  <2>2. q >= 0
    <3> HIDE DEF q, r, p
    <3> QED BY <1>1, <1>2, <2>1, SMTT(60)
  <2>3. q <= v
    <3> HIDE DEF q, r, p
    <3> QED BY <1>1, <1>2, <2>1, SMTT(60)
  <2>4. QED
    BY <2>1, <2>2, <2>3
<1>4. QED
  <2> HIDE DEF p
  <2>1. FeeOf(v) = p \div BPS_DENOM
    BY DEF FeeOf, p
  <2>2. QED
    BY <1>1, <1>3, <2>1

-----------------------------------------------------------------------------
(* What a step does to the deals that EscrowVault sees.                     *)

PhaseOf(d) == CASE d.status = "None" -> "none"
                [] d.status \in PendingStatus -> "held"
                [] OTHER -> "released"

LEMMA DealsHeldOf ==
    dealsHeld = [o \in EvmOrders |-> [phase |-> PhaseOf(deals[o]), amount |-> deals[o].amount]]
BY DEF dealsHeld, PhaseOf

LEMMA Phases ==
    \A d : /\ d.status = "None" => PhaseOf(d) = "none"
           /\ d.status \in PendingStatus => PhaseOf(d) = "held"
           /\ d.status \in {"Finalized", "Refunded"} => PhaseOf(d) = "released"
BY DEF PhaseOf, PendingStatus

LEMMA InitImplements == EscrowInit => EscrowInv /\ OrderVault!Init
<1> SUFFICES ASSUME EscrowInit PROVE EscrowInv /\ OrderVault!Init
  OBVIOUS
<1>1. EscrowInv
  BY EscrowAssumption DEF EscrowInit, EscrowInv, DealType, NoDeal
<1>2. dealsHeld = [o \in EvmOrders |-> [phase |-> "none", amount |-> 0]]
  <2>1. \A o \in EvmOrders : deals[o].amount = 0 /\ deals[o].status = "None"
    BY DEF EscrowInit, NoDeal
  <2>2. \A o \in EvmOrders : PhaseOf(deals[o]) = "none"
    BY <2>1, Phases
  <2>3. QED
    BY <2>1, <2>2, DealsHeldOf
<1>3. QED
  BY <1>1, <1>2 DEF EscrowInit, OrderVault!Init

LEMMA CreateOpens ==
    ASSUME EscrowInv, NEW u \in Wallets, NEW s \in Wallets, NEW o \in EvmOrders,
           NEW c \in EvmContents, NEW v \in Values, CreateDeal(u, o, c, s, v)
    PROVE  EscrowInv' /\ OrderVault!Open(o)
<1> DEFINE n == v - FeeOf(v)
           new == [buyer |-> u, seller |-> s, amount |-> n, status |-> "Created"]
<1>1. n \in Nat /\ FeeOf(v) \in Nat /\ v \in Nat
  BY FeeIsPart
<1>2. new \in DealType /\ new.status # "None" /\ s # Nobody
  <2> HIDE DEF n
  <2> QED BY <1>1, EscrowAssumption DEF DealType, PendingStatus
<1>3. deals' = [deals EXCEPT ![o] = new]
  BY DEF CreateDeal
<1>4. contractBalance' = contractBalance + n /\ stakeSum' = stakeSum /\ stakeOf' = stakeOf
  BY <1>1 DEF CreateDeal, EscrowInv
<1>5. EscrowInv'
  <2> HIDE DEF n
  <2> QED BY <1>1, <1>2, <1>3, <1>4 DEF EscrowInv
<1>6. PhaseOf(deals[o]) = "none" /\ PhaseOf(new) = "held"
  BY DEF CreateDeal, PhaseOf, PendingStatus
<1>7. /\ dealsHeld[o].phase = "none"
      /\ dealsHeld' = [dealsHeld EXCEPT ![o] = [phase |-> "held", amount |-> n]]
      /\ dealsHeld'[o].amount = n
  <2> HIDE DEF n
  <2>1. new.amount = n
    OBVIOUS
  <2> HIDE DEF new
  <2>2. dealsHeld' = [p \in EvmOrders |-> [phase |-> PhaseOf(deals'[p]), amount |-> deals'[p].amount]]
    BY DealsHeldOf DEF dealsHeld, PhaseOf
  <2>3. deals'[o] = new /\ \A p \in EvmOrders \ {o} : deals'[p] = deals[p]
    BY <1>3 DEF EscrowInv
  <2>4. QED
    BY <1>6, <2>1, <2>2, <2>3, DealsHeldOf
<1>8. QED
  <2> HIDE DEF n
  <2>1. (contractBalance - stakeSum)' = (contractBalance - stakeSum) + n
    BY <1>1, <1>4 DEF EscrowInv
  <2>2. QED
    BY <1>1, <1>5, <1>7, <2>1 DEF OrderVault!Open

\* A proof moves an order along; the vault does not see it.
LEMMA ProofHidden ==
    ASSUME EscrowInv, NEW o \in EvmOrders, SubmitPackingProof(o) \/ SubmitOpeningProof(o)
    PROVE  EscrowInv' /\ UNCHANGED <<contractBalance - stakeSum, dealsHeld>>
<1>1. PICK status \in PendingStatus :
         /\ deals[o].status \in PendingStatus
         /\ deals' = [deals EXCEPT ![o].status = status]
         /\ UNCHANGED moneyVars
  BY DEF SubmitPackingProof, SubmitOpeningProof, PendingStatus
<1> DEFINE new == [deals[o] EXCEPT !.status = status]
<1>2. /\ deals[o] \in DealType /\ new \in DealType /\ new.status = status
      /\ new.amount = deals[o].amount /\ new.seller = deals[o].seller
      /\ status # "None" /\ deals[o].status # "None"
  BY <1>1 DEF EscrowInv, DealType, PendingStatus
<1>3. deals' = [deals EXCEPT ![o] = new]
  BY <1>1 DEF EscrowInv
<1>4. EscrowInv'
  <2> HIDE DEF new
  <2> QED BY <1>1, <1>2, <1>3 DEF EscrowInv, moneyVars
<1>5. dealsHeld' = dealsHeld
  <2> HIDE DEF new
  <2>1. PhaseOf(new) = PhaseOf(deals[o])
    BY <1>1, <1>2, Phases
  <2>2. dealsHeld' = [p \in EvmOrders |-> [phase |-> PhaseOf(deals'[p]), amount |-> deals'[p].amount]]
    BY DEF dealsHeld, PhaseOf
  <2>3. deals'[o] = new /\ \A p \in EvmOrders \ {o} : deals'[p] = deals[p]
    BY <1>3 DEF EscrowInv
  <2>4. QED
    BY <1>2, <2>1, <2>2, <2>3, DealsHeldOf
<1>6. QED
  BY <1>1, <1>4, <1>5 DEF moneyVars

\* What finalize does to an order, either way, releases the deal: the slash takes
\* the stake out of the balance and out of the sum of stakes.
LEMMA FinalizeReleases ==
    ASSUME EscrowInv, NEW o \in EvmOrders, DealPaid(o) \/ DealRefunded(o)
    PROVE  EscrowInv' /\ OrderVault!Release(o)
<1> DEFINE s == deals[o].seller
           n == deals[o].amount
           new(status) == [deals[o] EXCEPT !.status = status]
<1>1. /\ deals[o].status = "OpeningProofSubmitted"
      /\ deals[o] \in DealType /\ n \in Nat /\ s \in Wallets
  BY DEF DealPaid, DealRefunded, EscrowInv, DealType
<1>2. PICK status \in {"Finalized", "Refunded"} : deals' = [deals EXCEPT ![o] = new(status)]
  BY DEF DealPaid, DealRefunded, EscrowInv
<1>3. /\ new(status) \in DealType /\ new(status).status = status
      /\ new(status).amount = n /\ new(status).seller = s
  BY <1>1 DEF DealType
<1>4. /\ stakeOf' \in [Wallets -> Nat]
      /\ contractBalance' \in Int /\ stakeSum' \in Int
      /\ (contractBalance - stakeSum)' = (contractBalance - stakeSum) - n
  <2>1. CASE DealPaid(o)
    <3> HIDE DEF n
    <3>1. contractBalance' = contractBalance - n /\ stakeOf' = stakeOf /\ stakeSum' = stakeSum
      BY <2>1 DEF DealPaid, n
    <3>2. QED
      BY <1>1, <3>1 DEF EscrowInv
  <2>2. CASE DealRefunded(o)
    <3> DEFINE k == stakeOf[s]
    <3>1. k \in Nat
      BY <1>1 DEF EscrowInv
    <3>2. /\ contractBalance' = contractBalance - n - k /\ stakeSum' = stakeSum - k
          /\ stakeOf' = [stakeOf EXCEPT ![s] = 0]
      BY <2>2 DEF DealRefunded
    <3>3. stakeOf' \in [Wallets -> Nat]
      BY <1>1, <3>2 DEF EscrowInv
    <3>4. QED
      <4> HIDE DEF k, n
      <4> QED BY <1>1, <3>1, <3>2, <3>3 DEF EscrowInv
  <2>3. QED
    BY <2>1, <2>2
<1>5. EscrowInv'
  <2> HIDE DEF new, n
  <2> QED BY <1>1, <1>2, <1>3, <1>4, EscrowAssumption DEF EscrowInv
<1>6. dealsHeld[o].phase = "held" /\ dealsHeld[o].amount = n
  BY <1>1, Phases, DealsHeldOf DEF PendingStatus
<1>7. dealsHeld' = [dealsHeld EXCEPT ![o].phase = "released"]
  <2> HIDE DEF new, n
  <2>1. PhaseOf(new(status)) = "released"
    BY <1>3, Phases
  <2>2. dealsHeld' = [p \in EvmOrders |-> [phase |-> PhaseOf(deals'[p]), amount |-> deals'[p].amount]]
    BY DEF dealsHeld, PhaseOf
  <2>3. deals'[o] = new(status) /\ \A p \in EvmOrders \ {o} : deals'[p] = deals[p]
    BY <1>2 DEF EscrowInv
  <2>4. [dealsHeld EXCEPT ![o].phase = "released"]
          = [dealsHeld EXCEPT ![o] = [phase |-> "released", amount |-> n]]
    <3> DEFINE h == dealsHeld[o]
    <3>1. h = [phase |-> PhaseOf(deals[o]), amount |-> n]
      BY DealsHeldOf DEF n
    <3>2. [h EXCEPT !.phase = "released"] = [phase |-> "released", amount |-> n]
      <4> HIDE DEF h
      <4> QED BY <3>1
    <3>3. [dealsHeld EXCEPT ![o].phase = "released"]
            = [dealsHeld EXCEPT ![o] = [h EXCEPT !.phase = "released"]]
      BY DealsHeldOf
    <3>4. QED
      <4> HIDE DEF h
      <4> QED BY <3>2, <3>3
  <2>5. QED
    BY <1>3, <2>1, <2>2, <2>3, <2>4, DealsHeldOf
<1>8. QED
  <2> HIDE DEF n
  <2> QED BY <1>4, <1>5, <1>6, <1>7 DEF OrderVault!Release

\* Stakes come and go beside the vault.
LEMMA StakesHidden ==
    ASSUME EscrowInv, NEW u \in Wallets, NEW v \in Values,
           StakeNode(u, v) \/ UnstakeNode(u, v)
    PROVE  EscrowInv' /\ UNCHANGED <<contractBalance - stakeSum, dealsHeld>>
<1>1. v \in Nat /\ stakeOf[u] \in Nat
  BY FeeIsPart DEF EscrowInv
<1>2. deals' = deals /\ dealsHeld' = dealsHeld
  BY DEF StakeNode, UnstakeNode, dealsHeld
<1>3. CASE StakeNode(u, v)
  <2>1. stakeOf[u] + v \in Nat
    BY <1>1
  <2>2. QED
    BY <1>1, <1>2, <1>3, <2>1 DEF StakeNode, EscrowInv
<1>4. CASE UnstakeNode(u, v)
  <2>1. stakeOf[u] - v \in Nat
    BY <1>1, <1>4 DEF UnstakeNode
  <2>2. QED
    BY <1>1, <1>2, <1>4, <2>1 DEF UnstakeNode, EscrowInv
<1>5. QED
  BY <1>3, <1>4

-----------------------------------------------------------------------------

LEMMA StepImplements ==
    ASSUME EscrowInv, [EscrowNext]_escrowVars
    PROVE  EscrowInv' /\ [OrderVault!Next]_(OrderVault!vars)
<1> USE DEF OrderVault!Next, OrderVault!vars
<1>1. ASSUME NEW u \in Wallets, NEW c \in EvmContents,
             NEW g \in GenerationIds \cup {NoGeneration}, RegisterContent(u, c, g)
      PROVE  EscrowInv' /\ [OrderVault!Next]_(OrderVault!vars)
  BY <1>1 DEF RegisterContent, EscrowInv, moneyVars, dealsHeld
<1>2. ASSUME NEW u \in Wallets, NEW s \in Wallets, NEW o \in EvmOrders,
             NEW c \in EvmContents, NEW v \in Values, CreateDeal(u, o, c, s, v)
      PROVE  EscrowInv' /\ [OrderVault!Next]_(OrderVault!vars)
  BY <1>2, CreateOpens
<1>3. ASSUME NEW o \in EvmOrders, SubmitPackingProof(o) \/ SubmitOpeningProof(o)
      PROVE  EscrowInv' /\ [OrderVault!Next]_(OrderVault!vars)
  BY <1>3, ProofHidden
<1>4. ASSUME NEW o \in EvmOrders, DealPaid(o) \/ DealRefunded(o)
      PROVE  EscrowInv' /\ [OrderVault!Next]_(OrderVault!vars)
  BY <1>4, FinalizeReleases
<1>5. ASSUME NEW u \in Wallets, NEW v \in Values, StakeNode(u, v) \/ UnstakeNode(u, v)
      PROVE  EscrowInv' /\ [OrderVault!Next]_(OrderVault!vars)
  BY <1>5, StakesHidden
<1>6. CASE UNCHANGED escrowVars
  BY <1>6 DEF escrowVars, moneyVars, EscrowInv, dealsHeld
<1>7. QED
  BY <1>1, <1>2, <1>3, <1>4, <1>5, <1>6 DEF EscrowNext

\* createOrder and finalize of MORMEscrow.sol, next to its stakes and slashes in
\* the same balance, are the escrow of EscrowVault: what an order puts into the
\* contract leaves it in full, once, and nothing else of it does.
THEOREM EscrowImplemented == EscrowSpec => ContractImplementsEscrow
<1>1. EscrowInit => EscrowInv /\ OrderVault!Init
  BY InitImplements
<1>2. EscrowInv /\ [EscrowNext]_escrowVars => EscrowInv' /\ [OrderVault!Next]_(OrderVault!vars)
  BY StepImplements
<1>3. QED
  BY <1>1, <1>2, PTL DEF EscrowSpec, ContractImplementsEscrow, OrderVault!Spec

-----------------------------------------------------------------------------
(* Signers that are fewer than the threshold are no quorum, however often   *)
(* they sign: the order of the addresses makes the signatures distinct, so  *)
(* there cannot be more of them than signers.                               *)

LEMMA ThresholdPositive ==
    ASSUME NEW signers, NEW threshold, IsCommittee(signers, threshold)
    PROVE  IsFiniteSet(signers) /\ signers \subseteq Nat /\ threshold \in Nat \ {0}
<1>1. Cardinality(signers) \in Nat
  BY FS_CardinalityType DEF IsCommittee
<1>2. QED
  BY <1>1 DEF IsCommittee

LEMMA TooFewSigners ==
    ASSUME NEW signers, NEW threshold, IsCommittee(signers, threshold),
           NEW few \in SUBSET signers, Cardinality(few) < threshold,
           NEW k \in Nat, NEW sigs \in [1..k -> few],
           Accepts(signers, threshold, sigs)
    PROVE  FALSE
<1>1. IsFiniteSet(few) /\ Cardinality(few) \in Nat
  BY ThresholdPositive, FS_Subset, FS_CardinalityType
<1>2. sigs \in Seq(few) /\ Len(sigs) = k
  <2>1. sigs \in Seq(few)
    BY SeqDef
  <2>2. DOMAIN sigs = 1..Len(sigs) /\ Len(sigs) \in Nat
    BY <2>1, LenProperties
  <2>3. 1..Len(sigs) = 1..k
    BY <2>2
  <2>4. QED
    BY <2>1, <2>2, <2>3, FS_Interval
<1>3. IsFiniteSet(1..k) /\ Cardinality(1..k) = k
  BY FS_Interval
<1>4. Cardinality(few) < Cardinality(1..k)
  BY <1>1, <1>2, <1>3, ThresholdPositive DEF Accepts
<1>5. PICK i, j \in 1..k : i # j /\ sigs[i] = sigs[j]
  BY <1>1, <1>3, <1>4, FS_PigeonHole
<1>6. sigs[i] \in Nat /\ sigs[j] \in Nat
  BY ThresholdPositive
<1>7. DOMAIN sigs = 1..k
  OBVIOUS
<1>8. QED
  BY <1>5, <1>6, <1>7 DEF Accepts

-----------------------------------------------------------------------------
(* MORMBridgeOptimistic.sol                                                 *)

RowType == [proposedAt : Int, challenged : BOOLEAN, finalized : BOOLEAN]

(***************************************************************************)
(* The strengthening ties the history to the row: what was paid is marked  *)
(* as finalized, what was challenged is marked as such, and no row has     *)
(* both marks, because each call refuses a row that has one.               *)
(***************************************************************************)
RowInv(b) ==
    /\ paidAt[b] # -1 => /\ pending[b].finalized
                         /\ paidAt[b] - pending[b].proposedAt >= Period
    /\ challengedAt[b] # -1 => pending[b].challenged
    /\ ~(pending[b].challenged /\ pending[b].finalized)

OptimisticInv ==
    /\ seconds \in Nat
    /\ pending \in [DOMAIN ProposedBurns -> RowType]
    /\ paidAt \in [DOMAIN ProposedBurns -> Int]
    /\ challengedAt \in [DOMAIN ProposedBurns -> Int]
    /\ \A b \in DOMAIN ProposedBurns : RowInv(b)

LEMMA PeriodPositive == Period \in Nat \ {0} /\ FirstDeposit \in Nat
BY FirstBridgeAssumption

LEMMA FirstInitInv == FirstInit => OptimisticInv
BY PeriodPositive DEF FirstInit, OptimisticInv, RowInv, RowType, NoRow

LEMMA FirstStepInv == OptimisticInv /\ [FirstNext]_firstVars => OptimisticInv'
<1> SUFFICES ASSUME OptimisticInv, [FirstNext]_firstVars
             PROVE  OptimisticInv'
  OBVIOUS
<1> USE PeriodPositive
<1>1. CASE UNCHANGED optimisticVars
  BY <1>1 DEF OptimisticInv, RowInv, optimisticVars
<1>2. ASSUME NEW b \in DOMAIN ProposedBurns, Propose(b)
      PROVE  OptimisticInv'
  <2>1. pending' = [pending EXCEPT ![b].proposedAt = seconds]
    BY <1>2 DEF Propose
  <2>2. pending' \in [DOMAIN ProposedBurns -> RowType]
    BY <2>1 DEF OptimisticInv, RowType
  <2>3. \A c \in DOMAIN ProposedBurns : RowInv(c)'
    BY <1>2, <2>1 DEF OptimisticInv, RowInv, RowType, Propose
  <2>4. QED
    BY <1>2, <2>2, <2>3 DEF OptimisticInv, Propose
<1>3. ASSUME NEW b \in DOMAIN ProposedBurns, Challenge(b)
      PROVE  OptimisticInv'
  <2>1. /\ pending' = [pending EXCEPT ![b].challenged = TRUE]
        /\ challengedAt' = [challengedAt EXCEPT ![b] = seconds]
    BY <1>3 DEF Challenge
  <2>2. /\ pending' \in [DOMAIN ProposedBurns -> RowType]
        /\ challengedAt' \in [DOMAIN ProposedBurns -> Int]
    <3>1. pending[b] \in RowType /\ seconds \in Int
      BY DEF OptimisticInv
    <3>2. [pending[b] EXCEPT !.challenged = TRUE] \in RowType
      BY <3>1 DEF RowType
    <3>3. pending' \in [DOMAIN ProposedBurns -> RowType]
      BY <2>1, <3>2 DEF OptimisticInv
    <3>4. QED
      BY <2>1, <3>1, <3>3 DEF OptimisticInv
  <2>3. \A c \in DOMAIN ProposedBurns : RowInv(c)'
    BY <1>3, <2>1 DEF OptimisticInv, RowInv, RowType, Challenge
  <2>4. QED
    BY <1>3, <2>2, <2>3 DEF OptimisticInv, Challenge
<1>4. ASSUME NEW b \in DOMAIN ProposedBurns, Finalize(b)
      PROVE  OptimisticInv'
  <2>1. /\ pending' = [pending EXCEPT ![b].finalized = TRUE]
        /\ paidAt' = [paidAt EXCEPT ![b] = seconds]
    BY <1>4 DEF Finalize
  <2>2. /\ pending' \in [DOMAIN ProposedBurns -> RowType]
        /\ paidAt' \in [DOMAIN ProposedBurns -> Int]
    <3>1. pending[b] \in RowType /\ seconds \in Int
      BY DEF OptimisticInv
    <3>2. [pending[b] EXCEPT !.finalized = TRUE] \in RowType
      BY <3>1 DEF RowType
    <3>3. pending' \in [DOMAIN ProposedBurns -> RowType]
      BY <2>1, <3>2 DEF OptimisticInv
    <3>4. QED
      BY <2>1, <3>1, <3>3 DEF OptimisticInv
  <2>3. \A c \in DOMAIN ProposedBurns : RowInv(c)'
    BY <1>4, <2>1 DEF OptimisticInv, RowInv, RowType, Finalize
  <2>4. QED
    BY <1>4, <2>2, <2>3 DEF OptimisticInv, Finalize
<1>5. CASE Second \/ OptimisticLock
  BY <1>5 DEF OptimisticInv, RowInv, Second, OptimisticLock
<1>6. QED
  BY <1>1, <1>2, <1>3, <1>4, <1>5
     DEF FirstNext, RelayNext, MultiNext, OptimisticNext, firstVars

(* MORMBridgeOptimistic.sol pays nothing before its challenge period is over, *)
(* and a payment and a challenge of one burn exclude each other.              *)
THEOREM ChallengesVoid == FirstSpec => []ChallengeVoids
<1>1. OptimisticInv => ChallengeVoids
  BY DEF OptimisticInv, RowInv, ChallengeVoids
<1>2. QED
  BY <1>1, FirstInitInv, FirstStepInv, PTL DEF FirstSpec

-----------------------------------------------------------------------------
(* MORMBridgeMS.sol                                                         *)

LEMMA MultiUnlockInv ==
    ASSUME NEW b \in DOMAIN MultiBurns, NEW n, NEW sigs \in [1..Threshold -> MultiSigners(b, n)],
           MultiPaidWasBurned, MultiUnlock(b, n, sigs)
    PROVE  MultiPaidWasBurned'
<1>1. b \in multiBurned /\ n = MultiBurns[b]
  <2>1. SUFFICES ASSUME MultiSigners(b, n) = Traitors PROVE FALSE
    BY DEF MultiSigners
  <2>2. IsCommittee(Committee, Threshold) /\ Traitors \in SUBSET Committee
          /\ Cardinality(Traitors) < Threshold
    BY CommitteeAssumption
  <2>3. Accepts(Committee, Threshold, sigs)
    BY DEF MultiUnlock
  <2>4. Threshold \in Nat
    BY <2>2, ThresholdPositive
  <2>5. QED
    BY <2>1, <2>2, <2>3, <2>4, TooFewSigners
<1>2. /\ multiPaid' = multiPaid \cup {[burn |-> b, amount |-> n]}
      /\ b \notin {p.burn : p \in multiPaid}
      /\ multiBurned' = multiBurned
  BY DEF MultiUnlock
<1>3. QED
  BY <1>1, <1>2 DEF MultiPaidWasBurned

LEMMA MultiStepInv == MultiPaidWasBurned /\ [FirstNext]_firstVars => MultiPaidWasBurned'
<1> SUFFICES ASSUME MultiPaidWasBurned, [FirstNext]_firstVars
             PROVE  MultiPaidWasBurned'
  OBVIOUS
<1>1. CASE UNCHANGED multiVars
  BY <1>1 DEF MultiPaidWasBurned, multiVars
<1>2. CASE MultiLock(1)
  BY <1>2 DEF MultiPaidWasBurned, MultiLock
<1>3. ASSUME NEW b \in DOMAIN MultiBurns, MultiBurn(b)
      PROVE  MultiPaidWasBurned'
  BY <1>3 DEF MultiPaidWasBurned, MultiBurn
<1>4. QED
  BY <1>1, <1>2, <1>3, MultiUnlockInv
     DEF FirstNext, RelayNext, MultiNext, OptimisticNext, firstVars

(* MORMBridgeMS.sol pays only what was burned on L1, in its amount, and once, *)
(* as long as the signers that may lie are fewer than its threshold.          *)
THEOREM MultiPaysBurns == FirstSpec => []MultiPaidWasBurned
<1>1. FirstInit => MultiPaidWasBurned
  BY DEF FirstInit, MultiPaidWasBurned
<1>2. QED
  BY <1>1, MultiStepInv, PTL DEF FirstSpec

-----------------------------------------------------------------------------
(* USDmLockBridge.sol                                                       *)

(* What is released is also remembered, so that it is not released again.   *)
ReleaseInv == ReleasedWasBurned /\ \A r \in released : r.burn \in unlockedBurn

LEMMA UnlockInv ==
    ASSUME NEW b \in L1Burns, NEW to, NEW n,
           NEW sigs \in Bundles(Attestors(b, to, n), Threshold),
           ReleaseInv, Unlock(b, to, n, sigs)
    PROVE  ReleaseInv'
<1>1. b \in burnedOnL1 /\ ReleaseOf[b] = [to |-> to, amount |-> n]
  <2>1. SUFFICES ASSUME Attestors(b, to, n) = Traitors PROVE FALSE
    BY DEF Attestors
  <2>2. IsCommittee(Committee, Threshold) /\ Traitors \in SUBSET Committee
          /\ Cardinality(Traitors) < Threshold
    BY CommitteeAssumption
  <2>3. Accepts(Committee, Threshold, sigs)
    BY DEF Unlock
  <2>4. Threshold \in Nat \ {0}
    BY <2>2, ThresholdPositive
  <2>5. PICK k \in (Threshold - 1)..(Threshold + 1) : sigs \in [1..k -> Traitors]
    BY <2>1 DEF Bundles
  <2>6. k \in Nat
    BY <2>4
  <2>7. QED
    BY <2>2, <2>3, <2>5, <2>6, TooFewSigners
<1>2. /\ b \notin unlockedBurn
      /\ unlockedBurn' = unlockedBurn \cup {b}
      /\ released' = released \cup {[at |-> clock, burn |-> b, to |-> to, amount |-> n]}
      /\ burnedOnL1' = burnedOnL1
  BY DEF Unlock
<1>3. QED
  BY <1>1, <1>2 DEF ReleaseInv, ReleasedWasBurned

-----------------------------------------------------------------------------
(* GuardianMultisig.sol                                                     *)

CallInv ==
    /\ decided \in Seq(GuardCalls) /\ executed \in Seq(GuardCalls)
    /\ ExecutedAsDecided

LEMMA DecideInv ==
    ASSUME NEW c \in GuardCalls, CallInv, Decide(c)
    PROVE  CallInv'
<1>1. decided' = Append(decided, c) /\ executed' = executed
  BY DEF Decide
<1>2. /\ decided' \in Seq(GuardCalls) /\ DOMAIN decided' = 1..(Len(decided) + 1)
      /\ \A i \in 1..Len(decided) : decided'[i] = decided[i]
  BY <1>1, AppendProperties, LenProperties DEF CallInv
<1>3. DOMAIN decided = 1..Len(decided) /\ Len(decided) \in Nat
  BY LenProperties DEF CallInv
<1>4. QED
  BY <1>1, <1>2, <1>3 DEF CallInv, ExecutedAsDecided

LEMMA ExecuteInv ==
    ASSUME NEW c \in GuardCalls,
           NEW sigs \in Bundles(Approvers(c, Len(executed)), GuardThreshold),
           CallInv, Execute(c, sigs)
    PROVE  CallInv'
<1>1. Len(executed) < Len(decided) /\ decided[Len(executed) + 1] = c
  <2>1. SUFFICES ASSUME Approvers(c, Len(executed)) = GuardTraitors PROVE FALSE
    BY DEF Approvers
  <2>2. IsCommittee(GuardSigners, GuardThreshold) /\ GuardTraitors \in SUBSET GuardSigners
          /\ Cardinality(GuardTraitors) < GuardThreshold
    BY VaultAssumption
  <2>3. Accepts(GuardSigners, GuardThreshold, sigs)
    BY DEF Execute
  <2>4. GuardThreshold \in Nat \ {0}
    BY <2>2, ThresholdPositive
  <2>5. PICK k \in (GuardThreshold - 1)..(GuardThreshold + 1) : sigs \in [1..k -> GuardTraitors]
    BY <2>1 DEF Bundles
  <2>6. k \in Nat
    BY <2>4
  <2>7. QED
    BY <2>2, <2>3, <2>5, <2>6, TooFewSigners
<1>2. executed' = Append(executed, c) /\ decided' = decided
  BY DEF Execute
<1>3. /\ executed' \in Seq(GuardCalls) /\ DOMAIN executed' = 1..(Len(executed) + 1)
      /\ \A i \in 1..Len(executed) : executed'[i] = executed[i]
      /\ executed'[Len(executed) + 1] = c
  BY <1>2, AppendProperties, LenProperties DEF CallInv
<1>4. /\ DOMAIN executed = 1..Len(executed) /\ Len(executed) \in Nat
      /\ DOMAIN decided = 1..Len(decided) /\ Len(decided) \in Nat
  BY LenProperties DEF CallInv
<1>5. QED
  BY <1>1, <1>2, <1>3, <1>4 DEF CallInv, ExecutedAsDecided

-----------------------------------------------------------------------------
(* The two together                                                         *)

LEMMA VaultInitInv == VaultInit => ReleaseInv /\ CallInv
BY DEF VaultInit, ReleaseInv, ReleasedWasBurned, CallInv, ExecutedAsDecided

LEMMA VaultStepInv == ReleaseInv /\ CallInv /\ [VaultNext]_vaultVars => (ReleaseInv /\ CallInv)'
<1> SUFFICES ASSUME ReleaseInv, CallInv, [VaultNext]_vaultVars
             PROVE  ReleaseInv' /\ CallInv'
  OBVIOUS
<1>1. ASSUME UNCHANGED <<released, unlockedBurn>>, burnedOnL1 \subseteq burnedOnL1'
      PROVE  ReleaseInv'
  BY <1>1 DEF ReleaseInv, ReleasedWasBurned
<1>2. ASSUME UNCHANGED <<decided, executed>>
      PROVE  CallInv'
  BY <1>2 DEF CallInv, ExecutedAsDecided
<1>3. CASE TokenCall
  BY <1>1, <1>2, <1>3
     DEF TokenCall, DepositTo, WithdrawTo, Transfer, Approve, Lock, releaseVars, guardVars
<1>4. CASE UnlockCall
  BY <1>2, <1>4, UnlockInv DEF UnlockCall, Unlock, guardVars
<1>5. CASE GuardCall
  <2>1. UNCHANGED <<released, unlockedBurn, burnedOnL1>>
    BY <1>5 DEF GuardCall, Decide, Execute, releaseVars
  <2>2. QED
    BY <1>1, <1>5, <2>1, DecideInv, ExecuteInv DEF GuardCall
<1>6. CASE Tick \/ (\E p \in BOOLEAN : SuccessorPauses(p)) \/ \E b \in L1Burns : BurnOnL1(b)
  BY <1>1, <1>2, <1>6 DEF Tick, SuccessorPauses, BurnOnL1, releaseVars, guardVars
<1>7. CASE UNCHANGED vaultVars
  BY <1>1, <1>2, <1>7 DEF vaultVars, releaseVars, guardVars
<1>8. QED
  BY <1>3, <1>4, <1>5, <1>6, <1>7 DEF VaultNext

(* USDmLockBridge.sol releases only what was burned on L1, in its amount, to *)
(* its recipient, and once, as long as the signers that may lie are fewer    *)
(* than its threshold.                                                       *)
THEOREM ReleasesAreBurns == VaultSpec => []ReleasedWasBurned
<1>1. ReleaseInv => ReleasedWasBurned
  BY DEF ReleaseInv
<1>2. QED
  BY <1>1, VaultInitInv, VaultStepInv, PTL DEF VaultSpec

(* GuardianMultisig.sol executes the calls its signers decided on, each for  *)
(* the nonce they decided on it, and no approval counts a second time.       *)
THEOREM GuardiansDecide == VaultSpec => []ExecutedAsDecided
<1>1. CallInv => ExecutedAsDecided
  BY DEF CallInv
<1>2. QED
  BY <1>1, VaultInitInv, VaultStepInv, PTL DEF VaultSpec

-----------------------------------------------------------------------------
(* USDm.sol: the tokens and the USDC behind them                            *)

BackingInv ==
    /\ usdm \in [Accounts -> Int]
    /\ reserve = usdmSupply
    /\ usdmSupply = SumFunctionOnSet(usdm, Accounts)

LEMMA HoldersFinite == IsFiniteSet(Accounts) /\ Vault \in Accounts /\ Holders \subseteq Accounts
  BY VaultAssumption, FS_AddElement DEF Accounts

LEMMA SumsTyped == \A n \in Sums : n \in Int
  BY VaultAssumption

LEMMA InitBacking == VaultInit => BackingInv
<1> SUFFICES ASSUME VaultInit PROVE BackingInv
  OBVIOUS
<1>1. usdm = [a \in Accounts |-> 0] /\ reserve = 0 /\ usdmSupply = 0
  BY DEF VaultInit
<1>2. \A a \in Accounts : usdm[a] = 0
  BY <1>1
<1>3. SumFunctionOnSet(usdm, Accounts) = 0
  BY <1>2, HoldersFinite, SumZero
<1> QED BY <1>1, <1>3 DEF BackingInv

\* A deposit and a redemption change the balance of one account.
LEMMA OneChanges ==
    ASSUME BackingInv, NEW a \in Accounts, NEW n \in Int,
           usdm' \in [Accounts -> Int], usdm'[a] = usdm[a] + n,
           \A c \in Accounts \ {a} : usdm'[c] = usdm[c],
           reserve' = reserve + n, usdmSupply' = usdmSupply + n
    PROVE  BackingInv'
<1>1. /\ \A c \in Accounts : usdm[c] \in Int
      /\ \A c \in Accounts : usdm'[c] \in Int
  BY DEF BackingInv
<1>2. SumFunctionOnSet(usdm', Accounts) = SumFunctionOnSet(usdm, Accounts) - usdm[a] + usdm'[a]
  BY <1>1, HoldersFinite, SumChange
<1>3. SumFunctionOnSet(usdm, Accounts) \in Int
  BY <1>1, HoldersFinite, SumInt
<1> QED BY <1>1, <1>2, <1>3 DEF BackingInv

\* A transfer moves an amount from one account to another, or to itself.
LEMMA MovedBacked ==
    ASSUME BackingInv, NEW a \in Accounts, NEW c \in Accounts, NEW n \in Int,
           usdm' = Moved(a, c, n), UNCHANGED <<reserve, usdmSupply>>
    PROVE  BackingInv'
<1>1. /\ \A x \in Accounts : usdm[x] \in Int
      /\ \A x \in Accounts : usdm'[x] \in Int
      /\ usdm' \in [Accounts -> Int]
      /\ \A x \in Accounts \ {a, c} : usdm'[x] = usdm[x]
  BY DEF BackingInv, Moved
<1>2. SumFunctionOnSet(usdm, Accounts) \in Int
  BY <1>1, HoldersFinite, SumInt
<1>4. a \in Accounts /\ c \in Accounts
  OBVIOUS
<1>3. SumFunctionOnSet(usdm', Accounts) = SumFunctionOnSet(usdm, Accounts)
  <2>1. CASE a = c
    <3>1. \A x \in Accounts : usdm'[x] = usdm[x]
      BY <1>1, <2>1 DEF Moved
    <3> QED BY <3>1, HoldersFinite, SumEqual
  <2>2. CASE a # c
    <3>1. usdm'[a] - usdm[a] = -n /\ usdm'[c] - usdm[c] = n
      BY <1>1, <2>2 DEF Moved
    <3>2. SumFunctionOnSet(usdm', Accounts) = SumFunctionOnSet(usdm, Accounts)
             + (usdm'[a] - usdm[a]) + (usdm'[c] - usdm[c])
      BY ONLY <1>1, <2>2, <1>4, HoldersFinite, SumChangeTwo
    <3> QED BY <1>2, <3>1, <3>2
  <2> QED BY <2>1, <2>2
<1> QED BY <1>1, <1>3 DEF BackingInv

LEMMA StepBacking == BackingInv /\ [VaultNext]_vaultVars => BackingInv'
<1> SUFFICES ASSUME BackingInv, [VaultNext]_vaultVars PROVE BackingInv'
  OBVIOUS
<1>1. ASSUME UNCHANGED <<usdm, reserve, usdmSupply>> PROVE BackingInv'
  BY <1>1 DEF BackingInv
<1>2. ASSUME NEW u \in Holders, NEW to \in Holders, NEW n \in Sums, DepositTo(u, to, n)
      PROVE  BackingInv'
  <2>1. /\ n \in Int /\ to \in Accounts /\ usdm' \in [Accounts -> Int]
        /\ usdm'[to] = usdm[to] + n /\ \A c \in Accounts \ {to} : usdm'[c] = usdm[c]
        /\ reserve' = reserve + n /\ usdmSupply' = usdmSupply + n
    BY <1>2, HoldersFinite, SumsTyped DEF DepositTo, BackingInv
  <2> QED BY <2>1, OneChanges
<1>3. ASSUME NEW u \in Holders, NEW to \in Holders, NEW n \in Sums, WithdrawTo(u, to, n)
      PROVE  BackingInv'
  <2> DEFINE m == -n
  <2>2. reserve \in Int /\ usdmSupply \in Int
    BY HoldersFinite, SumInt DEF BackingInv
  <2>1. /\ m \in Int /\ u \in Accounts /\ usdm' \in [Accounts -> Int]
        /\ usdm'[u] = usdm[u] + m /\ \A c \in Accounts \ {u} : usdm'[c] = usdm[c]
        /\ reserve' = reserve + m /\ usdmSupply' = usdmSupply + m
    BY <1>3, <2>2, HoldersFinite, SumsTyped DEF WithdrawTo, BackingInv
  <2> HIDE DEF m
  <2> QED BY <2>1, OneChanges
<1>4. ASSUME NEW u \in Holders, NEW to \in Holders, NEW n \in Sums, Transfer(u, to, n)
      PROVE  BackingInv'
  BY <1>4, HoldersFinite, SumsTyped, MovedBacked DEF Transfer
<1>5. ASSUME NEW u \in Holders, NEW n \in Sums, Lock(u, n)
      PROVE  BackingInv'
  BY <1>5, HoldersFinite, SumsTyped, MovedBacked DEF Lock, TransferFrom
<1>6. ASSUME NEW b, NEW to \in Holders, NEW n \in Sums, NEW sigs, Unlock(b, to, n, sigs)
      PROVE  BackingInv'
  BY <1>6, HoldersFinite, SumsTyped, MovedBacked DEF Unlock
<1>7. ASSUME NEW u \in Holders, NEW n \in Sums, Approve(u, n)
      PROVE  BackingInv'
  BY <1>1, <1>7 DEF Approve
<1>8. CASE TokenCall
  BY <1>2, <1>3, <1>4, <1>5, <1>7, <1>8 DEF TokenCall
<1>9. CASE UnlockCall
  BY <1>6, <1>9 DEF UnlockCall
<1>10. CASE \/ GuardCall \/ Tick \/ (\E p \in BOOLEAN : SuccessorPauses(p))
            \/ (\E b \in L1Burns : BurnOnL1(b)) \/ UNCHANGED vaultVars
  BY <1>1, <1>10 DEF GuardCall, Decide, Execute, Tick, SuccessorPauses, BurnOnL1, tokenVars,
     vaultVars
<1> QED BY <1>8, <1>9, <1>10 DEF VaultNext

LEMMA BackingIs == BackingInv => FullyBacked
<1> SUFFICES ASSUME BackingInv PROVE FullyBacked
  OBVIOUS
<1>1. DOMAIN usdm = Accounts
  BY DEF BackingInv
<1> QED BY <1>1 DEF BackingInv, FullyBacked, SumFunction

\* USDm is redeemable: its contract has the USDC of every token there is.
THEOREM TokenFullyBacked == VaultSpec => []FullyBacked
  BY InitBacking, StepBacking, BackingIs, PTL DEF VaultSpec

-----------------------------------------------------------------------------
(* USDmLockBridge.sol: the velocity cap                                     *)

\* What a set of releases amounts to, and those of a stretch of time.
Paid(S) == MapThenSumSet(LAMBDA r : r.amount, S)
During(S, from, to) == {r \in S : r.at \in from..to}
PaidIn(S, from, to) == Paid(During(S, from, to))
Releases(S) == IsFiniteSet(S) /\ \A r \in S : r.amount \in Nat /\ r.at \in Nat

LEMMA PaidSum ==
    ASSUME NEW S, IsFiniteSet(S)
    PROVE  Paid(S) = SumFunctionOnSet([r \in S |-> r.amount], S)
<1> DEFINE f == [r \in S |-> r.amount]
           Adder(g) == g = [s \in SUBSET S |->
                IF s = {} THEN 0 ELSE Picked(s).amount + g[s \ {Picked(s)}]]
<1>1. Paid(S) = (CHOOSE g : Adder(g))[S]
  BY DEF Paid, MapThenSumSet, MapThenFoldSet, Picked
<1>2. \A s \in SUBSET S : s # {} => f[Picked(s)] = Picked(s).amount
  BY PickedIn
<1>3. \A g : Adder(g) <=> Adds(g, f, Subsets(S))
  <2> HIDE DEF f
  <2> QED BY <1>2 DEF Adds, Subsets
<1>4. \E g : Adds(g, f, Subsets(S))
  BY SumAdds
<1> HIDE DEF f, Adder
<1>5. PICK g : Adder(g) /\ g = (CHOOSE h : Adder(h))
  BY <1>3, <1>4
<1>6. g[S] = SumFunctionOnSet(f, S)
  BY <1>3, <1>5, AddsIsSum
<1> QED BY <1>1, <1>5, <1>6 DEF f

\* One function on all releases serves for every part of them.
LEMMA PaidOf ==
    ASSUME NEW S, IsFiniteSet(S), NEW T \in SUBSET S
    PROVE  Paid(T) = SumFunctionOnSet([r \in S |-> r.amount], T)
<1> DEFINE f == [r \in S |-> r.amount]
           g == [r \in T |-> r.amount]
<1>1. IsFiniteSet(T) /\ \A r \in T : g[r] = f[r]
  BY FS_Subset
<1>2. Paid(T) = SumFunctionOnSet(g, T)
  BY <1>1, PaidSum
<1> HIDE DEF f, g
<1>3. SumFunctionOnSet(g, T) = SumFunctionOnSet(f, T)
  BY <1>1, SumEqual
<1> QED BY <1>2, <1>3 DEF f

\* A release more.
LEMMA PaidAdd ==
    ASSUME NEW S, Releases(S), NEW r, r \notin S, r.amount \in Nat
    PROVE  Paid(S \cup {r}) = Paid(S) + r.amount /\ Paid(S) \in Nat
<1> DEFINE T == S \cup {r}
           f == [x \in T |-> x.amount]
<1>1. IsFiniteSet(T) /\ IsFiniteSet(S) /\ S \in SUBSET T /\ T \in SUBSET T
  BY FS_AddElement DEF Releases
<1>2. Paid(T) = SumFunctionOnSet(f, T) /\ Paid(S) = SumFunctionOnSet(f, S)
  BY <1>1, PaidOf
<1>3. f[r] = r.amount /\ f[r] \in Int /\ \A x \in S : f[x] \in Nat
  BY DEF Releases
<1> HIDE DEF f
<1>4. SumFunctionOnSet(f, T) = f[r] + SumFunctionOnSet(f, S)
  BY <1>1, <1>3, SumAdd
<1>5. SumFunctionOnSet(f, S) \in Nat
  BY <1>1, <1>3, SumNat
<1> QED BY <1>2, <1>3, <1>4, <1>5

\* A part of the releases, and the rest of them.
LEMMA PaidSplit ==
    ASSUME NEW S, Releases(S), NEW T \in SUBSET S
    PROVE  /\ Paid(S) = Paid(T) + Paid(S \ T)
           /\ Paid(S) \in Nat /\ Paid(T) \in Nat /\ Paid(S \ T) \in Nat
<1> DEFINE f == [x \in S |-> x.amount]
           R == S \ T
<1>1. IsFiniteSet(S) /\ IsFiniteSet(T) /\ IsFiniteSet(R) /\ R \in SUBSET S /\ S \in SUBSET S
  BY FS_Subset DEF Releases
<1>2. /\ Paid(S) = SumFunctionOnSet(f, S)
      /\ Paid(T) = SumFunctionOnSet(f, T)
      /\ Paid(R) = SumFunctionOnSet(f, R)
  <2> HIDE DEF R
  <2> QED BY <1>1, PaidOf
<1>3. /\ \A x \in S : f[x] \in Nat
      /\ \A x \in T : f[x] \in Nat
      /\ \A x \in R : f[x] \in Nat
  BY DEF Releases
<1> HIDE DEF f
<1>4. SumFunctionOnSet(f, S) = SumFunctionOnSet(f, T) + SumFunctionOnSet(f, R)
  BY <1>1, <1>3, SumSplit
<1> HIDE DEF R
<1>5. /\ SumFunctionOnSet(f, S) \in Nat /\ SumFunctionOnSet(f, T) \in Nat
      /\ SumFunctionOnSet(f, R) \in Nat
  BY <1>1, <1>3, SumNat
<1> QED BY <1>2, <1>4, <1>5 DEF R

\* A stretch of time within another, as far as there are releases.
LEMMA PaidWithin ==
    ASSUME NEW S, Releases(S), NEW a \in Int, NEW c \in Int, NEW u \in Int, NEW v \in Int,
           \A r \in S : r.at \in a..c => r.at \in u..v
    PROVE  PaidIn(S, a, c) <= PaidIn(S, u, v) /\ PaidIn(S, a, c) \in Nat /\ PaidIn(S, u, v) \in Nat
<1> DEFINE B == During(S, u, v)
           A == During(S, a, c)
<1>1. Releases(B) /\ A \in SUBSET B
  BY FS_Subset DEF Releases, During
<1> HIDE DEF A, B
<1>2. Paid(B) = Paid(A) + Paid(B \ A) /\ Paid(B) \in Nat /\ Paid(A) \in Nat /\ Paid(B \ A) \in Nat
  BY <1>1, PaidSplit
<1> QED BY <1>2 DEF A, B, PaidIn

\* A stretch of time cut in two.
LEMMA PaidCut ==
    ASSUME NEW S, Releases(S), NEW a \in Int, NEW c \in Int, NEW m \in Int, a <= m, m <= c
    PROVE  PaidIn(S, a, c) = PaidIn(S, a, m - 1) + PaidIn(S, m, c)
<1> DEFINE B == During(S, a, c)
           A == During(S, a, m - 1)
           C == During(S, m, c)
<1>1. Releases(B) /\ A \in SUBSET B
  BY FS_Subset DEF Releases, During
<1>2. B \ A = C
  BY DEF Releases, During
<1> HIDE DEF A, B, C
<1>3. Paid(B) = Paid(A) + Paid(C)
  BY <1>1, <1>2, PaidSplit
<1> QED BY <1>3 DEF A, B, C, PaidIn

\* A release at time `at`, seen by a stretch of time.
LEMMA PaidMore ==
    ASSUME NEW S, Releases(S), NEW r, r \notin S, r.amount \in Nat, r.at \in Nat,
           NEW a \in Int, NEW c \in Int
    PROVE  /\ PaidIn(S \cup {r}, a, c)
                = PaidIn(S, a, c) + (IF r.at \in a..c THEN r.amount ELSE 0)
           /\ PaidIn(S, a, c) \in Nat
<1> DEFINE A == During(S, a, c)
<1>1. Releases(A) /\ r \notin A
  BY FS_Subset DEF Releases, During
<1>2. During(S \cup {r}, a, c) = IF r.at \in a..c THEN A \cup {r} ELSE A
  BY DEF During
<1> HIDE DEF A
<1>3. Paid(A \cup {r}) = Paid(A) + r.amount /\ Paid(A) \in Nat
  BY <1>1, PaidAdd
<1>4. PaidIn(S \cup {r}, a, c) = Paid(IF r.at \in a..c THEN A \cup {r} ELSE A)
  BY <1>2 DEF PaidIn
<1>5. PaidIn(S, a, c) = Paid(A)
  BY DEF A, PaidIn
<1> QED BY <1>3, <1>4, <1>5

(***************************************************************************)
(* The strengthening: the contract's counter is what has left the bridge   *)
(* since the window began; the releases before it that are less than a     *)
(* window old were all made in one window, the one before, since a window  *)
(* begins no earlier than the end of the one before; and no release is     *)
(* later than the window it was counted in.                                *)
(***************************************************************************)
CapInv ==
    /\ clock \in Nat /\ windowStart \in Nat /\ windowStart <= clock
    /\ unlockedInWindow \in Nat /\ unlockedInWindow <= MaxUnlock
    /\ Releases(released)
    /\ \A r \in released : r.at <= clock /\ r.at < windowStart + WindowLen
    /\ PaidIn(released, windowStart, clock) = unlockedInWindow
    /\ \A t \in Int : t > windowStart - WindowLen
                        => PaidIn(released, t, windowStart - 1) <= MaxUnlock
    /\ \A t \in Int : PaidIn(released, t, t + WindowLen - 1) <= 2 * MaxUnlock

LEMMA CapConstants ==
    /\ WindowLen \in Nat \ {0} /\ MaxUnlock \in Nat \ {0} /\ MaxNow \in Nat
    /\ \A n \in Sums : n \in Nat
  BY VaultAssumption

\* Two windows of releases at most, from what is known of the present window
\* and of the time before it.
LEMMA TwoWindows ==
    ASSUME NEW S, Releases(S), NEW now \in Nat, NEW start \in Nat, start <= now,
           \A r \in S : r.at <= now,
           PaidIn(S, start, now) <= MaxUnlock,
           NEW t \in Int,
           t > start - WindowLen => PaidIn(S, t, start - 1) <= MaxUnlock,
           t <= start - WindowLen => PaidIn(S, t, t + WindowLen - 1) <= 2 * MaxUnlock
    PROVE  PaidIn(S, t, t + WindowLen - 1) <= 2 * MaxUnlock
<1> DEFINE last == t + WindowLen - 1
<1>1. last \in Int /\ MaxUnlock \in Nat /\ WindowLen \in Nat /\ start - 1 \in Int
  BY CapConstants
<1>2. CASE t <= start - WindowLen
  BY <1>2
<1>3. CASE t > start - WindowLen /\ t <= start
  <2>1. start <= last
    BY <1>1, <1>3
  <2> HIDE DEF last
  <2>2. PaidIn(S, t, last) = PaidIn(S, t, start - 1) + PaidIn(S, start, last)
    BY <1>1, <1>3, <2>1, PaidCut
  <2>3. \A r \in S : r.at \in start..last => r.at \in start..now
    BY <1>1 DEF Releases
  <2>4. /\ PaidIn(S, start, last) <= PaidIn(S, start, now)
        /\ PaidIn(S, start, last) \in Nat /\ PaidIn(S, start, now) \in Nat
    BY <1>1, <2>3, PaidWithin
  <2>5. \A r \in S : r.at \in t..(start - 1) => r.at \in t..(start - 1)
    OBVIOUS
  <2>6. PaidIn(S, t, start - 1) \in Nat
    BY <1>1, <2>5, PaidWithin
  <2>7. PaidIn(S, t, last) <= 2 * MaxUnlock
    BY <1>1, <1>3, <2>2, <2>4, <2>6
  <2> QED BY <2>7 DEF last
<1>4. CASE t > start
  <2> HIDE DEF last
  <2>1. \A r \in S : r.at \in t..last => r.at \in start..now
    BY <1>1, <1>4 DEF Releases
  <2>2. /\ PaidIn(S, t, last) <= PaidIn(S, start, now)
        /\ PaidIn(S, t, last) \in Nat /\ PaidIn(S, start, now) \in Nat
    BY <1>1, <2>1, PaidWithin
  <2>3. PaidIn(S, t, last) <= 2 * MaxUnlock
    BY <1>1, <2>2
  <2> QED BY <2>3 DEF last
<1> QED BY <1>1, <1>2, <1>3, <1>4

\* Facts of arithmetic.
LEMMA OutOfRange == \A c, t, m \in Int : m < c => c \notin t..m
  OBVIOUS

LEMMA EndsBefore == \A t, w, s \in Int : t <= s - w => t + w - 1 < s
  OBVIOUS

LEMMA LastBefore == \A s, c \in Int : s <= c => s - 1 < c /\ s - 1 \in Int
  OBVIOUS

LEMMA Later == \A l, s, c \in Int : l < s /\ s <= c => l < c
  OBVIOUS

LEMMA InitCap == VaultInit => CapInv
<1> SUFFICES ASSUME VaultInit PROVE CapInv
  OBVIOUS
<1>1. released = {} /\ clock = 0 /\ windowStart = 0 /\ unlockedInWindow = 0
  BY DEF VaultInit
<1>2. Releases(released)
  BY <1>1, FS_EmptySet DEF Releases
<1>3. Paid({}) = 0
  BY FS_EmptySet, PaidSum, SumEmpty
<1>4. \A a, c \in Int : PaidIn(released, a, c) = 0
  <2>1. \A a, c \in Int : During(released, a, c) = {}
    BY <1>1 DEF During
  <2> QED BY <1>3, <2>1 DEF PaidIn
<1>5. 0 <= MaxUnlock /\ 0 <= 2 * MaxUnlock /\ WindowLen \in Nat
  BY CapConstants
<1>6. \A t \in Int : PaidIn(released, t, windowStart - 1) <= MaxUnlock
  BY <1>1, <1>4, <1>5
<1>7. \A t \in Int : PaidIn(released, t, t + WindowLen - 1) <= 2 * MaxUnlock
  <2> TAKE t \in Int
  <2>1. t + WindowLen - 1 \in Int
    BY <1>5
  <2> QED BY <1>4, <1>5, <2>1
<1>8. PaidIn(released, windowStart, clock) = 0
  BY <1>1, <1>4
<1> QED BY <1>1, <1>2, <1>5, <1>6, <1>7, <1>8 DEF CapInv

\* A release keeps the cap: accrueWindow opens a new window only after the end
\* of the last one, and refuses what exceeds the cap.
LEMMA UnlockCap ==
    ASSUME CapInv, NEW n \in Sums, NEW r, r \notin released, r.amount = n, r.at = clock,
           released' = released \cup {r}, clock' = clock, Accrue(n)
    PROVE  CapInv'
<1> DEFINE anew == clock >= windowStart + WindowLen
<1>1. /\ clock \in Nat /\ windowStart \in Nat /\ windowStart <= clock
      /\ unlockedInWindow \in Nat /\ unlockedInWindow <= MaxUnlock /\ Releases(released)
      /\ n \in Nat /\ MaxUnlock \in Nat /\ WindowLen \in Nat \ {0}
  BY CapConstants DEF CapInv
<1>b. \A x \in released : x.at \in Nat /\ x.at <= clock /\ x.at < windowStart + WindowLen
  BY DEF CapInv, Releases
<1>2. /\ windowStart' = IF anew THEN clock ELSE windowStart
      /\ unlockedInWindow' = n + (IF anew THEN 0 ELSE unlockedInWindow)
      /\ unlockedInWindow' <= MaxUnlock
  BY DEF Accrue
<1>0. /\ released' = released \cup {r} /\ clock' = clock
      /\ r.at = clock /\ r.amount = n /\ r.at \in Nat /\ r.amount \in Nat /\ r \notin released
  BY <1>1
<1> HIDE DEF anew
<1>3. /\ windowStart' \in Nat /\ windowStart' <= clock /\ clock < windowStart' + WindowLen
      /\ windowStart <= windowStart' /\ unlockedInWindow' \in Nat
  BY <1>1, <1>2 DEF anew
<1>a. clock \in Int /\ windowStart' \in Int /\ WindowLen \in Int
  BY ONLY <1>1, <1>3
<1>c. windowStart' <= clock
  BY ONLY <1>3
<1>d. clock < windowStart' + WindowLen
  BY ONLY <1>3
<1>4. Releases(released')
  BY <1>1, FS_AddElement DEF Releases
<1>5. \A x \in released' : x.at <= clock /\ x.at < windowStart' + WindowLen
  <2> TAKE x \in released'
  <2>1. x = r \/ x \in released
    BY ONLY <1>0
  <2>2. CASE x = r
    <3>1. x.at = clock
      BY ONLY <1>0, <2>2
    <3>2. x.at <= clock
      BY ONLY <1>a, <3>1
    <3>3. x.at < windowStart' + WindowLen
      BY ONLY <1>a, <1>d, <3>1
    <3> QED BY ONLY <3>2, <3>3
  <2>3. CASE x \in released
    <3>1. x.at \in Nat /\ x.at <= clock /\ x.at < windowStart + WindowLen
      BY ONLY <1>b, <2>3
    <3> QED BY ONLY <1>1, <1>3, <3>1
  <2> QED BY ONLY <2>1, <2>2, <2>3
<1>6. ASSUME NEW a \in Int, NEW c \in Int
      PROVE  /\ PaidIn(released', a, c)
                  = PaidIn(released, a, c) + (IF clock \in a..c THEN n ELSE 0)
             /\ PaidIn(released, a, c) \in Nat
  <2>1. /\ PaidIn(released \cup {r}, a, c)
              = PaidIn(released, a, c) + (IF r.at \in a..c THEN r.amount ELSE 0)
        /\ PaidIn(released, a, c) \in Nat
    BY ONLY <1>0, <1>1, <1>6, PaidMore
  <2> QED BY ONLY <1>0, <2>1
<1>e. \A a, c \in Int : /\ PaidIn(released, a, c) \in Nat
                        /\ clock \notin a..c => PaidIn(released', a, c) = PaidIn(released, a, c)
  <2> TAKE a, c \in Int
  <2> DEFINE p == PaidIn(released, a, c)
             q == PaidIn(released', a, c)
  <2>1. p \in Nat /\ q = p + (IF clock \in a..c THEN n ELSE 0)
    BY ONLY <1>6
  <2> HIDE DEF p, q
  <2>2. clock \notin a..c => q = p
    BY ONLY <2>1
  <2> QED BY ONLY <2>1, <2>2 DEF p, q
<1>7. PaidIn(released', windowStart', clock) = unlockedInWindow'
  <2>1. PaidIn(released', windowStart', clock) = PaidIn(released, windowStart', clock) + n
    <3>1. windowStart' \in Int /\ clock \in Int /\ clock \in windowStart'..clock
      BY ONLY <1>1, <1>3
    <3> QED BY ONLY <1>6, <3>1
  <2>2. PaidIn(released, windowStart', clock) = IF anew THEN 0 ELSE unlockedInWindow
    <3>1. CASE anew
      <4>1. During(released, clock, clock) = {}
        BY <1>1, <1>b, <3>1 DEF During, anew
      <4>2. Paid({}) = 0
        BY FS_EmptySet, PaidSum, SumEmpty
      <4> QED BY <1>2, <3>1, <4>1, <4>2 DEF PaidIn
    <3>2. CASE ~anew
      BY <1>2, <3>2 DEF CapInv
    <3> QED BY <3>1, <3>2
  <2> QED BY <1>1, <1>2, <2>1, <2>2
<1>8. ASSUME NEW t \in Int, t > windowStart' - WindowLen
      PROVE  PaidIn(released', t, windowStart' - 1) <= MaxUnlock
  <2> DEFINE last == windowStart' - 1
  <2>0. t \in Int /\ last \in Int /\ last < clock
    BY ONLY <1>a, <1>c, <1>8, LastBefore
  <2> HIDE DEF last
  <2>1. clock \notin t..last
    BY ONLY <1>a, <2>0, OutOfRange
  <2>2. PaidIn(released', t, last) = PaidIn(released, t, last) /\ PaidIn(released, t, last) \in Nat
    BY ONLY <1>e, <2>0, <2>1
  <2>3. CASE anew
    <3>1. windowStart' = clock /\ t >= windowStart
      BY <1>1, <1>2, <1>8, <2>3 DEF anew
    <3>2. \A x \in released : x.at \in t..(clock - 1) => x.at \in windowStart..clock
      BY <1>1, <1>b, <3>1
    <3>3. PaidIn(released, t, clock - 1) <= PaidIn(released, windowStart, clock)
      BY <1>1, <3>2, PaidWithin
    <3>4. PaidIn(released, windowStart, clock) = unlockedInWindow
      BY DEF CapInv
    <3>5. PaidIn(released, t, last) = PaidIn(released, t, clock - 1)
      BY <3>1 DEF last
    <3>6. PaidIn(released, t, last) <= MaxUnlock
      BY <1>1, <2>2, <3>3, <3>4, <3>5
    <3> QED BY <2>2, <3>6 DEF last
  <2>4. CASE ~anew
    BY <1>2, <1>8, <2>2, <2>4 DEF CapInv, last
  <2> QED BY <2>3, <2>4
<1>9. ASSUME NEW t \in Int
      PROVE  PaidIn(released', t, t + WindowLen - 1) <= 2 * MaxUnlock
  <2>1. t <= windowStart' - WindowLen
           => PaidIn(released', t, t + WindowLen - 1) <= 2 * MaxUnlock
    <3> SUFFICES ASSUME t <= windowStart' - WindowLen
                 PROVE  PaidIn(released', t, t + WindowLen - 1) <= 2 * MaxUnlock
      OBVIOUS
    <3> DEFINE last == t + WindowLen - 1
    <3>0. t \in Int /\ last \in Int
      BY <1>a
    <3>1. last < windowStart'
      BY <1>a, EndsBefore
    <3> HIDE DEF last
    <3>2. clock \notin t..last
      BY ONLY <1>a, <1>c, <3>0, <3>1, Later, OutOfRange
    <3>3. PaidIn(released', t, last) = PaidIn(released, t, last)
            /\ PaidIn(released, t, last) \in Nat
      BY ONLY <1>e, <3>0, <3>2
    <3>4. PaidIn(released, t, t + WindowLen - 1) <= 2 * MaxUnlock
      BY DEF CapInv
    <3> QED BY <3>3, <3>4 DEF last
  <2>2. PaidIn(released', windowStart', clock) <= MaxUnlock
    BY <1>2, <1>7
  <2>3. \A x \in released' : x.at <= clock
    BY <1>5
  <2> QED BY <1>1, <1>3, <1>4, <1>8, <2>1, <2>2, <2>3, TwoWindows
<1> QED BY <1>1, <1>2, <1>3, <1>4, <1>5, <1>7, <1>8, <1>9 DEF CapInv

\* The clock may move on: nothing is released later than it.
LEMMA TickCap ==
    ASSUME CapInv, clock' = clock + 1,
           UNCHANGED <<released, windowStart, unlockedInWindow>>
    PROVE  CapInv'
<1>1. /\ clock \in Nat /\ windowStart \in Nat /\ Releases(released)
      /\ \A x \in released : x.at \in Nat /\ x.at <= clock
  BY DEF CapInv, Releases
<1>2. During(released, windowStart, clock + 1) = During(released, windowStart, clock)
  BY <1>1 DEF During
<1>3. PaidIn(released, windowStart, clock') = unlockedInWindow
  BY <1>2 DEF CapInv, PaidIn
<1> QED BY <1>1, <1>3 DEF CapInv

LEMMA StepCap == CapInv /\ ReleaseInv /\ [VaultNext]_vaultVars => CapInv'
<1> SUFFICES ASSUME CapInv, ReleaseInv, [VaultNext]_vaultVars PROVE CapInv'
  OBVIOUS
<1>1. ASSUME UNCHANGED <<clock, released, windowStart, unlockedInWindow>> PROVE CapInv'
  BY <1>1 DEF CapInv
<1>2. ASSUME NEW b, NEW to \in Holders, NEW n \in Sums, NEW sigs, Unlock(b, to, n, sigs)
      PROVE  CapInv'
  <2> DEFINE r == [at |-> clock, burn |-> b, to |-> to, amount |-> n]
  <2>1. /\ released' = released \cup {r} /\ clock' = clock /\ Accrue(n)
        /\ b \notin unlockedBurn
    BY <1>2 DEF Unlock
  <2>2. r.at = clock /\ r.amount = n /\ r.burn = b
    OBVIOUS
  <2> HIDE DEF r
  <2>3. r \notin released
    BY <2>1, <2>2 DEF ReleaseInv
  <2> QED BY <2>1, <2>2, <2>3, UnlockCap
<1>3. CASE Tick
  BY <1>3, TickCap DEF Tick, releaseVars
<1>4. CASE TokenCall
  BY <1>1, <1>4 DEF TokenCall, DepositTo, WithdrawTo, Transfer, Approve, Lock, releaseVars
<1>5. CASE UnlockCall
  BY <1>2, <1>5 DEF UnlockCall
<1>6. CASE \/ GuardCall \/ (\E p \in BOOLEAN : SuccessorPauses(p))
           \/ (\E b \in L1Burns : BurnOnL1(b)) \/ UNCHANGED vaultVars
  BY <1>1, <1>6 DEF GuardCall, Decide, Execute, SuccessorPauses, BurnOnL1, releaseVars, vaultVars
<1> QED BY <1>3, <1>4, <1>5, <1>6 DEF VaultNext

LEMMA CapIs == CapInv => ReleaseCapped
<1> SUFFICES ASSUME CapInv PROVE ReleaseCapped
  OBVIOUS
<1>1. \A a, c : ReleasedIn(a, c) = PaidIn(released, a, c)
  BY DEF ReleasedIn, PaidIn, Paid, During
<1>2. ReleasedIn(windowStart, clock) <= MaxUnlock
  BY <1>1 DEF CapInv
<1>3. ASSUME NEW t \in 0..MaxNow
      PROVE  ReleasedIn(t, t + WindowLen - 1) <= 2 * MaxUnlock
  <2>1. t \in Int
    BY CapConstants
  <2> QED BY <1>1, <2>1 DEF CapInv
<1> QED BY <1>2, <1>3 DEF ReleaseCapped

\* USDmLockBridge.sol never releases more than its cap in a window, nor more than
\* two caps in any stretch of time as long as a window.
THEOREM ReleasesCapped == VaultSpec => []ReleaseCapped
<1>1. VaultInit => CapInv /\ ReleaseInv /\ CallInv
  BY InitCap, VaultInitInv
<1>2. CapInv /\ ReleaseInv /\ CallInv /\ [VaultNext]_vaultVars
        => (CapInv /\ ReleaseInv /\ CallInv)'
  BY StepCap, VaultStepInv
<1> QED BY <1>1, <1>2, CapIs, PTL DEF VaultSpec

-----------------------------------------------------------------------------
(* The mints on L1: what is queued and what is credited, of the locks in D, *)
(* is in G.                                                                 *)

MintTx == [lock : AllLocks, nonce : Int]
MintsTyped == treasuryNonce \in Int /\ mintPool \in Seq(MintTx)

MintsWithin(credited, pool, D, G) ==
    /\ credited \cap D \subseteq G
    /\ \A i \in DOMAIN pool : pool[i].lock \in D => pool[i].lock \in G

LEMMA MintsInitOK == MintsInit => /\ MintsTyped
                                 /\ \A D, G : MintsWithin(creditedLocks, mintPool, D, G)
  BY DEF MintsInit, MintsTyped, MintsWithin

LEMMA QueueTyped ==
    ASSUME NEW l \in AllLocks, MintsTyped, QueueCredit(l)
    PROVE  MintsTyped'
<1>1. [lock |-> l, nonce |-> treasuryNonce] \in MintTx
  BY DEF MintTx, MintsTyped
<1> QED BY <1>1 DEF MintsTyped, QueueCredit

LEMMA QueueWithin ==
    ASSUME NEW l \in AllLocks, NEW D, NEW G, l \in D => l \in G, MintsTyped,
           MintsWithin(creditedLocks, mintPool, D, G), QueueCredit(l)
    PROVE  MintsWithin(creditedLocks', mintPool', D, G)
<1> DEFINE tx == [lock |-> l, nonce |-> treasuryNonce]
<1>1. creditedLocks' = creditedLocks /\ (mintPool' = mintPool \/ mintPool' = Append(mintPool, tx))
  BY DEF QueueCredit
<1>2. tx.lock = l /\ tx \in MintTx
  BY DEF MintTx, MintsTyped
<1> HIDE DEF tx
<1>3. CASE mintPool' = Append(mintPool, tx)
  <2>1. /\ DOMAIN mintPool = 1..Len(mintPool) /\ Len(mintPool) \in Nat
        /\ DOMAIN mintPool' = 1..(Len(mintPool) + 1)
        /\ \A i \in 1..Len(mintPool) : mintPool'[i] = mintPool[i]
        /\ mintPool'[Len(mintPool) + 1] = tx
    BY <1>2, <1>3, AppendProperties, LenProperties DEF MintsTyped
  <2> QED BY <1>1, <1>2, <2>1 DEF MintsWithin
<1> QED BY <1>1, <1>3 DEF MintsWithin

LEMMA L1Typed == MintsTyped /\ L1Mints => MintsTyped'
<1> SUFFICES ASSUME MintsTyped, L1Mints PROVE MintsTyped'
  OBVIOUS
<1>1. CASE SealCredit
  <2>1. mintPool' = Tail(mintPool) /\ mintPool # <<>> /\ treasuryNonce' \in Int
    BY <1>1 DEF SealCredit, MintsTyped
  <2>2. mintPool' \in Seq(MintTx)
    BY <2>1, HeadTailProperties DEF MintsTyped
  <2> QED BY <2>1, <2>2 DEF MintsTyped
<1>2. CASE OtherCredit
  BY <1>2 DEF OtherCredit, MintsTyped
<1>3. CASE L1Restart
  BY <1>3 DEF L1Restart, MintsTyped
<1> QED BY <1>1, <1>2, <1>3 DEF L1Mints

LEMMA L1Within ==
    ASSUME NEW D, NEW G, MintsTyped, MintsWithin(creditedLocks, mintPool, D, G), L1Mints
    PROVE  MintsWithin(creditedLocks', mintPool', D, G)
<1>1. CASE SealCredit
  <2>1. /\ mintPool # <<>> /\ mintPool' = Tail(mintPool)
        /\ creditedLocks' \subseteq creditedLocks \cup {Head(mintPool).lock}
    BY <1>1 DEF SealCredit
  <2>2. /\ Len(mintPool) \in Nat /\ 1 \in DOMAIN mintPool /\ Head(mintPool) = mintPool[1]
        /\ DOMAIN mintPool = 1..Len(mintPool)
        /\ DOMAIN mintPool' = 1..(Len(mintPool) - 1)
        /\ \A i \in 1..(Len(mintPool) - 1) : mintPool'[i] = mintPool[i + 1]
    BY <2>1, HeadTailProperties, LenProperties, EmptySeq DEF MintsTyped
  <2>3. \A i \in 1..(Len(mintPool) - 1) : i + 1 \in 1..Len(mintPool)
    BY <2>2
  <2> QED BY <2>1, <2>2, <2>3 DEF MintsWithin
<1>2. CASE OtherCredit \/ L1Restart
  BY <1>2 DEF OtherCredit, L1Restart, MintsWithin
<1> QED BY <1>1, <1>2 DEF L1Mints

LEMMA MoreWithin ==
    ASSUME NEW c, NEW p, NEW D, NEW G, NEW H, G \subseteq H, MintsWithin(c, p, D, G)
    PROVE  MintsWithin(c, p, D, H)
  BY DEF MintsWithin

-----------------------------------------------------------------------------
(* USDmLockBridge.sol and the USDm half of export_relayer.py                *)

LockedUsdm == {l \in UsdmLocks : lockedAt[l] # 0}
ReleasedUsdm == {b \in UsdmBurns : releasedAt[b] # 0}

\* The locks that no replacement of blocks reaches any more.
DeepLocks == {l \in UsdmLocks : lockedAt[l] \in 1..(block - LockConfirms)}

\* What the relayer is at: it releases burns that were made, credits deep locks.
UsdmJobOK ==
    /\ usdmJob.at = "burns" => usdmJob.todo \subseteq burnedUsdm
    /\ usdmJob.at = "receipt" => usdmJob.todo \subseteq burnedUsdm
    /\ usdmJob.at = "locks" => /\ usdmJob.todo \subseteq DeepLocks
                               /\ {"at", "todo"} \subseteq DOMAIN usdmJob

(***************************************************************************)
(* The strengthening: whatever is credited, queued or about to be credited *)
(* on L1 is a lock so deep that it stays; and whatever is released, or is  *)
(* about to be, was burned on L1.  The rest is sums over these sets.       *)
(***************************************************************************)
MirrorInv ==
    /\ block \in Nat
    /\ lockedAt \in [UsdmLocks -> Nat] /\ releasedAt \in [UsdmBurns -> Nat]
    /\ IsFiniteSet(LockedUsdm) /\ IsFiniteSet(burnedUsdm)
    /\ burnedUsdm \subseteq UsdmBurns /\ ReleasedUsdm \subseteq burnedUsdm
    /\ unlockTx.burn \in burnedUsdm \cup {NoUsdmBurn}
    /\ UsdmJobOK
    /\ MintsTyped /\ MintsWithin(creditedLocks, mintPool, UsdmLocks, DeepLocks)

LEMMA UsdmConstants ==
    /\ LockAmount \in [UsdmLocks -> Nat] /\ BurnAmount \in [UsdmBurns -> Nat]
    /\ LockConfirms \in Nat \ {0} /\ UsdmLocks \subseteq AllLocks /\ NoUsdmBurn \notin UsdmBurns
  BY UsdmBridgeAssumption

LEMMA MirrorIs == MirrorInv => MirrorBacked
<1> SUFFICES ASSUME MirrorInv PROVE MirrorBacked
  OBVIOUS
<1> DEFINE C == creditedLocks \cap UsdmLocks
           O == {b \in burnedUsdm : releasedAt[b] = 0}
           L == LockedUsdm
           R == ReleasedUsdm
           B == burnedUsdm
<1>1. /\ \A l \in UsdmLocks : LockAmount[l] \in Nat
      /\ \A b \in UsdmBurns : BurnAmount[b] \in Nat
  BY UsdmConstants
<1>2. C \in SUBSET L
  BY UsdmConstants DEF MirrorInv, MintsWithin, DeepLocks, LockedUsdm
<1>3. O = B \ R /\ R \in SUBSET B /\ IsFiniteSet(B) /\ IsFiniteSet(L) /\ IsFiniteSet(C)
  BY <1>2, FS_Subset DEF MirrorInv, ReleasedUsdm
<1>4. \A l \in L : LockAmount[l] \in Nat
  BY <1>1 DEF LockedUsdm
<1>5. \A b \in B : BurnAmount[b] \in Nat
  BY <1>1 DEF MirrorInv
<1>6. /\ Mirror = SumFunctionOnSet(LockAmount, C) - SumFunctionOnSet(BurnAmount, B)
      /\ Escrow = SumFunctionOnSet(LockAmount, L) - SumFunctionOnSet(BurnAmount, R)
      /\ Owed = SumFunctionOnSet(BurnAmount, O)
  BY DEF Mirror, Escrow, Owed, Total, LockedUsdm, ReleasedUsdm
<1>7. IsFiniteSet(R) /\ IsFiniteSet(O)
  BY <1>3, FS_Subset
<1> HIDE DEF C, O, L, R, B
<1>8. SumFunctionOnSet(LockAmount, C) <= SumFunctionOnSet(LockAmount, L)
  BY <1>2, <1>3, <1>4, SumPart
<1>9. SumFunctionOnSet(BurnAmount, B)
        = SumFunctionOnSet(BurnAmount, R) + SumFunctionOnSet(BurnAmount, B \ R)
  BY <1>3, <1>5, SumSplit
<1>10. /\ SumFunctionOnSet(LockAmount, C) \in Nat /\ SumFunctionOnSet(LockAmount, L) \in Nat
       /\ SumFunctionOnSet(BurnAmount, R) \in Nat /\ SumFunctionOnSet(BurnAmount, O) \in Nat
       /\ SumFunctionOnSet(BurnAmount, B) \in Nat
  BY <1>2, <1>3, <1>4, <1>5, <1>7, SumNat
<1>11. SumFunctionOnSet(BurnAmount, B)
        = SumFunctionOnSet(BurnAmount, R) + SumFunctionOnSet(BurnAmount, O)
  BY <1>3, <1>9
<1> QED BY <1>6, <1>8, <1>10, <1>11 DEF MirrorBacked

LEMMA InitMirror == UsdmInit => MirrorInv
<1> SUFFICES ASSUME UsdmInit PROVE MirrorInv
  OBVIOUS
<1>1. /\ block = 1 /\ burnedUsdm = {} /\ unlockTx = NoTx /\ usdmJob = UsdmIdle
      /\ lockedAt = [l \in UsdmLocks |-> 0] /\ releasedAt = [b \in UsdmBurns |-> 0]
  BY DEF UsdmInit
<1>2. LockedUsdm = {} /\ ReleasedUsdm = {}
  BY <1>1 DEF LockedUsdm, ReleasedUsdm
<1>3. MintsTyped /\ MintsWithin(creditedLocks, mintPool, UsdmLocks, DeepLocks)
  BY MintsInitOK DEF UsdmInit
<1>4. UsdmJobOK
  BY <1>1 DEF UsdmJobOK, UsdmIdle
<1> QED BY <1>1, <1>2, <1>3, <1>4, FS_EmptySet DEF MirrorInv, NoTx

\* Locks only get deeper, and a replacement of blocks does not reach a deep one.
LEMMA DeepStay ==
    ASSUME MirrorInv, block' \in Nat, block <= block',
           lockedAt' \in [UsdmLocks -> Nat],
           \A l \in UsdmLocks : lockedAt[l] \in 1..(block - LockConfirms)
                                   => lockedAt'[l] = lockedAt[l]
    PROVE  DeepLocks \subseteq DeepLocks'
<1> SUFFICES ASSUME NEW l \in DeepLocks PROVE l \in DeepLocks'
  OBVIOUS
<1>1. l \in UsdmLocks /\ lockedAt[l] \in 1..(block - LockConfirms) /\ lockedAt'[l] = lockedAt[l]
  BY DEF DeepLocks
<1>2. LockConfirms \in Int /\ block \in Int /\ block' \in Int /\ lockedAt[l] \in Int
  BY <1>1, UsdmConstants DEF MirrorInv
<1>3. lockedAt[l] \in 1..(block' - LockConfirms)
  BY <1>1, <1>2
<1> QED BY <1>1, <1>3 DEF DeepLocks

\* The mints go on, for this relayer or for another.
LEMMA MintsMirror ==
    ASSUME MirrorInv, UNCHANGED <<block, lockedAt, releasedAt, unlockTx, burnedUsdm>>,
           UsdmJobOK', MintsTyped',
           MintsWithin(creditedLocks', mintPool', UsdmLocks, DeepLocks)
    PROVE  MirrorInv'
<1>1. DeepLocks' = DeepLocks /\ LockedUsdm' = LockedUsdm /\ ReleasedUsdm' = ReleasedUsdm
  BY DEF DeepLocks, LockedUsdm, ReleasedUsdm
<1> QED BY <1>1 DEF MirrorInv

LEMMA ChainsMirror == MirrorInv /\ UsdmChains => MirrorInv'
<1> SUFFICES ASSUME MirrorInv, UsdmChains PROVE MirrorInv'
  OBVIOUS
<1>1. CASE MintsGoOn
  <2>1. MintsTyped' /\ MintsWithin(creditedLocks', mintPool', UsdmLocks, DeepLocks)
    BY <1>1, L1Typed, L1Within DEF MintsGoOn, MirrorInv
  <2>2. UNCHANGED <<block, lockedAt, releasedAt, unlockTx, burnedUsdm, usdmJob>>
    BY <1>1 DEF MintsGoOn, usdmEvmVars, usdmRelayerVars
  <2>3. UsdmJobOK'
    BY <2>2 DEF MirrorInv, UsdmJobOK, DeepLocks
  <2> QED BY <2>1, <2>2, <2>3, MintsMirror
<1>2. ASSUME UNCHANGED <<usdmL1Vars, usdmRelayerVars>>, block' \in Nat, block <= block',
             lockedAt' \in [UsdmLocks -> Nat],
             \A l \in UsdmLocks : lockedAt[l] \in 1..(block - LockConfirms)
                                     => lockedAt'[l] = lockedAt[l],
             releasedAt' \in [UsdmBurns -> Nat], IsFiniteSet(LockedUsdm'),
             ReleasedUsdm' \subseteq burnedUsdm,
             unlockTx'.burn \in burnedUsdm \cup {NoUsdmBurn}
      PROVE  MirrorInv'
  <2>1. DeepLocks \subseteq DeepLocks'
    BY <1>2, DeepStay
  <2>2. UNCHANGED <<burnedUsdm, usdmJob, mintPool, creditedLocks, treasuryNonce>>
    BY <1>2 DEF usdmL1Vars, mintVars, usdmRelayerVars
  <2>3. MintsTyped' /\ MintsWithin(creditedLocks', mintPool', UsdmLocks, DeepLocks')
    BY <2>1, <2>2, MoreWithin DEF MirrorInv, MintsTyped
  <2>4. UsdmJobOK'
    BY <2>1, <2>2 DEF MirrorInv, UsdmJobOK
  <2> QED BY <1>2, <2>2, <2>3, <2>4 DEF MirrorInv
<1>3. CASE MineBlock
  <2>1. /\ UNCHANGED <<usdmL1Vars, usdmRelayerVars, lockedAt, releasedAt, unlockTx>>
        /\ block' = block + 1
    BY <1>3 DEF MineBlock
  <2>2. LockedUsdm' = LockedUsdm /\ ReleasedUsdm' = ReleasedUsdm
    BY <2>1 DEF LockedUsdm, ReleasedUsdm
  <2> QED BY <1>2, <2>1, <2>2 DEF MirrorInv
<1>4. CASE UnlockMined
  <2> DEFINE b == unlockTx.burn
  <2>1. /\ UNCHANGED <<usdmL1Vars, usdmRelayerVars, lockedAt, block>>
        /\ releasedAt' = [releasedAt EXCEPT ![b] = block] /\ unlockTx' = NoTx
        /\ b \in burnedUsdm
    BY <1>4 DEF UnlockMined, MirrorInv
  <2>2. LockedUsdm' = LockedUsdm /\ ReleasedUsdm' \subseteq ReleasedUsdm \cup {b}
    BY <2>1 DEF LockedUsdm, ReleasedUsdm, MirrorInv
  <2> HIDE DEF b
  <2>3. releasedAt' \in [UsdmBurns -> Nat] /\ unlockTx'.burn = NoUsdmBurn
    BY <2>1 DEF MirrorInv, NoTx
  <2> QED BY <1>2, <2>1, <2>2, <2>3 DEF MirrorInv
<1>5. CASE UnlockReverts
  <2>1. UNCHANGED <<usdmL1Vars, usdmRelayerVars, lockedAt, block, releasedAt>> /\ unlockTx' = NoTx
    BY <1>5 DEF UnlockReverts
  <2>2. LockedUsdm' = LockedUsdm /\ ReleasedUsdm' = ReleasedUsdm /\ unlockTx'.burn = NoUsdmBurn
    BY <2>1 DEF LockedUsdm, ReleasedUsdm, NoTx
  <2> QED BY <1>2, <2>1, <2>2 DEF MirrorInv
<1>6. ASSUME NEW b \in UsdmBurns, BurnUsdm(b)
      PROVE  MirrorInv'
  <2>1. /\ UNCHANGED <<mintVars, usdmEvmVars, usdmRelayerVars>>
        /\ burnedUsdm' = burnedUsdm \cup {b}
    BY <1>6 DEF BurnUsdm
  <2>2. UNCHANGED <<block, lockedAt, releasedAt, unlockTx, usdmJob, mintPool, creditedLocks,
                    treasuryNonce>>
    BY <2>1 DEF mintVars, usdmEvmVars, usdmRelayerVars
  <2>3. DeepLocks' = DeepLocks /\ LockedUsdm' = LockedUsdm /\ ReleasedUsdm' = ReleasedUsdm
    BY <2>2 DEF DeepLocks, LockedUsdm, ReleasedUsdm
  <2>4. UsdmJobOK'
    BY <2>1, <2>2, <2>3 DEF MirrorInv, UsdmJobOK
  <2>5. IsFiniteSet(burnedUsdm')
    BY <2>1, FS_AddElement DEF MirrorInv
  <2> QED BY <2>1, <2>2, <2>3, <2>4, <2>5 DEF MirrorInv, MintsTyped
<1>7. ASSUME NEW l \in UsdmLocks, LockUsdm(l)
      PROVE  MirrorInv'
  <2>1. /\ UNCHANGED <<usdmL1Vars, usdmRelayerVars, block, releasedAt, unlockTx>>
        /\ lockedAt' = [lockedAt EXCEPT ![l] = block] /\ lockedAt[l] = 0
    BY <1>7 DEF LockUsdm
  <2>2. lockedAt' \in [UsdmLocks -> Nat] /\ ReleasedUsdm' = ReleasedUsdm
    BY <2>1 DEF MirrorInv, ReleasedUsdm
  <2>3. \A k \in UsdmLocks : lockedAt[k] \in 1..(block - LockConfirms)
                               => lockedAt'[k] = lockedAt[k]
    BY <2>1 DEF MirrorInv
  <2>4. LockedUsdm' \subseteq LockedUsdm \cup {l}
    BY <2>1 DEF LockedUsdm, MirrorInv
  <2>5. IsFiniteSet(LockedUsdm')
    BY <2>4, FS_AddElement, FS_Subset DEF MirrorInv
  <2> QED BY <1>2, <2>1, <2>2, <2>3, <2>5 DEF MirrorInv
<1>8. ASSUME NEW d \in 1..LockConfirms, ReplaceBlocks(d)
      PROVE  MirrorInv'
  <2>1. /\ UNCHANGED <<usdmL1Vars, usdmRelayerVars, block, unlockTx>>
        /\ lockedAt' = [x \in UsdmLocks |-> IF lockedAt[x] > block - d THEN 0 ELSE lockedAt[x]]
        /\ releasedAt' = [x \in UsdmBurns |->
                            IF releasedAt[x] > block - d THEN 0 ELSE releasedAt[x]]
    BY <1>8 DEF ReplaceBlocks, MirrorInv
  <2>2. lockedAt' \in [UsdmLocks -> Nat] /\ releasedAt' \in [UsdmBurns -> Nat]
    BY <2>1 DEF MirrorInv
  <2>3. LockedUsdm' \subseteq LockedUsdm /\ ReleasedUsdm' \subseteq ReleasedUsdm
    BY <2>1 DEF LockedUsdm, ReleasedUsdm
  <2>4. \A k \in UsdmLocks : lockedAt[k] \in 1..(block - LockConfirms)
                               => lockedAt'[k] = lockedAt[k]
    <3> TAKE k \in UsdmLocks
    <3>1. /\ lockedAt[k] \in Nat /\ LockConfirms \in Nat /\ d \in Nat /\ d <= LockConfirms
          /\ block \in Nat
      BY UsdmConstants DEF MirrorInv
    <3>2. lockedAt[k] \in 1..(block - LockConfirms) => ~ lockedAt[k] > block - d
      BY <3>1
    <3> QED BY <2>1, <3>2
  <2>5. IsFiniteSet(LockedUsdm')
    BY <2>3, FS_Subset DEF MirrorInv
  <2> QED BY <1>2, <2>1, <2>2, <2>3, <2>4, <2>5 DEF MirrorInv
<1> QED BY <1>1, <1>3, <1>4, <1>5, <1>6, <1>7, <1>8 DEF UsdmChains

LEMMA RelayerMirror ==
    MirrorInv /\ (UsdmRelayer \/ UsdmCallFails \/ UsdmCrash \/ UNCHANGED usdmVars) => MirrorInv'
<1> SUFFICES ASSUME MirrorInv, UsdmRelayer \/ UsdmCallFails \/ UsdmCrash \/ UNCHANGED usdmVars
             PROVE  MirrorInv'
  OBVIOUS
<1>1. ASSUME UNCHANGED <<mintVars, burnedUsdm, usdmEvmVars>>, UsdmJobOK' PROVE MirrorInv'
  <2>1. /\ UNCHANGED <<block, lockedAt, releasedAt, unlockTx, burnedUsdm>>
        /\ UNCHANGED <<mintPool, creditedLocks, treasuryNonce>>
    BY <1>1 DEF mintVars, usdmEvmVars
  <2>2. MintsTyped' /\ MintsWithin(creditedLocks', mintPool', UsdmLocks, DeepLocks)
    BY <2>1 DEF MirrorInv, MintsTyped
  <2> QED BY <1>1, <2>1, <2>2, MintsMirror
<1>2. ASSUME UNCHANGED <<burnedUsdm, block, lockedAt>>, usdmJob' = UsdmIdle \/ UNCHANGED usdmJob
      PROVE  UsdmJobOK'
  BY <1>2 DEF MirrorInv, UsdmJobOK, UsdmIdle, DeepLocks
<1>3. ASSUME UNCHANGED burnedUsdm, NEW T \in SUBSET burnedUsdm, usdmJob' = [at |-> "burns", todo |-> T]
      PROVE  UsdmJobOK'
  BY <1>3 DEF UsdmJobOK
<1>4. CASE PollUsdmBurns
  BY <1>1, <1>3, <1>4 DEF PollUsdmBurns, PendingUsdmBurns, usdmL1Vars
<1>5. ASSUME NEW b \in UsdmBurns, AlreadyReleased(b) PROVE MirrorInv'
  BY <1>1, <1>3, <1>5 DEF AlreadyReleased, MirrorInv, UsdmJobOK
<1>6. ASSUME NEW b \in UsdmBurns, UnlockRefused(b) PROVE MirrorInv'
  BY <1>1, <1>3, <1>6 DEF UnlockRefused, MirrorInv, UsdmJobOK, usdmL1Vars
<1>7. CASE UnlockReceipt \/ NoUnlockReceipt
  BY <1>1, <1>3, <1>7 DEF UnlockReceipt, NoUnlockReceipt, MirrorInv, UsdmJobOK, usdmL1Vars
<1>8. CASE AdvanceUsdmCursor \/ UsdmPollFails \/ UsdmCrash \/ UNCHANGED usdmVars
  <2>1. UNCHANGED <<mintVars, burnedUsdm, usdmEvmVars>> /\ (usdmJob' = UsdmIdle \/ UNCHANGED usdmJob)
    BY <1>8 DEF AdvanceUsdmCursor, UsdmPollFails, UsdmCrash, usdmVars, usdmL1Vars, usdmRelayerVars
  <2> QED BY <1>1, <1>2, <2>1 DEF usdmEvmVars
<1>9. ASSUME NEW b \in UsdmBurns, SendUnlock(b) PROVE MirrorInv'
  <2>1. /\ UNCHANGED <<usdmL1Vars, block, lockedAt, releasedAt>>
        /\ b \in burnedUsdm /\ usdmJob.todo \ {b} \subseteq burnedUsdm
        /\ unlockTx' = [burn |-> b, sigs |-> OrderedSigs]
        /\ usdmJob' = [at |-> "receipt", todo |-> usdmJob.todo \ {b}, burn |-> b]
    BY <1>9 DEF SendUnlock, MirrorInv, UsdmJobOK
  <2>2. UsdmJobOK' /\ unlockTx'.burn \in burnedUsdm
    BY <2>1 DEF UsdmJobOK, usdmL1Vars
  <2>3. UNCHANGED <<mintPool, creditedLocks, treasuryNonce, burnedUsdm>>
    BY <2>1 DEF usdmL1Vars, mintVars
  <2>4. DeepLocks' = DeepLocks /\ LockedUsdm' = LockedUsdm /\ ReleasedUsdm' = ReleasedUsdm
    BY <2>1 DEF DeepLocks, LockedUsdm, ReleasedUsdm
  <2> QED BY <2>1, <2>2, <2>3, <2>4 DEF MirrorInv, MintsTyped
<1>10. CASE ScanLocks
  <2> DEFINE safe == block - LockConfirms
             T == LocksIn(usdmCursor, safe) \ handledLocks
  <2>1. /\ UNCHANGED <<mintVars, burnedUsdm, usdmEvmVars>>
        /\ usdmJob' = UsdmIdle \/ usdmJob' = [at |-> "locks", todo |-> T, safe |-> safe]
    BY <1>10 DEF ScanLocks, usdmL1Vars
  <2>2. T \subseteq DeepLocks
    BY UsdmConstants DEF LocksIn, DeepLocks, MirrorInv
  <2>3. DeepLocks' = DeepLocks
    BY <2>1 DEF DeepLocks, usdmEvmVars
  <2> HIDE DEF T, safe
  <2>4. CASE usdmJob' = [at |-> "locks", todo |-> T, safe |-> safe]
    BY <1>1, <2>1, <2>2, <2>3, <2>4 DEF UsdmJobOK
  <2>5. CASE usdmJob' = UsdmIdle
    BY <1>1, <1>2, <2>1, <2>5 DEF usdmEvmVars
  <2> QED BY <2>1, <2>4, <2>5
<1>11. ASSUME NEW l \in UsdmLocks, CreditLock(l) \/ CreditLockFails(l) PROVE MirrorInv'
  <2>1. /\ UNCHANGED <<burnedUsdm, usdmEvmVars>>
        /\ QueueCredit(l) \/ UNCHANGED mintVars
        /\ usdmJob.at = "locks" /\ l \in usdmJob.todo
        /\ usdmJob' = [usdmJob EXCEPT !.todo = @ \ {l}]
    BY <1>11 DEF CreditLock, CreditLockFails
  <2>2. l \in DeepLocks /\ l \in AllLocks
    BY <2>1, UsdmConstants DEF MirrorInv, UsdmJobOK
  <2>3. MintsTyped' /\ MintsWithin(creditedLocks', mintPool', UsdmLocks, DeepLocks)
    <3>1. CASE QueueCredit(l)
      BY <2>2, <3>1, QueueTyped, QueueWithin DEF MirrorInv
    <3>2. CASE UNCHANGED mintVars
      BY <3>2 DEF MirrorInv, MintsTyped, mintVars
    <3> QED BY <2>1, <3>1, <3>2
  <2>4. UsdmJobOK'
    <3>1. usdmJob'.at = "locks" /\ usdmJob'.todo = usdmJob.todo \ {l} /\ DOMAIN usdmJob' = DOMAIN usdmJob
      BY <2>1 DEF MirrorInv, UsdmJobOK
    <3>2. DeepLocks' = DeepLocks
      BY <2>1 DEF DeepLocks, usdmEvmVars
    <3> QED BY <2>1, <3>1, <3>2 DEF MirrorInv, UsdmJobOK
  <2> QED BY <2>1, <2>3, <2>4, MintsMirror DEF usdmEvmVars
<1> QED
  BY <1>4, <1>5, <1>6, <1>7, <1>8, <1>9, <1>10, <1>11 DEF UsdmRelayer, UsdmCallFails

\* The escrow covers the mirror on L1 and the burns not yet released, through
\* crashes, lost answers, late releases and replaced blocks.
THEOREM MirrorAlwaysBacked == UsdmSpec => []MirrorBacked
<1>1. MirrorInv /\ [UsdmNext]_usdmVars => MirrorInv'
  BY ChainsMirror, RelayerMirror DEF UsdmNext
<1> QED BY <1>1, InitMirror, MirrorIs, PTL DEF UsdmSpec

-----------------------------------------------------------------------------
(* MORMBridgeERC20.sol and relayer.py                                       *)

FirstLocked == {l \in DOMAIN FirstLocks : lockBlock[l] # 0}
UsdcOf(table, S) == AmountOf(table, OfUsdc(table, S))
Priced(table) == \A x \in DOMAIN table : table[x].amount \in Nat

LEMMA FirstConstants ==
    /\ Priced(FirstLocks) /\ Priced(FirstBurns) /\ DOMAIN FirstLocks \subseteq AllLocks
    /\ \A l \in DOMAIN FirstLocks : FirstLocks[l].token \in {"MORM", "USDC"}
    /\ \A b \in DOMAIN FirstBurns : FirstBurns[b].token \in {"MORM", "USDC"}
<1>1. /\ FirstLocks \in [DOMAIN FirstLocks -> [token : {"MORM", "USDC"}, amount : Nat \ {0}]]
      /\ FirstBurns \in [DOMAIN FirstBurns -> [token : {"MORM", "USDC"}, amount : Nat \ {0}]]
      /\ DOMAIN FirstLocks \subseteq AllLocks
  BY FirstBridgeAssumption
<1> QED BY <1>1 DEF Priced

LEMMA AmountSum ==
    ASSUME NEW table, NEW S, IsFiniteSet(S)
    PROVE  AmountOf(table, S) = SumFunctionOnSet([x \in S |-> table[x].amount], S)
<1> DEFINE f == [x \in S |-> table[x].amount]
           Adder(g) == g = [s \in SUBSET S |->
                IF s = {} THEN 0 ELSE table[Picked(s)].amount + g[s \ {Picked(s)}]]
<1>1. AmountOf(table, S) = (CHOOSE g : Adder(g))[S]
  BY DEF AmountOf, MapThenSumSet, MapThenFoldSet, Picked
<1>2. \A s \in SUBSET S : s # {} => f[Picked(s)] = table[Picked(s)].amount
  BY PickedIn
<1>3. \A g : Adder(g) <=> Adds(g, f, Subsets(S))
  <2> HIDE DEF f
  <2> QED BY <1>2 DEF Adds, Subsets
<1>4. \E g : Adds(g, f, Subsets(S))
  BY SumAdds
<1> HIDE DEF f, Adder
<1>5. PICK g : Adder(g) /\ g = (CHOOSE h : Adder(h))
  BY <1>3, <1>4
<1>6. g[S] = SumFunctionOnSet(f, S)
  BY <1>3, <1>5, AddsIsSum
<1> QED BY <1>1, <1>5, <1>6 DEF f

LEMMA AmountOfPart ==
    ASSUME NEW table, NEW S, IsFiniteSet(S), NEW T \in SUBSET S
    PROVE  AmountOf(table, T) = SumFunctionOnSet([x \in S |-> table[x].amount], T)
<1> DEFINE f == [x \in S |-> table[x].amount]
           g == [x \in T |-> table[x].amount]
<1>1. IsFiniteSet(T) /\ \A x \in T : g[x] = f[x]
  BY FS_Subset
<1>2. AmountOf(table, T) = SumFunctionOnSet(g, T)
  BY <1>1, AmountSum
<1> HIDE DEF f, g
<1>3. SumFunctionOnSet(g, T) = SumFunctionOnSet(f, T)
  BY <1>1, SumEqual
<1> QED BY <1>2, <1>3 DEF f

\* What a set of locks or burns carries of USDC: a part of it, and the rest.
LEMMA UsdcSplit ==
    ASSUME NEW table, Priced(table), NEW S \in SUBSET DOMAIN table, IsFiniteSet(S),
           NEW T \in SUBSET S
    PROVE  /\ UsdcOf(table, S) = UsdcOf(table, T) + UsdcOf(table, S \ T)
           /\ UsdcOf(table, S) \in Nat /\ UsdcOf(table, T) \in Nat
           /\ UsdcOf(table, S \ T) \in Nat
<1> DEFINE U == OfUsdc(table, S)
           V == OfUsdc(table, T)
           R == OfUsdc(table, S \ T)
           f == [x \in U |-> table[x].amount]
<1>1. /\ IsFiniteSet(U) /\ IsFiniteSet(V) /\ IsFiniteSet(R) /\ R = U \ V
      /\ V \in SUBSET U /\ R \in SUBSET U /\ U \in SUBSET U
  BY FS_Subset DEF OfUsdc
<1>2. /\ \A x \in U : f[x] \in Nat
      /\ \A x \in V : f[x] \in Nat
      /\ \A x \in R : f[x] \in Nat
  BY DEF OfUsdc, Priced
<1>3. /\ UsdcOf(table, S) = AmountOf(table, U) /\ UsdcOf(table, T) = AmountOf(table, V)
      /\ UsdcOf(table, S \ T) = AmountOf(table, R)
  BY DEF UsdcOf
<1> HIDE DEF U, V, R
<1>4. /\ AmountOf(table, U) = SumFunctionOnSet(f, U)
      /\ AmountOf(table, V) = SumFunctionOnSet(f, V)
      /\ AmountOf(table, R) = SumFunctionOnSet(f, R)
  BY <1>1, AmountOfPart
<1> HIDE DEF f
<1>5. SumFunctionOnSet(f, U) = SumFunctionOnSet(f, V) + SumFunctionOnSet(f, R)
  BY <1>1, <1>2, SumSplit
<1>6. /\ SumFunctionOnSet(f, U) \in Nat /\ SumFunctionOnSet(f, V) \in Nat
      /\ SumFunctionOnSet(f, R) \in Nat
  BY <1>1, <1>2, SumNat
<1> QED BY <1>3, <1>4, <1>5, <1>6

\* One of them alone.
LEMMA UsdcOne ==
    ASSUME NEW table, Priced(table), NEW x \in DOMAIN table
    PROVE  UsdcOf(table, {x}) = IF table[x].token = "USDC" THEN table[x].amount ELSE 0
<1> DEFINE X == {x}
           f == [y \in X |-> table[y].amount]
<1>1. CASE table[x].token = "USDC"
  <2>1. OfUsdc(table, X) = X /\ IsFiniteSet(X) /\ X = {} \cup {x} /\ IsFiniteSet({})
    BY <1>1, FS_Singleton, FS_EmptySet DEF OfUsdc
  <2>2. AmountOf(table, X) = SumFunctionOnSet(f, X)
    BY <2>1, AmountSum
  <2>3. f[x] = table[x].amount /\ f[x] \in Int
    BY DEF Priced
  <2> HIDE DEF f, X
  <2>4. SumFunctionOnSet(f, {} \cup {x}) = f[x] + SumFunctionOnSet(f, {})
    BY <2>1, <2>3, SumAdd
  <2>5. SumFunctionOnSet(f, X) = f[x] + SumFunctionOnSet(f, {})
    BY ONLY <2>1, <2>4, Zenon
  <2>6. SumFunctionOnSet(f, X) = f[x]
    BY <2>3, <2>5, SumEmpty
  <2> QED BY <1>1, <2>1, <2>2, <2>3, <2>6 DEF UsdcOf, X
<1>2. CASE table[x].token # "USDC"
  <2>1. OfUsdc(table, {x}) = {}
    BY <1>2 DEF OfUsdc
  <2>2. AmountOf(table, {}) = SumFunctionOnSet([y \in {} |-> table[y].amount], {})
    BY FS_EmptySet, AmountSum
  <2> QED BY <1>2, <2>1, <2>2, SumEmpty DEF UsdcOf
<1> QED BY <1>1, <1>2

LEMMA UsdcAdd ==
    ASSUME NEW table, Priced(table), NEW S \in SUBSET DOMAIN table, IsFiniteSet(S),
           NEW x \in DOMAIN table, x \notin S
    PROVE  /\ UsdcOf(table, S \cup {x})
                = UsdcOf(table, S) + (IF table[x].token = "USDC" THEN table[x].amount ELSE 0)
           /\ UsdcOf(table, S) \in Nat /\ IsFiniteSet(S \cup {x})
<1> DEFINE T == S \cup {x}
           X == T \ S
<1>1. T \in SUBSET DOMAIN table /\ IsFiniteSet(T) /\ S \in SUBSET T /\ X = {x}
  BY FS_AddElement
<1> HIDE DEF T
<1>2. UsdcOf(table, T) = UsdcOf(table, S) + UsdcOf(table, X) /\ UsdcOf(table, S) \in Nat
  BY <1>1, UsdcSplit
<1>3. UsdcOf(table, X) = IF table[x].token = "USDC" THEN table[x].amount ELSE 0
  BY <1>1, UsdcOne
<1> QED BY <1>1, <1>2, <1>3 DEF T

\* What the relayer is at: it credits locks that were made, pays burns that were.
FirstJobOK ==
    /\ firstJob.at = "locks" => /\ firstJob.todo \subseteq FirstLocked
                                /\ {"at", "todo"} \subseteq DOMAIN firstJob
    /\ firstJob.at \in {"burns", "confirm"} => /\ firstJob.todo \subseteq firstBurned
                                               /\ {"at", "todo"} \subseteq DOMAIN firstJob

(***************************************************************************)
(* The strengthening: the bridge has the USDC of the locks that were made  *)
(* less that of the burns that were paid; what is credited, queued or      *)
(* about to be is a lock that was made; what was paid or is about to be    *)
(* was burned.                                                             *)
(***************************************************************************)
UsdcInv ==
    /\ anvilHead \in Nat
    /\ bridgeHas \in [{"MORM", "USDC"} -> Int]
    /\ lockBlock \in [DOMAIN FirstLocks -> Nat]
    /\ IsFiniteSet(FirstLocked) /\ IsFiniteSet(firstBurned)
    /\ firstBurned \subseteq DOMAIN FirstBurns /\ paidBurns \subseteq firstBurned
    /\ bridgeHas["USDC"] = UsdcOf(FirstLocks, FirstLocked) - UsdcOf(FirstBurns, paidBurns)
    /\ FirstJobOK
    /\ MintsTyped /\ MintsWithin(creditedLocks, mintPool, DOMAIN FirstLocks, FirstLocked)

LEMMA UsdcIs == UsdcInv => UsdcBacked
<1> SUFFICES ASSUME UsdcInv PROVE UsdcBacked
  OBVIOUS
<1> DEFINE C == creditedLocks \cap DOMAIN FirstLocks
           L == FirstLocked
           P == paidBurns
           B == firstBurned
<1>1. /\ C \in SUBSET L /\ L \in SUBSET DOMAIN FirstLocks /\ P \in SUBSET B
      /\ B \in SUBSET DOMAIN FirstBurns /\ IsFiniteSet(L) /\ IsFiniteSet(B)
  BY DEF UsdcInv, MintsWithin, FirstLocked
<1>2. /\ UsdcMirror = UsdcOf(FirstLocks, C) - UsdcOf(FirstBurns, B)
      /\ UsdcOwed = UsdcOf(FirstBurns, B \ P)
  BY DEF UsdcMirror, UsdcOwed, UsdcOf
<1>3. bridgeHas["USDC"] = UsdcOf(FirstLocks, L) - UsdcOf(FirstBurns, P)
  BY DEF UsdcInv
<1> HIDE DEF C, L, P, B
<1>4. /\ UsdcOf(FirstLocks, L) = UsdcOf(FirstLocks, C) + UsdcOf(FirstLocks, L \ C)
      /\ UsdcOf(FirstLocks, L) \in Nat /\ UsdcOf(FirstLocks, C) \in Nat
      /\ UsdcOf(FirstLocks, L \ C) \in Nat
  BY <1>1, FirstConstants, UsdcSplit
<1>5. /\ UsdcOf(FirstBurns, B) = UsdcOf(FirstBurns, P) + UsdcOf(FirstBurns, B \ P)
      /\ UsdcOf(FirstBurns, B) \in Nat /\ UsdcOf(FirstBurns, P) \in Nat
      /\ UsdcOf(FirstBurns, B \ P) \in Nat
  BY <1>1, FirstConstants, UsdcSplit
<1> QED BY <1>2, <1>3, <1>4, <1>5 DEF UsdcBacked

LEMMA InitUsdc == FirstInit => UsdcInv
<1> SUFFICES ASSUME FirstInit PROVE UsdcInv
  OBVIOUS
<1>1. /\ bridgeHas = [t \in {"MORM", "USDC"} |-> 0] /\ anvilHead = 1
      /\ lockBlock = [l \in DOMAIN FirstLocks |-> 0]
      /\ paidBurns = {} /\ firstBurned = {} /\ firstJob = FirstIdle
  BY DEF FirstInit
<1>2. FirstLocked = {}
  BY <1>1 DEF FirstLocked
<1>3. MintsTyped /\ MintsWithin(creditedLocks, mintPool, DOMAIN FirstLocks, FirstLocked)
  BY MintsInitOK DEF FirstInit
<1>4. FirstJobOK
  BY <1>1 DEF FirstJobOK, FirstIdle
<1>5. \A table : UsdcOf(table, {}) = 0
  <2> TAKE table
  <2>1. OfUsdc(table, {}) = {}
    BY DEF OfUsdc
  <2>2. AmountOf(table, {}) = SumFunctionOnSet([y \in {} |-> table[y].amount], {})
    BY FS_EmptySet, AmountSum
  <2> QED BY <2>1, <2>2, SumEmpty DEF UsdcOf
<1> QED BY <1>1, <1>2, <1>3, <1>4, <1>5, FS_EmptySet DEF UsdcInv

\* The mints go on, for this relayer or for another.
LEMMA MintsUsdc ==
    ASSUME UsdcInv, UNCHANGED <<relayEvmVars, firstBurned>>,
           FirstJobOK', MintsTyped',
           MintsWithin(creditedLocks', mintPool', DOMAIN FirstLocks, FirstLocked)
    PROVE  UsdcInv'
<1>1. UNCHANGED <<bridgeHas, lockBlock, paidBurns, anvilHead, firstBurned>>
  BY DEF relayEvmVars
<1>2. FirstLocked' = FirstLocked
  BY <1>1 DEF FirstLocked
<1> QED BY <1>1, <1>2 DEF UsdcInv

LEMMA LockedUsdc ==
    ASSUME UsdcInv, NEW l \in DOMAIN FirstLocks, Locked(l),
           UNCHANGED <<firstBurned, mintVars, relayerMemory>>
    PROVE  UsdcInv'
<1>1. /\ lockBlock[l] = 0 /\ lockBlock' = [lockBlock EXCEPT ![l] = anvilHead + 1]
      /\ anvilHead' = anvilHead + 1 /\ paidBurns' = paidBurns
      /\ bridgeHas' = [bridgeHas EXCEPT ![FirstLocks[l].token] = @ + FirstLocks[l].amount]
      /\ UNCHANGED <<mintPool, creditedLocks, treasuryNonce, firstJob>>
  BY DEF Locked, mintVars, relayerMemory
<1>2. /\ anvilHead' \in Nat /\ lockBlock' \in [DOMAIN FirstLocks -> Nat]
      /\ FirstLocked' = FirstLocked \cup {l} /\ l \notin FirstLocked
  BY <1>1 DEF UsdcInv, FirstLocked
<1>3. FirstLocks[l].token \in {"MORM", "USDC"} /\ FirstLocks[l].amount \in Nat
  BY FirstConstants DEF Priced
<1>4. bridgeHas' \in [{"MORM", "USDC"} -> Int]
  BY <1>1, <1>3 DEF UsdcInv
<1>5. bridgeHas'["USDC"] = bridgeHas["USDC"]
         + (IF FirstLocks[l].token = "USDC" THEN FirstLocks[l].amount ELSE 0)
  BY <1>1, <1>3 DEF UsdcInv
<1> DEFINE L == FirstLocked
<1>6. L \in SUBSET DOMAIN FirstLocks /\ IsFiniteSet(L) /\ l \notin L
  BY <1>2 DEF UsdcInv, FirstLocked
<1> HIDE DEF L
<1>7. /\ UsdcOf(FirstLocks, L \cup {l})
           = UsdcOf(FirstLocks, L)
               + (IF FirstLocks[l].token = "USDC" THEN FirstLocks[l].amount ELSE 0)
      /\ UsdcOf(FirstLocks, L) \in Nat /\ IsFiniteSet(L \cup {l})
  BY <1>6, FirstConstants, UsdcAdd
<1>8. UsdcOf(FirstBurns, paidBurns) \in Nat
  <2>1. /\ firstBurned \in SUBSET DOMAIN FirstBurns /\ IsFiniteSet(firstBurned)
        /\ paidBurns \in SUBSET firstBurned
    BY DEF UsdcInv
  <2> QED BY <2>1, FirstConstants, UsdcSplit
<1>9. bridgeHas'["USDC"] = UsdcOf(FirstLocks, FirstLocked') - UsdcOf(FirstBurns, paidBurns')
  <2>1. UsdcOf(FirstLocks, FirstLocked') = UsdcOf(FirstLocks, L \cup {l})
    BY <1>2 DEF L
  <2>2. bridgeHas["USDC"] = UsdcOf(FirstLocks, L) - UsdcOf(FirstBurns, paidBurns)
    BY DEF UsdcInv, L
  <2> DEFINE n == IF FirstLocks[l].token = "USDC" THEN FirstLocks[l].amount ELSE 0
  <2>3. n \in Int /\ bridgeHas'["USDC"] = bridgeHas["USDC"] + n
          /\ UsdcOf(FirstLocks, L \cup {l}) = UsdcOf(FirstLocks, L) + n
    BY <1>3, <1>5, <1>7
  <2> HIDE DEF n
  <2> QED BY <1>1, <1>7, <1>8, <2>1, <2>2, <2>3
<1>10. IsFiniteSet(FirstLocked')
  BY <1>2, <1>7 DEF L
<1>11. MintsTyped' /\ MintsWithin(creditedLocks', mintPool', DOMAIN FirstLocks, FirstLocked')
  BY <1>1, <1>2, MoreWithin DEF UsdcInv, MintsTyped
<1>12. FirstJobOK'
  BY <1>1, <1>2 DEF UsdcInv, FirstJobOK
<1> QED BY <1>1, <1>2, <1>4, <1>9, <1>10, <1>11, <1>12 DEF UsdcInv

LEMMA PaidUsdc ==
    ASSUME UsdcInv, NEW b \in firstBurned, b \notin paidBurns, Pay(b),
           UNCHANGED <<firstBurned, mintVars>>, FirstJobOK'
    PROVE  UsdcInv'
<1>1. /\ lockBlock' = lockBlock /\ anvilHead' = anvilHead + 1 /\ paidBurns' = paidBurns \cup {b}
      /\ bridgeHas' = [bridgeHas EXCEPT ![FirstBurns[b].token] = @ - FirstBurns[b].amount]
      /\ UNCHANGED <<mintPool, creditedLocks, treasuryNonce>>
  BY DEF Pay, mintVars
<1>2. FirstLocked' = FirstLocked /\ b \in DOMAIN FirstBurns
  BY <1>1 DEF UsdcInv, FirstLocked
<1>3. FirstBurns[b].token \in {"MORM", "USDC"} /\ FirstBurns[b].amount \in Nat
  BY <1>2, FirstConstants DEF Priced
<1>4. bridgeHas' \in [{"MORM", "USDC"} -> Int]
  BY <1>1, <1>3 DEF UsdcInv
<1>5. bridgeHas'["USDC"] = bridgeHas["USDC"]
         - (IF FirstBurns[b].token = "USDC" THEN FirstBurns[b].amount ELSE 0)
  BY <1>1, <1>3 DEF UsdcInv
<1> DEFINE P == paidBurns
<1>6. P \in SUBSET DOMAIN FirstBurns /\ IsFiniteSet(P) /\ b \notin P
  BY FS_Subset DEF UsdcInv
<1> HIDE DEF P
<1>7. /\ UsdcOf(FirstBurns, P \cup {b})
           = UsdcOf(FirstBurns, P)
               + (IF FirstBurns[b].token = "USDC" THEN FirstBurns[b].amount ELSE 0)
      /\ UsdcOf(FirstBurns, P) \in Nat
  BY <1>2, <1>6, FirstConstants, UsdcAdd
<1>8. UsdcOf(FirstLocks, FirstLocked) \in Nat
  <2>1. FirstLocked \in SUBSET DOMAIN FirstLocks /\ IsFiniteSet(FirstLocked)
    BY DEF UsdcInv, FirstLocked
  <2> DEFINE L == FirstLocked
  <2>2. L \in SUBSET DOMAIN FirstLocks /\ IsFiniteSet(L) /\ L \in SUBSET L
    BY <2>1
  <2> HIDE DEF L
  <2>3. UsdcOf(FirstLocks, L) \in Nat
    BY <2>2, FirstConstants, UsdcSplit
  <2> QED BY <2>3 DEF L
<1>9. bridgeHas'["USDC"] = UsdcOf(FirstLocks, FirstLocked') - UsdcOf(FirstBurns, paidBurns')
  <2>1. UsdcOf(FirstBurns, paidBurns') = UsdcOf(FirstBurns, P \cup {b})
    BY <1>1 DEF P
  <2>2. bridgeHas["USDC"] = UsdcOf(FirstLocks, FirstLocked) - UsdcOf(FirstBurns, P)
    BY DEF UsdcInv, P
  <2> DEFINE n == IF FirstBurns[b].token = "USDC" THEN FirstBurns[b].amount ELSE 0
  <2>3. n \in Int /\ bridgeHas'["USDC"] = bridgeHas["USDC"] - n
          /\ UsdcOf(FirstBurns, P \cup {b}) = UsdcOf(FirstBurns, P) + n
    BY <1>3, <1>5, <1>7
  <2> HIDE DEF n
  <2> QED BY <1>2, <1>7, <1>8, <2>1, <2>2, <2>3
<1>10. MintsTyped' /\ MintsWithin(creditedLocks', mintPool', DOMAIN FirstLocks, FirstLocked')
  BY <1>1, <1>2 DEF UsdcInv, MintsTyped
<1> QED BY <1>1, <1>2, <1>4, <1>9, <1>10 DEF UsdcInv

LEMMA RelayUsdc == UsdcInv /\ RelayNext => UsdcInv'
<1> SUFFICES ASSUME UsdcInv, RelayNext PROVE UsdcInv'
  OBVIOUS
<1>1. ASSUME UNCHANGED <<mintVars, relayEvmVars, firstBurned>>, FirstJobOK' PROVE UsdcInv'
  <2>1. UNCHANGED <<mintPool, creditedLocks, treasuryNonce>>
    BY <1>1 DEF mintVars
  <2>2. MintsTyped' /\ MintsWithin(creditedLocks', mintPool', DOMAIN FirstLocks, FirstLocked)
    BY <2>1 DEF UsdcInv, MintsTyped
  <2> QED BY <1>1, <2>2, MintsUsdc
<1>2. ASSUME firstJob'.at \in {"idle", "polled"} PROVE FirstJobOK'
  BY <1>2 DEF FirstJobOK
<1>3. ASSUME firstJob'.at \in {"burns", "confirm"}, firstJob'.todo \subseteq firstBurned',
             {"at", "todo"} \subseteq DOMAIN firstJob'
      PROVE  FirstJobOK'
  BY <1>3 DEF FirstJobOK
<1>4. CASE FirstMintsGoOn
  <2>1. MintsTyped' /\ MintsWithin(creditedLocks', mintPool', DOMAIN FirstLocks, FirstLocked)
    BY <1>4, L1Typed, L1Within DEF FirstMintsGoOn, UsdcInv
  <2>2. UNCHANGED <<relayEvmVars, firstBurned>> /\ firstJob' = firstJob
    BY <1>4 DEF FirstMintsGoOn, relayerMemory
  <2>3. FirstJobOK'
    BY <2>2 DEF UsdcInv, FirstJobOK, FirstLocked, relayEvmVars
  <2> QED BY <2>1, <2>2, <2>3, MintsUsdc
<1>5. CASE PollFirstLocks
  <2> DEFINE T == {l \in DOMAIN FirstLocks :
                     lockBlock[l] # 0 /\ lockBlock[l] \in lastEvmBlock..anvilHead}
                  \ handledLockIds
  <2>1. /\ UNCHANGED <<mintVars, relayEvmVars, firstBurned>>
        /\ \/ firstJob' = [at |-> "polled"]
           \/ firstJob' = [at |-> "locks", head |-> anvilHead, todo |-> T]
    BY <1>5 DEF PollFirstLocks
  <2>2. T \subseteq FirstLocked /\ FirstLocked' = FirstLocked
    BY <2>1 DEF FirstLocked, relayEvmVars
  <2> HIDE DEF T
  <2>3. CASE firstJob' = [at |-> "locks", head |-> anvilHead, todo |-> T]
    <3>1. FirstJobOK'
      BY <2>2, <2>3 DEF FirstJobOK
    <3> QED BY <1>1, <2>1, <3>1
  <2>4. CASE firstJob' = [at |-> "polled"]
    BY <1>1, <1>2, <2>1, <2>4
  <2> QED BY <2>1, <2>3, <2>4
<1>6. CASE FirstLocksDone \/ FirstBurnsDone \/ FirstPollFails \/ FirstCrash
  <2>1. UNCHANGED <<mintVars, relayEvmVars, firstBurned>> /\ firstJob'.at \in {"idle", "polled"}
    BY <1>6 DEF FirstLocksDone, FirstBurnsDone, FirstPollFails, FirstCrash, FirstIdle
  <2> QED BY <1>1, <1>2, <2>1
<1>7. CASE PollFirstBurns
  <2>1. /\ UNCHANGED <<mintVars, relayEvmVars, firstBurned>>
        /\ firstJob' = [at |-> "burns", todo |-> PendingFirstBurns \ handledBurnHashes]
    BY <1>7 DEF PollFirstBurns
  <2> QED BY <1>1, <1>3, <2>1 DEF PendingFirstBurns
<1>8. CASE ConfirmFirstBurn \/ ConfirmFirstFails
  <2>1. /\ UNCHANGED <<mintVars, relayEvmVars, firstBurned>>
        /\ firstJob.at = "confirm" /\ firstJob' = [at |-> "burns", todo |-> firstJob.todo]
    BY <1>8 DEF ConfirmFirstBurn, ConfirmFirstFails
  <2>2. firstJob.todo \subseteq firstBurned
    BY <2>1 DEF UsdcInv, FirstJobOK
  <2> QED BY <1>1, <1>3, <2>1, <2>2
<1>9. ASSUME NEW l \in DOMAIN FirstLocks, LockEther(l) \/ LockToken(l) PROVE UsdcInv'
  BY <1>9, LockedUsdc DEF LockEther, LockToken
<1>10. ASSUME NEW l \in DOMAIN FirstLocks, SubmitMint(l) \/ SubmitMintFails(l) PROVE UsdcInv'
  <2>1. /\ UNCHANGED <<firstBurned, relayEvmVars>>
        /\ QueueCredit(l) \/ UNCHANGED mintVars
        /\ firstJob.at = "locks" /\ l \in firstJob.todo
        /\ firstJob' = [firstJob EXCEPT !.todo = @ \ {l}]
    BY <1>10 DEF SubmitMint, SubmitMintFails
  <2>2. l \in FirstLocked /\ l \in AllLocks
    BY <2>1, FirstConstants DEF UsdcInv, FirstJobOK
  <2>3. MintsTyped' /\ MintsWithin(creditedLocks', mintPool', DOMAIN FirstLocks, FirstLocked)
    <3>1. CASE QueueCredit(l)
      BY <2>2, <3>1, QueueTyped, QueueWithin DEF UsdcInv
    <3>2. CASE UNCHANGED mintVars
      BY <3>2 DEF UsdcInv, MintsTyped, mintVars
    <3> QED BY <2>1, <3>1, <3>2
  <2>4. FirstJobOK'
    <3>1. firstJob'.at = "locks" /\ firstJob'.todo = firstJob.todo \ {l} /\ DOMAIN firstJob' = DOMAIN firstJob
      BY <2>1 DEF UsdcInv, FirstJobOK
    <3>2. FirstLocked' = FirstLocked
      BY <2>1 DEF FirstLocked, relayEvmVars
    <3> QED BY <2>1, <3>1, <3>2 DEF UsdcInv, FirstJobOK
  <2> QED BY <2>1, <2>3, <2>4, MintsUsdc
<1>11. ASSUME NEW b \in DOMAIN FirstBurns, BurnFirst(b) PROVE UsdcInv'
  <2>1. /\ firstBurned' = firstBurned \cup {b}
        /\ UNCHANGED <<mintPool, creditedLocks, treasuryNonce, bridgeHas, lockBlock, paidBurns,
                       anvilHead, firstJob>>
    BY <1>11 DEF BurnFirst, mintVars, relayEvmVars, relayerMemory
  <2>2. FirstLocked' = FirstLocked
    BY <2>1 DEF FirstLocked
  <2>3. IsFiniteSet(firstBurned')
    BY <2>1, FS_AddElement DEF UsdcInv
  <2>4. FirstJobOK'
    BY <2>1, <2>2 DEF UsdcInv, FirstJobOK
  <2> QED BY <2>1, <2>2, <2>3, <2>4 DEF UsdcInv, MintsTyped
<1>12. ASSUME NEW b \in DOMAIN FirstBurns, SendFirstUnlock(b) PROVE UsdcInv'
  <2>1. /\ UNCHANGED <<firstBurned, mintVars>> /\ Pay(b) /\ b \notin paidBurns
        /\ firstJob.at = "burns" /\ b \in firstJob.todo
        /\ firstJob' \in {[firstJob EXCEPT !.todo = @ \ {b}],
                          [at |-> "confirm", todo |-> firstJob.todo \ {b}, burn |-> b]}
    BY <1>12 DEF SendFirstUnlock, UnlockEther, UnlockToken
  <2>2. b \in firstBurned /\ firstJob.todo \subseteq firstBurned /\ {"at", "todo"} \subseteq DOMAIN firstJob
    BY <2>1 DEF UsdcInv, FirstJobOK
  <2>3. FirstJobOK'
    <3>1. CASE firstJob' = [firstJob EXCEPT !.todo = @ \ {b}]
      <4>1. firstJob'.at = "burns" /\ firstJob'.todo = firstJob.todo \ {b} /\ DOMAIN firstJob' = DOMAIN firstJob
        BY <2>1, <2>2, <3>1
      <4> QED BY <1>3, <2>1, <2>2, <4>1
    <3>2. CASE firstJob' = [at |-> "confirm", todo |-> firstJob.todo \ {b}, burn |-> b]
      BY <1>3, <2>1, <2>2, <3>2
    <3> QED BY <2>1, <3>1, <3>2
  <2> QED BY <2>1, <2>2, <2>3, PaidUsdc
<1>13. ASSUME NEW b \in DOMAIN FirstBurns, FirstUnlockFails(b) PROVE UsdcInv'
  <2>1. /\ UNCHANGED <<mintVars, relayEvmVars, firstBurned>>
        /\ firstJob.at = "burns" /\ firstJob' = [firstJob EXCEPT !.todo = @ \ {b}]
    BY <1>13 DEF FirstUnlockFails
  <2>2. firstJob.todo \subseteq firstBurned /\ {"at", "todo"} \subseteq DOMAIN firstJob
    BY <2>1 DEF UsdcInv, FirstJobOK
  <2>3. firstJob'.at = "burns" /\ firstJob'.todo = firstJob.todo \ {b} /\ DOMAIN firstJob' = DOMAIN firstJob
    BY <2>1, <2>2
  <2> QED BY <1>1, <1>3, <2>1, <2>2, <2>3
<1> QED
  BY <1>4, <1>5, <1>6, <1>7, <1>8, <1>9, <1>10, <1>11, <1>12, <1>13 DEF RelayNext

\* Steps that touch nothing of this bridge.
LEMMA StillUsdc == UsdcInv /\ UNCHANGED relayVars => UsdcInv'
<1> SUFFICES ASSUME UsdcInv, UNCHANGED relayVars PROVE UsdcInv'
  OBVIOUS
<1>1. UNCHANGED <<bridgeHas, lockBlock, paidBurns, anvilHead, firstBurned, firstJob,
                  mintPool, creditedLocks, treasuryNonce>>
  BY DEF relayVars, relayEvmVars, relayerMemory, mintVars
<1> QED BY <1>1 DEF UsdcInv, FirstJobOK, FirstLocked, MintsTyped

\* The USDC bridge covers the mirrored USDC of L1 and every burn it has not paid
\* yet, through late receipts, failed confirmations and crashes.
THEOREM UsdcAlwaysBacked == FirstSpec => []UsdcBacked
<1>1. UsdcInv /\ [FirstNext]_firstVars => UsdcInv'
  BY RelayUsdc, StillUsdc DEF FirstNext, MultiNext, OptimisticNext, firstVars
<1> QED BY <1>1, InitUsdc, UsdcIs, PTL DEF FirstSpec

-----------------------------------------------------------------------------
(***************************************************************************)
(* The contracts together.  The relayers of UsdmBridge and of FirstBridge  *)
(* have the mints on L1 in common; neither credits a lock of the other.    *)
(***************************************************************************)

\* What a relayer of the locks L does to the mints.
MintStep(L) == L1Mints \/ (\E l \in L : QueueCredit(l)) \/ UNCHANGED mintVars

LEMMA OthersMint ==
    ASSUME NEW D, NEW G, NEW L, L \subseteq AllLocks, L \cap D = {}, MintsTyped,
           MintsWithin(creditedLocks, mintPool, D, G), MintStep(L)
    PROVE  MintsTyped' /\ MintsWithin(creditedLocks', mintPool', D, G)
<1>1. CASE L1Mints
  BY <1>1, L1Typed, L1Within
<1>2. ASSUME NEW l \in L, QueueCredit(l)
      PROVE  MintsTyped' /\ MintsWithin(creditedLocks', mintPool', D, G)
  <2>1. l \in AllLocks /\ l \notin D
    OBVIOUS
  <2> QED BY <1>2, <2>1, QueueTyped, QueueWithin
<1>3. CASE UNCHANGED mintVars
  BY <1>3 DEF MintsTyped, mintVars
<1> QED BY <1>1, <1>2, <1>3 DEF MintStep

LEMMA RelayMints == RelayNext => MintStep(DOMAIN FirstLocks)
<1> SUFFICES ASSUME RelayNext PROVE MintStep(DOMAIN FirstLocks)
  OBVIOUS
<1>1. ASSUME NEW l \in DOMAIN FirstLocks,
             LockEther(l) \/ LockToken(l) \/ SubmitMint(l) \/ SubmitMintFails(l)
      PROVE  MintStep(DOMAIN FirstLocks)
  BY <1>1 DEF LockEther, LockToken, SubmitMint, SubmitMintFails, MintStep
<1>2. ASSUME NEW b \in DOMAIN FirstBurns, BurnFirst(b) \/ SendFirstUnlock(b) \/ FirstUnlockFails(b)
      PROVE  MintStep(DOMAIN FirstLocks)
  BY <1>2 DEF BurnFirst, SendFirstUnlock, FirstUnlockFails, MintStep
<1>3. CASE \/ FirstMintsGoOn \/ PollFirstLocks \/ FirstLocksDone \/ PollFirstBurns
           \/ ConfirmFirstBurn \/ ConfirmFirstFails \/ FirstBurnsDone \/ FirstPollFails \/ FirstCrash
  BY <1>3 DEF FirstMintsGoOn, PollFirstLocks, FirstLocksDone, PollFirstBurns, ConfirmFirstBurn,
     ConfirmFirstFails, FirstBurnsDone, FirstPollFails, FirstCrash, MintStep
<1> QED BY <1>1, <1>2, <1>3 DEF RelayNext

LEMMA UsdmMints == UsdmNext => MintStep(UsdmLocks)
<1> SUFFICES ASSUME UsdmNext PROVE MintStep(UsdmLocks)
  OBVIOUS
<1>1. ASSUME NEW l \in UsdmLocks, LockUsdm(l) \/ CreditLock(l) \/ CreditLockFails(l)
      PROVE  MintStep(UsdmLocks)
  BY <1>1 DEF LockUsdm, CreditLock, CreditLockFails, MintStep, usdmL1Vars
<1>2. ASSUME NEW b \in UsdmBurns,
             BurnUsdm(b) \/ AlreadyReleased(b) \/ SendUnlock(b) \/ UnlockRefused(b)
      PROVE  MintStep(UsdmLocks)
  BY <1>2 DEF BurnUsdm, AlreadyReleased, SendUnlock, UnlockRefused, MintStep, usdmL1Vars
<1>3. CASE \/ MintsGoOn \/ MineBlock \/ UnlockMined \/ UnlockReverts
           \/ \E d \in 1..LockConfirms : ReplaceBlocks(d)
  BY <1>3 DEF MintsGoOn, MineBlock, UnlockMined, UnlockReverts, ReplaceBlocks, MintStep, usdmL1Vars
<1>4. CASE \/ PollUsdmBurns \/ UnlockReceipt \/ NoUnlockReceipt \/ ScanLocks \/ AdvanceUsdmCursor
           \/ UsdmPollFails \/ UsdmCrash
  BY <1>4 DEF PollUsdmBurns, UnlockReceipt, NoUnlockReceipt, ScanLocks, AdvanceUsdmCursor,
     UsdmPollFails, UsdmCrash, MintStep, usdmL1Vars
<1> QED
  BY <1>1, <1>2, <1>3, <1>4 DEF UsdmNext, UsdmChains, UsdmRelayer, UsdmCallFails

ContractsInv ==
    /\ ReleaseInv /\ CallInv /\ CapInv /\ BackingInv
    /\ MultiPaidWasBurned /\ OptimisticInv
    /\ MirrorInv /\ UsdcInv

contractVars == <<part, escrowVars, vaultVars, usdmVars, firstOwnVars>>

\* Each of the systems takes a step of its own, or none but what the others do to
\* the mints.
LEMMA ContractStep ==
    ASSUME [ContractsNext]_contractVars
    PROVE  /\ [VaultNext]_vaultVars
           /\ UNCHANGED multiVars \/ [FirstNext]_firstVars
           /\ UNCHANGED optimisticVars \/ [FirstNext]_firstVars
           /\ [UsdmNext]_usdmVars \/ (UNCHANGED usdmOwnVars /\ MintStep(DOMAIN FirstLocks))
           /\ \/ RelayNext
              \/ UNCHANGED relayVars
              \/ UNCHANGED firstOwnVars /\ MintStep(UsdmLocks)
<1>1. CASE UNCHANGED contractVars
  BY <1>1 DEF contractVars, usdmVars, usdmL1Vars, firstOwnVars, relayVars
<1>2. CASE EscrowNext /\ UNCHANGED <<vaultVars, usdmVars, firstOwnVars>>
  BY <1>2 DEF usdmVars, usdmL1Vars, firstOwnVars, relayVars
<1>3. CASE VaultNext /\ UNCHANGED <<escrowVars, usdmVars, firstOwnVars>>
  BY <1>3 DEF usdmVars, usdmL1Vars, firstOwnVars, relayVars
<1>4. CASE UsdmNext /\ UNCHANGED <<escrowVars, vaultVars, firstOwnVars>>
  BY <1>4, UsdmMints DEF firstOwnVars
<1>5. CASE RelayNext /\ UNCHANGED <<escrowVars, vaultVars, usdmOwnVars>>
  BY <1>5, RelayMints DEF FirstNext
<1>6. CASE (MultiNext \/ OptimisticNext) /\ UNCHANGED <<escrowVars, vaultVars, usdmOwnVars>>
  <2>1. UNCHANGED relayVars /\ UNCHANGED mintVars
    BY <1>6 DEF MultiNext, OptimisticNext, relayVars
  <2> QED BY <1>6, <2>1 DEF FirstNext, MintStep
<1> QED BY <1>1, <1>2, <1>3, <1>4, <1>5, <1>6 DEF ContractsNext

LEMMA ContractsKept == ContractsInv /\ [ContractsNext]_contractVars => ContractsInv'
<1> SUFFICES ASSUME ContractsInv, [ContractsNext]_contractVars PROVE ContractsInv'
  OBVIOUS
<1>1. ReleaseInv' /\ CallInv' /\ CapInv' /\ BackingInv'
  BY ContractStep, VaultStepInv, StepCap, StepBacking DEF ContractsInv
<1>2. MultiPaidWasBurned'
  BY ContractStep, MultiStepInv DEF ContractsInv, MultiPaidWasBurned, multiVars
<1>3. OptimisticInv'
  BY ContractStep, FirstStepInv DEF ContractsInv, OptimisticInv, RowInv, optimisticVars
<1>4. MirrorInv'
  <2>1. CASE [UsdmNext]_usdmVars
    BY <2>1, ChainsMirror, RelayerMirror DEF ContractsInv, UsdmNext
  <2>2. CASE UNCHANGED usdmOwnVars /\ MintStep(DOMAIN FirstLocks)
    <3>1. /\ UNCHANGED <<block, lockedAt, releasedAt, unlockTx, burnedUsdm, usdmJob>>
      BY <2>2 DEF usdmOwnVars, usdmEvmVars, usdmRelayerVars
    <3>2. DOMAIN FirstLocks \subseteq AllLocks /\ DOMAIN FirstLocks \cap UsdmLocks = {}
      BY FirstConstants, LocksApart
    <3>3. MirrorInv
      BY DEF ContractsInv
    <3>4. MintsTyped' /\ MintsWithin(creditedLocks', mintPool', UsdmLocks, DeepLocks)
      BY <2>2, <3>2, <3>3, OthersMint DEF MirrorInv
    <3>5. UsdmJobOK'
      BY <3>1, <3>3 DEF MirrorInv, UsdmJobOK, DeepLocks
    <3> QED BY <3>1, <3>3, <3>4, <3>5, MintsMirror
  <2> QED BY <2>1, <2>2, ContractStep
<1>5. UsdcInv'
  <2>1. UsdcInv
    BY DEF ContractsInv
  <2>2. CASE RelayNext \/ UNCHANGED relayVars
    BY <2>1, <2>2, RelayUsdc, StillUsdc
  <2>3. CASE UNCHANGED firstOwnVars /\ MintStep(UsdmLocks)
    <3>1. UNCHANGED <<relayEvmVars, firstBurned, firstJob, lockBlock>>
      BY <2>3 DEF firstOwnVars, relayerMemory, relayEvmVars
    <3>2. UsdmLocks \subseteq AllLocks /\ UsdmLocks \cap DOMAIN FirstLocks = {}
      BY UsdmConstants, LocksApart
    <3>3. MintsTyped' /\ MintsWithin(creditedLocks', mintPool', DOMAIN FirstLocks, FirstLocked)
      BY <2>1, <2>3, <3>2, OthersMint DEF UsdcInv
    <3>4. FirstJobOK'
      BY <2>1, <3>1 DEF UsdcInv, FirstJobOK, FirstLocked
    <3> QED BY <2>1, <3>1, <3>3, <3>4, MintsUsdc
  <2> QED BY <2>2, <2>3, ContractStep
<1> QED BY <1>1, <1>2, <1>3, <1>4, <1>5 DEF ContractsInv

LEMMA ContractsStart == ContractsInit => ContractsInv
<1>1. FirstInit => MultiPaidWasBurned
  BY DEF FirstInit, MultiPaidWasBurned
<1> QED
  BY <1>1, VaultInitInv, InitCap, InitBacking, FirstInitInv, InitMirror, InitUsdc
     DEF ContractsInit, ContractsInv

\* The contracts and relayers together: what a quorum signs is what happens, once,
\* and no more than the cap in a window.
THEOREM AlwaysAsSigned == ContractsSpec => []OnlyAsSigned
<1>1. ContractsInv => OnlyAsSigned
  BY CapIs DEF ContractsInv, OnlyAsSigned, ReleaseInv, CallInv
<1> QED BY <1>1, ContractsStart, ContractsKept, PTL DEF ContractsSpec, contractVars

\* The contracts and relayers together: behind every dollar on L1 there is one on
\* the EVM chain.
THEOREM AlwaysBacked == ContractsSpec => []DollarsBacked
<1>1. ContractsInv => DollarsBacked
  BY MirrorIs, BackingIs, UsdcIs DEF ContractsInv, DollarsBacked
<1> QED BY <1>1, ContractsStart, ContractsKept, PTL DEF ContractsSpec, contractVars

=============================================================================
