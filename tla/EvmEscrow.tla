----------------------------- MODULE EvmEscrow -----------------------------
(***************************************************************************)
(* MORMEscrow.sol: the registry of contents, the escrow of orders and the  *)
(* stakes of nodes on an EVM chain, in one contract with one balance.      *)
(*                                                                         *)
(* A call is a transaction: a revert anywhere in it undoes all of it, so a *)
(* call that would revert is not a step.  An account may be a contract     *)
(* that refuses ether; that a payee calls back is not modelled.            *)
(***************************************************************************)
EXTENDS Integers

CONSTANTS
    Wallets,            \* the accounts that call the contract
    Refusing,           \* those of them that refuse ether
    EvmOrders, EvmContents, GenerationIds, NoGeneration,
    Nobody,             \* address(0)
    Values,             \* what a call may carry, in wei
    FirstEther,         \* what a wallet owns when the contract is deployed
    FEE_BPS, BPS_DENOM

ASSUME EscrowAssumption ==
    /\ Refusing \subseteq Wallets /\ Nobody \notin Wallets
    /\ NoGeneration \notin GenerationIds
    /\ Values \subseteq Nat /\ FirstEther \in Nat
    /\ BPS_DENOM \in Nat \ {0} /\ FEE_BPS \in 0..BPS_DENOM

VARIABLES
    creator,            \* contents: who registered it
    generationIds,      \* generation ids: the content that has it
    deals,              \* orders
    nodeLocked,         \* the accounts that lost their node for good
    stakeOf,            \* the stake of each account
    contractBalance,    \* the ether of the contract
    stakeSum,           \* the part of it that is stakes (history)
    wallet, treasury    \* the ether of the accounts and of the treasury

registryVars == <<creator, generationIds>>
moneyVars == <<stakeOf, contractBalance, stakeSum, wallet, treasury>>
escrowVars == <<registryVars, deals, nodeLocked, moneyVars>>

PendingStatus == {"Created", "PackingProofSubmitted", "OpeningProofSubmitted"}

NoDeal == [buyer |-> Nobody, seller |-> Nobody, amount |-> 0, status |-> "None"]

EscrowInit ==
    /\ creator = [c \in EvmContents |-> Nobody]
    /\ generationIds = [g \in GenerationIds |-> {}]
    /\ deals = [o \in EvmOrders |-> NoDeal]
    /\ nodeLocked = {}
    /\ stakeOf = [w \in Wallets |-> 0]
    /\ contractBalance = 0 /\ stakeSum = 0
    /\ wallet = [w \in Wallets |-> FirstEther] /\ treasury = 0

-----------------------------------------------------------------------------
RegisterContent(u, c, g) ==
    /\ u \notin nodeLocked
    /\ creator[c] = Nobody
    /\ IF g = NoGeneration THEN UNCHANGED generationIds
       ELSE /\ generationIds[g] = {}
            /\ generationIds' = [generationIds EXCEPT ![g] = {c}]
    /\ creator' = [creator EXCEPT ![c] = u]
    /\ UNCHANGED <<deals, nodeLocked, moneyVars>>

FeeOf(v) == (v * FEE_BPS) \div BPS_DENOM

\* The contract keeps 99 %, the treasury has its fee at once.
CreateDeal(u, o, c, s, v) ==
    /\ deals[o].status = "None"
    /\ {u, s} \cap nodeLocked = {}
    /\ creator[c] # Nobody
    /\ wallet[u] >= v
    /\ deals' = [deals EXCEPT ![o] = [buyer |-> u, seller |-> s, amount |-> v - FeeOf(v),
                                      status |-> "Created"]]
    /\ wallet' = [wallet EXCEPT ![u] = @ - v]
    /\ contractBalance' = contractBalance + v - FeeOf(v)
    /\ treasury' = treasury + FeeOf(v)
    /\ UNCHANGED <<registryVars, nodeLocked, stakeOf, stakeSum>>

SubmitPackingProof(o) ==
    /\ deals[o].status = "Created"
    /\ deals' = [deals EXCEPT ![o].status = "PackingProofSubmitted"]
    /\ UNCHANGED <<registryVars, nodeLocked, moneyVars>>

SubmitOpeningProof(o) ==
    /\ deals[o].status = "PackingProofSubmitted"
    /\ deals' = [deals EXCEPT ![o].status = "OpeningProofSubmitted"]
    /\ UNCHANGED <<registryVars, nodeLocked, moneyVars>>

DealPaid(o) ==
    /\ deals[o].status = "OpeningProofSubmitted"
    /\ deals[o].seller \notin Refusing
    /\ deals' = [deals EXCEPT ![o].status = "Finalized"]
    /\ wallet' = [wallet EXCEPT ![deals[o].seller] = @ + deals[o].amount]
    /\ contractBalance' = contractBalance - deals[o].amount
    /\ UNCHANGED <<registryVars, nodeLocked, stakeOf, stakeSum, treasury>>

\* The buyer gets the escrow back, the seller loses stake and node.
DealRefunded(o) ==
    LET s == deals[o].seller
    IN  /\ deals[o].status = "OpeningProofSubmitted"
        /\ deals[o].buyer \notin Refusing
        /\ deals' = [deals EXCEPT ![o].status = "Refunded"]
        /\ wallet' = [wallet EXCEPT ![deals[o].buyer] = @ + deals[o].amount]
        /\ nodeLocked' = nodeLocked \cup {s}
        /\ stakeOf' = [stakeOf EXCEPT ![s] = 0]
        /\ contractBalance' = contractBalance - deals[o].amount - stakeOf[s]
        /\ stakeSum' = stakeSum - stakeOf[s]
        /\ treasury' = treasury + stakeOf[s]
        /\ UNCHANGED registryVars

StakeNode(u, v) ==
    /\ u \notin nodeLocked
    /\ wallet[u] >= v
    /\ wallet' = [wallet EXCEPT ![u] = @ - v]
    /\ stakeOf' = [stakeOf EXCEPT ![u] = @ + v]
    /\ contractBalance' = contractBalance + v
    /\ stakeSum' = stakeSum + v
    /\ UNCHANGED <<registryVars, deals, nodeLocked, treasury>>

\* Deviation: the stake is not compared with what is asked for
UnstakeUnchecked(u, n) ==
    /\ u \notin nodeLocked
    /\ u \notin Refusing
    /\ contractBalance >= n
    /\ stakeOf' = [stakeOf EXCEPT ![u] = IF @ < n THEN 0 ELSE @ - n]
    /\ wallet' = [wallet EXCEPT ![u] = @ + n]
    /\ contractBalance' = contractBalance - n
    /\ stakeSum' = stakeSum - (stakeOf[u] - stakeOf'[u])
    /\ UNCHANGED <<registryVars, deals, nodeLocked, treasury>>

UnstakeNode(u, n) ==
    /\ u \notin nodeLocked
    /\ u \notin Refusing
    /\ stakeOf[u] >= n
    /\ stakeOf' = [stakeOf EXCEPT ![u] = @ - n]
    /\ wallet' = [wallet EXCEPT ![u] = @ + n]
    /\ contractBalance' = contractBalance - n
    /\ stakeSum' = stakeSum - n
    /\ UNCHANGED <<registryVars, deals, nodeLocked, treasury>>

EscrowNext ==
    \/ \E u \in Wallets, c \in EvmContents, g \in GenerationIds \cup {NoGeneration} :
          RegisterContent(u, c, g)
    \/ \E u, s \in Wallets, o \in EvmOrders, c \in EvmContents, v \in Values :
          CreateDeal(u, o, c, s, v)
    \/ \E o \in EvmOrders : SubmitPackingProof(o) \/ SubmitOpeningProof(o)
                              \/ DealPaid(o) \/ DealRefunded(o)
    \/ \E u \in Wallets, v \in Values : StakeNode(u, v) \/ UnstakeNode(u, v)

EscrowSpec == EscrowInit /\ [][EscrowNext]_escrowVars

-----------------------------------------------------------------------------
\* Orders are escrow deals: what createOrder puts into the contract, next to the
\* stakes, finalize pays out in full, once.
dealsHeld == [o \in EvmOrders |->
    [phase |-> CASE deals[o].status = "None" -> "none"
                 [] deals[o].status \in PendingStatus -> "held"
                 [] OTHER -> "released",
     amount |-> deals[o].amount]]
OrderVault == INSTANCE EscrowVault
    WITH Deals <- EvmOrders, vault <- contractBalance - stakeSum, held <- dealsHeld
ContractImplementsEscrow == OrderVault!Spec

=============================================================================
