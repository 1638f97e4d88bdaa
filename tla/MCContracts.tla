---------------------------- MODULE MCContracts ----------------------------
(***************************************************************************)
(* The contracts besides the export bridge, and their relayers: five       *)
(* systems that share no state (but UsdmBridge and FirstBridge the name of *)
(* the L1 they credit).  A behaviour is one of one of them, chosen at the  *)
(* start, with the others standing still: an interleaving of two of them   *)
(* reaches nothing that each does not reach alone.                         *)
(***************************************************************************)
EXTENDS EvmEscrow, UsdmVault, UsdmBridge, FirstBridge, TLC

CONSTANTS h1, h2, b1, b2, k1, k2, k3, u1, u2, m1, m2

VARIABLE part

\* UsdmVault: a holder with two dollars; two burns on L1 that release one each
TwoDollars == h1 :> 2 @@ h2 :> 0
OneForEach == b1 :> [to |-> h1, amount |-> 1] @@ b2 :> [to |-> h2, amount |-> 1]

\* UsdmBridge: a lock and a burn; the keys are not in the order of the addresses
OneLocked == k1 :> 1
OneBurned == u1 :> 1
MixedKeys == <<3, 1, 2>>

\* FirstBridge: ether and USDC in both directions; one of the locks is made in a
\* behaviour (OneOfTheLocks), either one
EtherAndUsdcIn == k2 :> [token |-> "USDC", amount |-> 2] @@ k3 :> [token |-> "MORM", amount |-> 1]
EtherAndUsdcOut == u1 :> [token |-> "USDC", amount |-> 1] @@ u2 :> [token |-> "MORM", amount |-> 1]
OneAndTwo == m1 :> 1 @@ m2 :> 2

\* Locks of two contracts are two events, with an identity each.
ASSUME LocksApart == UsdmLocks \cap DOMAIN FirstLocks = {}

OneOfTheLocks == \E l \in DOMAIN FirstLocks : lockBlock'[l] = 0

firstOwnVars == <<relayEvmVars, firstBurned, firstConfirmed, relayerMemory, multiVars,
                  optimisticVars>>
usdmOwnVars == <<burnedUsdm, unlockedUsdm, usdmEvmVars, usdmRelayerVars>>

ContractsInit ==
    /\ EscrowInit /\ VaultInit /\ UsdmInit /\ FirstInit
    /\ part \in {"escrow", "vault", "usdm", "relay", "multi", "optimistic"}

ContractsNext ==
    /\ UNCHANGED part
    /\ \/ part = "escrow" /\ EscrowNext
          /\ UNCHANGED <<vaultVars, usdmVars, firstOwnVars>>
       \/ part = "vault" /\ VaultNext
          /\ UNCHANGED <<escrowVars, usdmVars, firstOwnVars>>
       \/ part = "usdm" /\ UsdmNext
          /\ UNCHANGED <<escrowVars, vaultVars, firstOwnVars>>
       \/ /\ \/ part = "relay" /\ RelayNext /\ OneOfTheLocks
             \/ part = "multi" /\ MultiNext
             \/ part = "optimistic" /\ OptimisticNext
          /\ UNCHANGED <<escrowVars, vaultVars, usdmOwnVars>>

ContractsSpec ==
    /\ ContractsInit
    /\ [][ContractsNext]_<<part, escrowVars, vaultVars, usdmVars, firstOwnVars>>
    /\ UsdmFairness

\* What a quorum signs is what happens, once: both bridges of signers pay burns
\* of L1 in their amount and never again, one of them no more than its cap in a
\* window, and the pause switch moves by the calls its guardians decided on, one
\* for each nonce.
OnlyAsSigned ==
    ReleasedWasBurned /\ ReleaseCapped /\ MultiPaidWasBurned /\ ExecutedAsDecided

\* Behind every dollar on L1 there is one on the EVM chain: the mirrored USDm by
\* locked USDm, USDm by the USDC in its contract, and the mirrored USDC of the
\* first bridge by the USDC it has, through late receipts, crashes and retries.
DollarsBacked == MirrorBacked /\ FullyBacked /\ UsdcBacked

=============================================================================
