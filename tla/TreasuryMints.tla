--------------------------- MODULE TreasuryMints ---------------------------
(***************************************************************************)
(* How a relayer credits a lock on L1: it signs a BRIDGE_MINT with the     *)
(* treasury's key for the nonce that the ledger has, and posts it to a     *)
(* node, which queues it unless it has seen it; the producer applies it if *)
(* its nonce is still the next one.  The part of MormLedger and            *)
(* MormMempool that the bridges touch; a mint of a mirrored token costs    *)
(* the treasury nothing, and of MORM it is assumed to have enough.         *)
(***************************************************************************)
EXTENDS Integers, Sequences

CONSTANTS
    AllLocks,           \* what may be credited
    MaxTreasuryTx       \* bound: transactions of the treasury for other services

VARIABLES
    treasuryNonce,
    creditedLocks,      \* bridge_mints, by evm_lock_id
    mintPool, mintsSeen \* the mempool, _seen_txs

mintVars == <<treasuryNonce, creditedLocks, mintPool, mintsSeen>>

MintsInit ==
    /\ treasuryNonce = 0 /\ creditedLocks = {}
    /\ mintPool = <<>> /\ mintsSeen = {}

\* submit_tx says ok to a transaction it has seen before without queueing it
QueueCredit(l) ==
    LET tx == [lock |-> l, nonce |-> treasuryNonce]
    IN  /\ mintsSeen' = mintsSeen \cup {tx}
        /\ mintPool' = IF tx \in mintsSeen THEN mintPool ELSE Append(mintPool, tx)
        /\ UNCHANGED <<treasuryNonce, creditedLocks>>

\* The producer takes the next BRIDGE_MINT, and drops it if it is refused.
SealCredit ==
    LET tx == Head(mintPool)
    IN  /\ mintPool # <<>>
        /\ mintPool' = Tail(mintPool)
        /\ IF tx.nonce = treasuryNonce /\ tx.lock \notin creditedLocks
           THEN /\ treasuryNonce' = treasuryNonce + 1
                /\ creditedLocks' = creditedLocks \cup {tx.lock}
           ELSE UNCHANGED <<treasuryNonce, creditedLocks>>
        /\ UNCHANGED mintsSeen

OtherCredit ==
    /\ treasuryNonce < MaxTreasuryTx
    /\ treasuryNonce' = treasuryNonce + 1
    /\ UNCHANGED <<creditedLocks, mintPool, mintsSeen>>

\* The node loses its mempool; it keeps the mints of its ledger.
L1Restart ==
    /\ mintPool' = <<>> /\ mintsSeen' = {}
    /\ UNCHANGED <<treasuryNonce, creditedLocks>>

L1Mints == SealCredit \/ OtherCredit \/ L1Restart

=============================================================================
