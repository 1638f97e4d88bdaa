---------------------------- MODULE MormMempool ----------------------------
(***************************************************************************)
(* The mempool of one morm-l1 node in DAG mode (morm_l1/node.py): the RPC  *)
(* threads that submit, the QUIC thread that imports peers' blocks and     *)
(* prunes, the producer thread that drains, replays, re-queues and seals,  *)
(* and a restart of the process.                                           *)
(*                                                                         *)
(* Every step is one critical section of Node._lock, or one database       *)
(* transaction.  What the replay accepts is left open (MormDag has it):    *)
(* any part of the batch may apply, and any database call may fail.        *)
(* The order inside the deque is abstracted, its multiplicities are not.   *)
(***************************************************************************)
EXTENDS Integers, FiniteSets, FiniteSetsExt, Functions

CONSTANTS
    Txs,            \* transactions with a valid signature, by hash
    Senders, SenderOf,
    PeerBlocks, TxsIn,  \* blocks of other producers and what they contain
    NoBlock,
    MaxTxs,         \* Node.mempool_max_txs
    MaxPerSender    \* Node.mempool_max_per_sender

ASSUME MempoolAssumption ==
    /\ IsFiniteSet(Txs)     \* 32-byte hashes
    /\ SenderOf \in [Txs -> Senders]
    /\ TxsIn \in [PeerBlocks -> SUBSET Txs]
    /\ NoBlock \notin PeerBlocks
    /\ MaxTxs \in Nat /\ MaxPerSender \in Nat

VARIABLES
    mempool,        \* Node.mempool: how often the deque holds a transaction
    senderCount,    \* Node._sender_count, 0 for an absent key
    seenTxs, seenBlocks,    \* Node._seen_txs, _seen_blocks
    sealed,         \* transactions of the blocks in the `blocks` table
    producer,       \* where the producer thread is in produce_one
    batch,          \* its local `txs`, later `applied`
    importer,       \* where the QUIC thread is in import_block
    block           \* the block it imports

poolVars == <<mempool, senderCount>>
producerVars == <<producer, batch>>
importerVars == <<importer, block>>
vars == <<poolVars, seenTxs, seenBlocks, sealed, producerVars, importerVars>>

Empty == [t \in Txs |-> 0]
NoCount == [s \in Senders |-> 0]
From(s) == {t \in Txs : SenderOf[t] = s}
CountOf(pool) == [s \in Senders |-> SumFunction([t \in From(s) |-> pool[t]])]

Fresh ==
    /\ mempool' = Empty /\ senderCount' = NoCount
    /\ seenTxs' = {} /\ seenBlocks' = {}
    /\ producer' = "idle" /\ batch' = {}
    /\ importer' = "idle" /\ block' = NoBlock

Init ==
    /\ mempool = Empty /\ senderCount = NoCount
    /\ seenTxs = {} /\ seenBlocks = {} /\ sealed = {}
    /\ producer = "idle" /\ batch = {}
    /\ importer = "idle" /\ block = NoBlock

-----------------------------------------------------------------------------
\* Deviation: submit_tx forgets what it has seen
SubmitTxTwice(t) ==
    LET s == SenderOf[t]
    IN  /\ SumFunction(mempool) < MaxTxs
        /\ senderCount[s] < MaxPerSender
        /\ seenTxs' = seenTxs \cup {t}
        /\ mempool' = [mempool EXCEPT ![t] = @ + 1]
        /\ senderCount' = [senderCount EXCEPT ![s] = @ + 1]
        /\ UNCHANGED <<seenBlocks, sealed, producerVars, importerVars>>

\* submit_tx on a transaction it queues; otherwise it changes nothing
SubmitTx(t) ==
    LET s == SenderOf[t]
    IN  /\ t \notin seenTxs
        /\ SumFunction(mempool) < MaxTxs
        /\ senderCount[s] < MaxPerSender
        /\ seenTxs' = seenTxs \cup {t}
        /\ mempool' = [mempool EXCEPT ![t] = @ + 1]
        /\ senderCount' = [senderCount EXCEPT ![s] = @ + 1]
        /\ UNCHANGED <<seenBlocks, sealed, producerVars, importerVars>>

-----------------------------------------------------------------------------
(* The producer thread: drain_mempool, then _produce_dag.                   *)

DrainMempool ==
    /\ producer = "idle"
    /\ mempool # Empty
    /\ producer' = "replaying"
    /\ batch' = {t \in Txs : mempool[t] > 0}
    /\ mempool' = Empty /\ senderCount' = NoCount
    /\ UNCHANGED <<seenTxs, seenBlocks, sealed, importerVars>>

\* _reinsert_mempool: what the deque already holds is skipped, and the caps
\* are not enforced
Returning(S) == {t \in S : mempool[t] = 0}
ReinsertMempool(S) ==
    /\ mempool' = [t \in Txs |-> mempool[t] + IF t \in Returning(S) THEN 1 ELSE 0]
    /\ senderCount' = [s \in Senders |->
         senderCount[s] + Cardinality(Returning(S) \cap From(s))]

\* replay_with_filter raised: everything goes back
ReplayFails ==
    /\ producer = "replaying"
    /\ ReinsertMempool(batch)
    /\ producer' = "idle" /\ batch' = {}
    /\ UNCHANGED <<seenTxs, seenBlocks, sealed, importerVars>>

\* It returned `applied`: the rest goes back, and without any the round ends
Replay(applied) ==
    /\ producer = "replaying"
    /\ applied \subseteq batch
    /\ ReinsertMempool(batch \ applied)
    /\ producer' = IF applied = {} THEN "idle" ELSE "sealing"
    /\ batch' = applied
    /\ UNCHANGED <<seenTxs, seenBlocks, sealed, importerVars>>

SelfApply ==
    /\ producer = "sealing"
    /\ sealed' = sealed \cup batch
    /\ producer' = "idle" /\ batch' = {}
    /\ UNCHANGED <<poolVars, seenTxs, seenBlocks, importerVars>>

\* Deviation: the batch of a refused block is not put back
SelfApplyLoses ==
    /\ producer = "sealing"
    /\ producer' = "idle" /\ batch' = {}
    /\ UNCHANGED <<poolVars, seenTxs, seenBlocks, sealed, importerVars>>

\* apply_block raised (rate limit, root mismatch, database busy)
SelfApplyFails ==
    /\ producer = "sealing"
    /\ ReinsertMempool(batch)
    /\ producer' = "idle" /\ batch' = {}
    /\ UNCHANGED <<seenTxs, seenBlocks, sealed, importerVars>>

-----------------------------------------------------------------------------
(* The QUIC thread: import_block, in three critical sections.               *)

ImportBlock(b) ==
    /\ importer = "idle"
    /\ b \notin seenBlocks
    /\ seenBlocks' = seenBlocks \cup {b}
    /\ importer' = "applying" /\ block' = b
    /\ UNCHANGED <<poolVars, seenTxs, sealed, producerVars>>

\* apply_block commits, or refuses: a refused block stays marked as seen
ImportApplies ==
    /\ importer = "applying"
    /\ \/ /\ sealed' = sealed \cup TxsIn[block]
          /\ importer' = "pruning"
          /\ UNCHANGED block
       \/ /\ importer' = "idle" /\ block' = NoBlock
          /\ UNCHANGED sealed
    /\ UNCHANGED <<poolVars, seenTxs, seenBlocks, producerVars>>

\* Deviation: the counters are not rebuilt from the survivors
PruneKeepsCounts ==
    /\ importer = "pruning"
    /\ mempool' = [t \in Txs |-> IF t \in TxsIn[block] THEN 0 ELSE mempool[t]]
    /\ importer' = "idle" /\ block' = NoBlock
    /\ UNCHANGED <<senderCount, seenTxs, seenBlocks, sealed, producerVars>>

ImportPrunes ==
    LET kept == [t \in Txs |-> IF t \in TxsIn[block] THEN 0 ELSE mempool[t]]
    IN  /\ importer = "pruning"
        /\ mempool' = kept /\ senderCount' = CountOf(kept)
        /\ importer' = "idle" /\ block' = NoBlock
        /\ UNCHANGED <<seenTxs, seenBlocks, sealed, producerVars>>

\* Only the database survives a restart of the process
Restart == Fresh /\ UNCHANGED sealed

Producing == DrainMempool \/ ReplayFails \/ SelfApply \/ SelfApplyFails
               \/ \E applied \in SUBSET batch : Replay(applied)
Importing == ImportApplies \/ ImportPrunes \/ \E b \in PeerBlocks : ImportBlock(b)

Next ==
    \/ \E t \in Txs : SubmitTx(t)
    \/ Producing
    \/ Importing
    \/ Restart

Spec == Init /\ [][Next]_vars

-----------------------------------------------------------------------------
\* A transaction the node said "ok" to is queued, in the producer's hands, or in
\* a stored block: no race of drain, re-queue and prune drops it.
NoTxDropped == \A t \in seenTxs : mempool[t] > 0 \/ t \in batch \/ t \in sealed

\* No transaction is queued twice, or queued while it is being sealed.
NoDuplicates == \A t \in Txs : mempool[t] + (IF t \in batch THEN 1 ELSE 0) <= 1

\* The per-sender counters are exactly what the deque holds, whichever of the
\* threads touched it last: otherwise the quota drifts, and honest senders are
\* refused for transactions sealed long ago.
CountsExact == senderCount = CountOf(mempool)

=============================================================================
