---------------------------- MODULE MormProducer ----------------------------
(***************************************************************************)
(* morm-l1 nodes in single-chain mode (morm_l1/node.py, State.apply_block):*)
(* the producer thread's round, the import of peers' blocks, the one-shot  *)
(* sync at start-up, and restarts.                                         *)
(*                                                                         *)
(* Gossip may lose, delay, reorder and repeat: a transaction may be        *)
(* submitted at any node, and a sealed block may arrive at any node at any *)
(* time, or never.  The caps of the mempool are the subject of MormMempool.*)
(***************************************************************************)
EXTENDS TxReplay, FiniteSets

CONSTANTS
    Nodes,
    MaxHeight,      \* bound on the heights
    Owners,         \* who passes the gates of produce_one for a height
    Lockdown,       \* heights under genesis lockdown
    TreasuryNode,   \* the node whose producer key is the treasury's
    Reach,          \* nodes each transaction reaches: gossip may lose it elsewhere
    Restarting      \* nodes that may restart

ASSUME ProducerAssumption ==
    /\ MaxHeight \in Nat
    /\ Owners \in [1..MaxHeight -> SUBSET Nodes]
    /\ Lockdown \subseteq 1..MaxHeight
    /\ \A h \in Lockdown : Owners[h] \subseteq {TreasuryNode}
    /\ Reach \in [Txs -> SUBSET Nodes]
    /\ Restarting \subseteq Nodes

VARIABLES
    db,         \* the derived tables of each node
    log,        \* its `blocks` table, in the order of insertion
    mempool, seenTxs, seenBlocks,
    round,      \* the height produce_one read, 0 outside of it
    batch,      \* what it drained, empty before
    sync        \* the local variables of sync_from_peers, NoSync outside of it

vars == <<db, log, mempool, seenTxs, seenBlocks, round, batch, sync>>
storeVars == <<db, log>>
poolVars == <<mempool, seenTxs>>
producerVars == <<round, batch>>

NoPeer == "no peer"
NoSync == [left |-> {}, peer |-> "not syncing", mine |-> 0, top |-> 0]
Syncing(n) == sync[n] # NoSync

Heights(n) == {log[n][i].height : i \in DOMAIN log[n]}
TopHeight(n) == IF log[n] = <<>> THEN 0 ELSE Max(Heights(n))
Sealed == UNION {ToSet(log[n]) : n \in Nodes}
TxsOf(blocks) == FlattenSeq([i \in DOMAIN blocks |-> blocks[i].txs])

Init ==
    /\ db = [n \in Nodes |-> Genesis]
    /\ log = [n \in Nodes |-> <<>>]
    /\ mempool = [n \in Nodes |-> <<>>]
    /\ seenTxs = [n \in Nodes |-> {}] /\ seenBlocks = [n \in Nodes |-> {}]
    /\ round = [n \in Nodes |-> 0] /\ batch = [n \in Nodes |-> <<>>]
    /\ sync = [n \in Nodes |-> NoSync]

-----------------------------------------------------------------------------
\* submit_tx, from a client or from gossip
SubmitTx(n, tx) ==
    /\ n \in Reach[tx]
    /\ tx \notin seenTxs[n]
    /\ seenTxs' = [seenTxs EXCEPT ![n] = @ \cup {tx}]
    /\ mempool' = [mempool EXCEPT ![n] = Append(@, tx)]
    /\ UNCHANGED <<storeVars, seenBlocks, producerVars, sync>>

-----------------------------------------------------------------------------
(* produce_one: the height is read first, the mempool is drained later, and *)
(* the batch is applied to whatever the database holds by then.             *)

ReadHeight(n) ==
    LET h == TopHeight(n) + 1
    IN  /\ ~Syncing(n)
        /\ round[n] = 0
        /\ h <= MaxHeight
        /\ n \in Owners[h]
        /\ round' = [round EXCEPT ![n] = h]
        /\ UNCHANGED <<storeVars, poolVars, seenBlocks, batch, sync>>

DrainMempool(n) ==
    /\ round[n] # 0 /\ batch[n] = <<>>
    /\ IF mempool[n] = <<>>
       THEN round' = [round EXCEPT ![n] = 0] /\ UNCHANGED batch
       ELSE batch' = [batch EXCEPT ![n] = mempool[n]] /\ UNCHANGED round
    /\ mempool' = [mempool EXCEPT ![n] = <<>>]
    /\ UNCHANGED <<storeVars, seenTxs, seenBlocks, sync>>

EndRound(n) ==
    /\ round' = [round EXCEPT ![n] = 0]
    /\ batch' = [batch EXCEPT ![n] = <<>>]

\* Deviation: the block carries the refused transactions too
SealAll(n) ==
    LET run == Run(db[n], batch[n])
        block == [height |-> round[n], by |-> n, txs |-> batch[n], root |-> run.db]
    IN  /\ batch[n] # <<>>
        /\ db' = [db EXCEPT ![n] = run.db]
        /\ log' = [log EXCEPT ![n] = Append(@, block)]
        /\ seenBlocks' = [seenBlocks EXCEPT ![n] = @ \cup {block}]
        /\ EndRound(n)
        /\ UNCHANGED <<poolVars, sync>>

\* _produce_single_chain: the refused transactions are dropped, but what they
\* left in the database is committed with the block
Seal(n) ==
    LET run == Run(db[n], batch[n])
        block == [height |-> round[n], by |-> n, txs |-> run.applied, root |-> run.db]
    IN  /\ batch[n] # <<>>
        /\ IF run.applied = <<>>
           THEN UNCHANGED <<storeVars, seenBlocks>>
           ELSE /\ db' = [db EXCEPT ![n] = run.db]
                /\ log' = [log EXCEPT ![n] = Append(@, block)]
                /\ seenBlocks' = [seenBlocks EXCEPT ![n] = @ \cup {block}]
        /\ EndRound(n)
        /\ UNCHANGED <<poolVars, sync>>

\* An exception (the database is busy): the loop goes on, the batch is lost
SealFails(n) ==
    /\ batch[n] # <<>>
    /\ EndRound(n)
    /\ UNCHANGED <<storeVars, poolVars, seenBlocks, sync>>

-----------------------------------------------------------------------------
(* import_block and apply_block.  A block is marked as seen before it is    *)
(* checked, and a refused one stays so.  Neither its height nor its parents *)
(* are compared with what the node has: only the state root is.             *)

\* Deviation: the state root is not compared
ImportableAnyRoot(n, b) ==
    /\ b.height \in Lockdown => b.by = TreasuryNode
    /\ AppliesStrictly(db[n], b.txs)

Importable(n, b) ==
    /\ b.height \in Lockdown => b.by = TreasuryNode
    /\ AppliesStrictly(db[n], b.txs)
    /\ Run(db[n], b.txs).db = b.root

ImportBlock(n, b) ==
    /\ seenBlocks' = [seenBlocks EXCEPT ![n] = @ \cup {b}]
    /\ IF b \notin seenBlocks[n] /\ Importable(n, b)
       THEN /\ db' = [db EXCEPT ![n] = Run(@, b.txs).db]
            /\ log' = [log EXCEPT ![n] = Append(@, b)]
            /\ mempool' = [mempool EXCEPT ![n] = Without(@, ToSet(b.txs))]
       ELSE UNCHANGED <<storeVars, mempool>>
    /\ UNCHANGED <<seenTxs, producerVars>>

\* A block arrives by gossip
GossipBlock(n, b) ==
    /\ b \notin seenBlocks[n]
    /\ ImportBlock(n, b)
    /\ UNCHANGED sync

-----------------------------------------------------------------------------
(* A restart keeps the database only.  The QUIC listener is up again before *)
(* sync_from_peers runs, the producer starts after it.                      *)

Restart(n) ==
    /\ n \in Restarting
    /\ mempool' = [mempool EXCEPT ![n] = <<>>]
    /\ seenTxs' = [seenTxs EXCEPT ![n] = {}]
    /\ seenBlocks' = [seenBlocks EXCEPT ![n] = {}]
    /\ EndRound(n)
    /\ sync' = [sync EXCEPT ![n] = [left |-> Nodes \ {n}, peer |-> NoPeer,
                                    mine |-> TopHeight(n), top |-> 0]]
    /\ UNCHANGED storeVars

Asking(n) == Syncing(n) /\ sync[n].peer # NoPeer

SyncPeer(n, m) ==
    /\ Syncing(n) /\ ~Asking(n)
    /\ m \in sync[n].left
    /\ sync' = [sync EXCEPT ![n].left = @ \ {m}, ![n].peer = m, ![n].top = TopHeight(m)]
    /\ UNCHANGED <<storeVars, poolVars, seenBlocks, producerVars>>

\* GET /blocks/at/<h>
BlocksAt(m, h) == {b \in ToSet(log[m]) : b.height = h}

\* One turn of the while loop; `mine` moves only if the block was imported
SyncBlock(n) ==
    /\ Asking(n) /\ sync[n].mine < sync[n].top
    /\ \E b \in BlocksAt(sync[n].peer, sync[n].mine + 1) :
         /\ ImportBlock(n, b)
         /\ sync' = IF log'[n] # log[n] THEN [sync EXCEPT ![n].mine = b.height] ELSE sync

\* The loop ends, or the peer lacks the block
SyncPeerDone(n) ==
    /\ Asking(n)
    /\ sync[n].mine >= sync[n].top \/ sync[n].mine + 1 \notin Heights(sync[n].peer)
    /\ sync' = [sync EXCEPT ![n].peer = NoPeer]
    /\ UNCHANGED <<storeVars, poolVars, seenBlocks, producerVars>>

\* The peer does not answer, or not in time
SyncPeerFails(n) ==
    /\ Asking(n)
    /\ sync' = [sync EXCEPT ![n].peer = NoPeer]
    /\ UNCHANGED <<storeVars, poolVars, seenBlocks, producerVars>>

SyncDone(n) ==
    /\ Syncing(n) /\ ~Asking(n) /\ sync[n].left = {}
    /\ sync' = [sync EXCEPT ![n] = NoSync]
    /\ UNCHANGED <<storeVars, poolVars, seenBlocks, producerVars>>

Sync(n) == SyncBlock(n) \/ SyncPeerDone(n) \/ SyncDone(n) \/ \E m \in Nodes : SyncPeer(n, m)

-----------------------------------------------------------------------------
Next == \E n \in Nodes :
    \/ \E tx \in Txs : SubmitTx(n, tx)
    \/ ReadHeight(n) \/ DrainMempool(n) \/ Seal(n) \/ SealFails(n)
    \/ \E b \in Sealed : GossipBlock(n, b)
    \/ Restart(n)
    \/ Sync(n) \/ SyncPeerFails(n)

Spec == Init /\ [][Next]_vars

-----------------------------------------------------------------------------
\* What a node has of the chain is what every other node has, or will get: the
\* slot owners and the state root together leave no room for a fork, although
\* apply_block looks at neither the height nor the parents of a block.
LogsAgree == \A m, n \in Nodes : IsPrefix(log[m], log[n]) \/ IsPrefix(log[n], log[m])

\* The money of a node is the replay of its blocks from genesis, and so no
\* transaction counts twice, through restarts and repeated deliveries.
MoneyIsReplay ==
    \A n \in Nodes :
        LET run == Run(Genesis, TxsOf(log[n]))
        IN  /\ run.applied = TxsOf(log[n])
            /\ Columns(run.db) = Columns(db[n])

\* node.py:359, sync_from_peers: "Pull blocks we don't have from peers (one-shot)":
\* it comes to an end in a node that is not restarted again and again.
SyncEnds ==
    \A n \in Nodes : <>[][~Restart(n)]_vars => (Syncing(n) ~> ~Syncing(n))

=============================================================================
