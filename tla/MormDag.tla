------------------------------ MODULE MormDag ------------------------------
(***************************************************************************)
(* morm-l1 nodes in DAG mode: blocks with several parents, the canonical   *)
(* replay of everything reachable from a frontier, the tables materialised *)
(* for the current tips, and the shortcuts that avoid the replay           *)
(* (State._apply_block_dag and below, Node._produce_dag, import_block).    *)
(*                                                                         *)
(* Each node has two threads that apply blocks: the producer thread, and   *)
(* the QUIC thread.  A step is one database transaction, or one access to  *)
(* the markers `_materialized_frontier` / `_materialized_root`, which no   *)
(* lock protects.  Timestamps and genesis lockdown are left out.           *)
(***************************************************************************)
EXTENDS TxReplay, FiniteSets, Functions

CONSTANTS
    Nodes,
    Producers,      \* nodes that produce, the others run with --no-produce
    Reach,          \* nodes each transaction reaches: gossip may lose it elsewhere
    Rank,           \* the order of transactions by sender, nonce and hash
    NoFrontier,     \* `_materialized_frontier` is None
    MaxHeight,      \* bound on the heights
    Peers,          \* the nodes whose blocks reach a node
    Restarting,     \* nodes that may restart
    Registered      \* how many rows the `producers` table has

\* What MormDag assumes of its constants, for its instances to check
DagAssumption ==
    /\ Rank \in [Txs -> Nat] /\ IsInjective(Rank)
    /\ \A t, u \in Txs : t.sender = u.sender /\ t.nonce < u.nonce => Rank[t] < Rank[u]
    /\ Producers \subseteq Nodes /\ IsFiniteSet(Producers)
    /\ Reach \in [Txs -> SUBSET Nodes]
    /\ MaxHeight \in Nat
    /\ Peers \in [Nodes -> SUBSET Nodes]
    /\ Restarting \subseteq Nodes
    /\ Registered \in Nat

Threads == {"producer", "importer"}

VARIABLES
    blocks,     \* the `blocks` table of each node
    tables,     \* its derived tables
    marker,     \* _materialized_frontier: the frontier the tables stand for
    mempool, seenTxs, seenBlocks,
    round,      \* the local variables of produce_one and _produce_dag
    apply       \* those of _apply_block_dag, per thread

vars == <<blocks, tables, marker, mempool, seenTxs, seenBlocks, round, apply>>
stateVars == <<blocks, tables, marker>>
poolVars == <<mempool, seenTxs>>

NoRound == [step |-> "idle"]
NoApply == [step |-> "idle"]

Init ==
    /\ blocks = [n \in Nodes |-> {}]
    /\ tables = [n \in Nodes |-> Genesis]
    /\ marker = [n \in Nodes |-> NoFrontier]
    /\ mempool = [n \in Nodes |-> <<>>]
    /\ seenTxs = [n \in Nodes |-> {}] /\ seenBlocks = [n \in Nodes |-> {}]
    /\ round = [n \in Nodes |-> NoRound]
    /\ apply = [n \in Nodes |-> [r \in Threads |-> NoApply]]

-----------------------------------------------------------------------------
(* The DAG.  A block contains its parents; no parent stands for genesis.    *)

TopHeight(store) == Max({0} \cup {b.height : b \in store})

\* tip_hashes: only the blocks of the greatest height are tips
Tips(store) == {b \in store : b.height = TopHeight(store)}

\* _collect_ancestors: a parent that is not stored is a boundary, like genesis
Ancestors(store, frontier) ==
    LET reached[k \in 0..Cardinality(store)] ==
          IF k = 0 THEN frontier
          ELSE reached[k - 1] \cup UNION {b.parents : b \in reached[k - 1] \cap store}
    IN  store \cap reached[Cardinality(store)]

\* _canonical_tx_order: by the height of the lowest block that has the
\* transaction, then by sender, nonce and hash
TxsOf(visited) == UNION {ToSet(b.txs) : b \in visited}
Origin(visited, t) == Min({b.height : b \in {v \in visited : t \in ToSet(v.txs)}})
Before(visited, t, u) ==
    \/ Origin(visited, t) < Origin(visited, u)
    \/ Origin(visited, t) = Origin(visited, u) /\ Rank[t] < Rank[u]

\* Each transaction comes after those before it
Sorted(visited) ==
    LET found == TxsOf(visited)
        place == [t \in found |-> 1 + Cardinality({u \in found : Before(visited, u, t)})]
    IN  [i \in 1..Cardinality(found) |-> CHOOSE t \in found : place[t] = i]
CanonicalOrder(store, frontier) == Sorted(Ancestors(store, frontier))

Canonical(store, frontier) == Run(Genesis, CanonicalOrder(store, frontier)).db

\* What a replay on top of `parents` starts from: the tables themselves if the
\* marker said they stand for these parents, a replay from genesis otherwise
Base(n, parents, shortcut) ==
    IF shortcut THEN tables[n] ELSE Canonical(blocks[n], parents)

-----------------------------------------------------------------------------
(* Finality: what every tip builds on, once the tips are enough witnesses.  *)

\* _all_ancestors: those of a block, itself left out; a parent counts although it
\* is not stored
ProperAncestors(store, b) == UNION {a.parents : a \in Ancestors(store, {b})}

CommonAncestors(store, tips) ==
    {a \in store : tips # {} /\ \A t \in tips : a \in ProperAncestors(store, t)}

\* Two thirds of the registered producers, rounded up, and one at least
Witnessed(tips) == Registered > 0 /\ 3 * Cardinality(tips) >= Max({3, 2 * Registered})

\* Deviation: any number of tips is enough
FinalUnwitnessed(store) == CommonAncestors(store, Tips(store))

\* finalized_height_dag: it answers the greatest height of these
Final(store) == IF Witnessed(Tips(store)) THEN CommonAncestors(store, Tips(store)) ELSE {}

-----------------------------------------------------------------------------
\* submit_tx, from a client or from gossip
SubmitTx(n, tx) ==
    /\ n \in Reach[tx]
    /\ tx \notin seenTxs[n]
    /\ seenTxs' = [seenTxs EXCEPT ![n] = @ \cup {tx}]
    /\ mempool' = [mempool EXCEPT ![n] = Append(@, tx)]
    /\ UNCHANGED <<stateVars, seenBlocks, round, apply>>

\* _reinsert_mempool
Reinserted(n, txs) == Without(txs, ToSet(mempool[n])) \o mempool[n]

-----------------------------------------------------------------------------
(* The producer thread.  The height and the tips are read one after the     *)
(* other, so the tips may be of a greater height than the height says.      *)

ReadHeight(n) ==
    LET h == TopHeight(blocks[n]) + 1
    IN  /\ n \in Producers
        /\ round[n] = NoRound /\ apply[n]["producer"] = NoApply
        /\ h <= MaxHeight
        /\ round' = [round EXCEPT ![n] = [step |-> "height", height |-> h]]
        /\ UNCHANGED <<stateVars, poolVars, seenBlocks, apply>>

\* tip_hashes, drain_mempool, and whether replay_with_filter takes its shortcut
DrainMempool(n) ==
    /\ round[n].step = "height"
    /\ round' = [round EXCEPT ![n] =
         IF mempool[n] = <<>> THEN NoRound
         ELSE [step |-> "replay", height |-> round[n].height,
               parents |-> Tips(blocks[n]), batch |-> mempool[n],
               shortcut |-> marker[n] = Tips(blocks[n])]]
    /\ mempool' = [mempool EXCEPT ![n] = <<>>]
    /\ UNCHANGED <<stateVars, seenTxs, seenBlocks, apply>>

\* replay_with_filter; what was refused goes back into the mempool, the rest
\* is sealed and handed to apply_block
Replay(n) ==
    LET r == round[n]
        run == Run(Base(n, r.parents, r.shortcut), r.batch)
        block == [height |-> r.height, by |-> n, parents |-> r.parents,
                  txs |-> run.applied, root |-> run.db]
        refused == Without(r.batch, ToSet(run.applied))
    IN  /\ r.step = "replay"
        /\ mempool' = [mempool EXCEPT ![n] = Reinserted(n, refused)]
        /\ round' = [round EXCEPT ![n] = NoRound]
        /\ IF run.applied = <<>>
           THEN UNCHANGED <<seenBlocks, apply>>
           ELSE /\ seenBlocks' = [seenBlocks EXCEPT ![n] = @ \cup {block}]
                /\ apply' = [apply EXCEPT ![n]["producer"] =
                     [step |-> "verify", block |-> block,
                      shortcut |-> marker[n] = block.parents]]
        /\ UNCHANGED <<stateVars, seenTxs>>

-----------------------------------------------------------------------------
(* import_block on the QUIC thread: the block is marked as seen first.      *)

ImportBlock(n, b) ==
    /\ apply[n]["importer"] = NoApply
    /\ b \notin seenBlocks[n]
    /\ seenBlocks' = [seenBlocks EXCEPT ![n] = @ \cup {b}]
    /\ apply' = [apply EXCEPT ![n]["importer"] =
         [step |-> "verify", block |-> b, shortcut |-> marker[n] = b.parents]]
    /\ UNCHANGED <<stateVars, poolVars, round>>

-----------------------------------------------------------------------------
(* _apply_block_dag, on either thread.                                      *)

Applying(n, r, step) == apply[n][r].step = step
ApplyGoesOn(n, r, next) == apply' = [apply EXCEPT ![n][r] = next]

\* The producer puts the transactions of its refused block back; an importer
\* refuses the block for good.
Refused(n, r) ==
    /\ ApplyGoesOn(n, r, NoApply)
    /\ IF r = "producer"
       THEN /\ mempool' = [mempool EXCEPT ![n] = Reinserted(n, apply[n][r].block.txs)]
            /\ seenBlocks' = [seenBlocks EXCEPT ![n] = @ \ {apply[n][r].block}]
       ELSE UNCHANGED <<mempool, seenBlocks>>
    /\ UNCHANGED <<stateVars, seenTxs, round>>

\* The rate limit: a block of the same producer is in the window (by the local
\* clock, so it may or may not be)
RateLimited(n, r) ==
    /\ Applying(n, r, "verify")
    /\ \E b \in blocks[n] : b.by = apply[n][r].block.by
    /\ Refused(n, r)

Valid(n, a) ==
    LET base == Base(n, a.block.parents, a.shortcut)
    IN  AppliesStrictly(base, a.block.txs) /\ Run(base, a.block.txs).db = a.block.root

Verify(n, r) ==
    /\ Applying(n, r, "verify")
    /\ IF Valid(n, apply[n][r])
       THEN /\ ApplyGoesOn(n, r, [step |-> "store", block |-> apply[n][r].block])
            /\ UNCHANGED <<stateVars, poolVars, seenBlocks, round>>
       ELSE Refused(n, r)

\* Deviation: other tips do not matter
IncrementalAlways(n, b, newTips) ==
    marker[n] # NoFrontier /\ b.parents # {} /\ b.parents \subseteq marker[n]

\* _can_incremental_apply
Incremental(n, b, newTips) ==
    /\ marker[n] # NoFrontier
    /\ b.parents # {} /\ b.parents \subseteq marker[n]
    /\ newTips = (marker[n] \ b.parents) \cup {b}

\* A stored block is refused by the primary key of `blocks`
StoreFails(n, r) ==
    /\ Applying(n, r, "store")
    /\ apply[n][r].block \in blocks[n]
    /\ Refused(n, r)

Store(n, r) ==
    LET b == apply[n][r].block
        store == blocks[n] \cup {b}
    IN  /\ Applying(n, r, "store")
        /\ b \notin blocks[n]
        /\ blocks' = [blocks EXCEPT ![n] = store]
        /\ tables' = [tables EXCEPT ![n] =
             IF Incremental(n, b, Tips(store)) THEN Run(@, b.txs).db
             ELSE Canonical(store, Tips(store))]
        /\ ApplyGoesOn(n, r, [step |-> "mark", block |-> b, tips |-> Tips(store)])
        /\ UNCHANGED <<marker, poolVars, seenBlocks, round>>

\* The marker moves after the commit; an importer then prunes the mempool
Mark(n, r) ==
    LET a == apply[n][r]
    IN  /\ Applying(n, r, "mark")
        /\ marker' = [marker EXCEPT ![n] = a.tips]
        /\ ApplyGoesOn(n, r, NoApply)
        /\ mempool' = IF r = "producer" THEN mempool
                      ELSE [mempool EXCEPT ![n] = Without(@, ToSet(a.block.txs))]
        /\ UNCHANGED <<blocks, tables, seenTxs, seenBlocks, round>>

-----------------------------------------------------------------------------
\* A restart keeps the database only
Restart(n) ==
    /\ n \in Restarting
    /\ marker' = [marker EXCEPT ![n] = NoFrontier]
    /\ mempool' = [mempool EXCEPT ![n] = <<>>]
    /\ seenTxs' = [seenTxs EXCEPT ![n] = {}] /\ seenBlocks' = [seenBlocks EXCEPT ![n] = {}]
    /\ round' = [round EXCEPT ![n] = NoRound]
    /\ apply' = [apply EXCEPT ![n] = [r \in Threads |-> NoApply]]
    /\ UNCHANGED <<blocks, tables>>

Next == \E n \in Nodes :
    \/ \E tx \in Txs : SubmitTx(n, tx)
    \/ ReadHeight(n) \/ DrainMempool(n) \/ Replay(n)
    \/ \E m \in Peers[n] : \E b \in blocks[m] : ImportBlock(n, b)
    \/ \E r \in Threads : RateLimited(n, r) \/ Verify(n, r) \/ Store(n, r)
                             \/ StoreFails(n, r) \/ Mark(n, r)
    \/ Restart(n)

Spec == Init /\ [][Next]_vars

-----------------------------------------------------------------------------
\* The tables of every node are the canonical replay of its current tips, at
\* every moment (state.py:796-799, _rebuild_materialized_state: "so that every
\* node's queryable state matches the canonical merged frontier").
CanonicalTables(n) == tables[n] = Canonical(blocks[n], Tips(blocks[n]))
TablesCanonical == \A n \in Nodes : CanonicalTables(n)

\* The same of the nodes that do not produce, and so apply one block at a time:
\* skipping the replay when a block extends the tips changes no row, whatever
\* order blocks arrive in (DAG-DESIGN.md:217-220, "bit-for-bit").
Observers == Nodes \ Producers
ObserversCanonical == \A n \in Observers : CanonicalTables(n)

\* Verifying a block on the tables themselves gives the verdict that a replay
\* of its parents from genesis gives, on a node that does not produce.
ShortcutSound ==
    \A n \in Observers :
        LET a == apply[n]["importer"]
        IN  a.step = "verify" => (Valid(n, a) <=> Valid(n, [a EXCEPT !.shortcut = FALSE]))

\* DAG-DESIGN.md:147-148, a transaction sealed by two producers "either lands
\* once or not at all -- never twice": every node's money is explained by stored
\* transactions, each counted once, and at most one for a sender and a nonce.
Explains(S, db) ==
    /\ \A t, u \in S : t.sender = u.sender /\ t.nonce = u.nonce => t = u
    /\ db.nonce = [a \in Accounts |-> Cardinality({t \in S : t.sender = a})]
    /\ db.balance = [a \in Accounts |-> Genesis.balance[a]
          + SumFunctionOnSet([t \in S |-> IF t.to = a THEN t.amount ELSE 0], S)
          - SumFunctionOnSet([t \in S |-> IF t.sender = a THEN t.amount ELSE 0], S)]
NeverTwice ==
    \A n \in Nodes : \E S \in SUBSET TxsOf(blocks[n]) : Explains(S, tables[n])

\* state.py:862-864, "a block is provably finalized iff every honest tip already
\* builds on top of it": what is final at one node is below every block that any
\* node has at that node's height or above it, in the DAG of them all.  (A node that
\* lacks a block sees less of it: a parent that is not stored is a boundary.)
Known == UNION {blocks[n] : n \in Nodes}
FinalEverywhere ==
    \A n \in Nodes : \A a \in Final(blocks[n]) : \A b \in Known :
        b.height >= TopHeight(blocks[n]) => a \in ProperAncestors(Known, b)

=============================================================================
