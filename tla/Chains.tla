------------------------------- MODULE Chains -------------------------------
(***************************************************************************)
(* The two ways a node can run, with slots (MormProducer) and as a DAG     *)
(* (MormDag), of the same transactions.  A behaviour is one of one of      *)
(* them, chosen at the start, and the other stands still.  The DAG is      *)
(* there twice, with two nets of peers: "dag", where nodes restart and     *)
(* hear each other as they may, and "final", for what is said of finality. *)
(***************************************************************************)
EXTENDS MormProducer

CONSTANTS
    Modes,          \* which of the three
    DagNodes, DagProducers, DagRank, NoFrontier, DagHeight, DagRegistered,
    DagReach, DagPeers, DagRestarting,
    FinalReach, FinalPeers, FinalRestarting

VARIABLES mode, blocks, tables, marker, dagPool, dagTxs, dagBlocks, dagRound, apply

dag == <<blocks, tables, marker, dagPool, dagTxs, dagBlocks, dagRound, apply>>

Dag == INSTANCE MormDag WITH
    Nodes <- DagNodes, Producers <- DagProducers, Rank <- DagRank, Reach <- DagReach,
    MaxHeight <- DagHeight, Peers <- DagPeers, Restarting <- DagRestarting,
    Registered <- DagRegistered, mempool <- dagPool, seenTxs <- dagTxs,
    seenBlocks <- dagBlocks, round <- dagRound

Final == INSTANCE MormDag WITH
    Nodes <- DagNodes, Producers <- DagProducers, Rank <- DagRank, Reach <- FinalReach,
    MaxHeight <- DagHeight, Peers <- FinalPeers, Restarting <- FinalRestarting,
    Registered <- DagRegistered, mempool <- dagPool, seenTxs <- dagTxs,
    seenBlocks <- dagBlocks, round <- dagRound

ASSUME ChainsAssumption == Dag!DagAssumption /\ Final!DagAssumption

ChainsInit == Init /\ Dag!Init /\ mode \in Modes
ChainsNext ==
    /\ UNCHANGED mode
    /\ \/ mode = "slots" /\ Next /\ UNCHANGED dag
       \/ mode = "dag" /\ Dag!Next /\ UNCHANGED vars
       \/ mode = "final" /\ Final!Next /\ UNCHANGED vars
ChainsSpec == ChainsInit /\ [][ChainsNext]_<<mode, vars, dag>>

\* The main thread of a node that is up keeps going; its peers need not fail.
FairChainsSpec == ChainsSpec /\ \A n \in Nodes : WF_vars(Sync(n))

-----------------------------------------------------------------------------
\* On a node that does not produce, whatever order blocks arrive in, skipping the
\* replay when a block extends the tips changes no row (DAG-DESIGN.md:217-220), and
\* verifying a block on the tables themselves gives the verdict that a replay of
\* its parents from genesis gives (compute_frontier_state_root).  This needs that no
\* transaction comes before one of its own block that it depends on, in the canonical
\* order, and so does not hold of all transactions (IncrementalAsRebuilt).
ShortcutsSound == Dag!ObserversCanonical /\ Dag!ShortcutSound

\* What two producers seal "either lands once or not at all -- never twice"
\* (DAG-DESIGN.md:147-148), in the tables of every node.
NeverTwice == Dag!NeverTwice

\* What is final at one node is below everything at that height or above it, whoever
\* has it (state.py:862-864, common_ancestors).
FinalEverywhere == Final!FinalEverywhere

\* The tables of every node, producers included, are the canonical replay of its
\* current tips (state.py:796-799, _rebuild_materialized_state).
TablesCanonical == Dag!TablesCanonical

\* DAG-DESIGN.md:217-220, applying a block that extends the tips to the tables as
\* they are "matches the full-rebuild result bit-for-bit", since the canonical order
\* puts its transactions last anyway: but not in the order of the block.
IncrementalAsRebuilt == Dag!ObserversCanonical

=============================================================================
