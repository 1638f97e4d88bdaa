----------------------------- MODULE MCMempool -----------------------------
(***************************************************************************)
(* What goes on in and between the nodes of the network: how one finds its *)
(* peers and its owner recovers a seed, its mempool, and the gossip among  *)
(* three.  A behaviour is one of one of the four modules, which share no   *)
(* state, with the others standing still.                                  *)
(***************************************************************************)
EXTENDS MormMempool, MormGossip, SeedLoader, Shamir, TLC

VARIABLE part

\* Two senders; a peer's block takes a transaction of each away, another a
\* single one
CONSTANTS a1, a2, a3, b1, alice, bob, block1, block2

MCTxs == {a1, a2, a3, b1}
MCSenderOf == [t \in MCTxs |-> IF t = b1 THEN bob ELSE alice]
MCTxsIn == block1 :> {a1, b1} @@ block2 :> {a2}

\* n2 has n1 and n3 as peers, n1 has n2, n3 has none; two blocks, n2 starts twice
CONSTANTS n1, n2, n3, c1, c2, tx

MCNodes == {n1, n2, n3}
MCPeers == [n \in MCNodes |-> CASE n = n1 -> {n2} [] n = n2 -> {n1, n3} [] n = n3 -> {}]
MCBlocks == {c1, c2}
MCParent == [b \in MCBlocks |-> IF b = c1 THEN None ELSE c1]
MCOrigin == [b \in MCBlocks |-> IF b = c1 THEN n1 ELSE n2]
MCGossipTxs == {tx}
MCEntry == [x \in MCGossipTxs |-> n1]
MCHeader == [b \in MCBlocks |->
    [height |-> IF b = c1 THEN 1 ELSE 260, hash |-> <<1, 2>>, stateRoot |-> <<3, 0>>,
     txRoot |-> <<0, 1>>, producer |-> <<2, 2>>, sig |-> <<1, 0, 3>>,
     parents |-> IF b = c1 THEN <<>> ELSE <<<<1, 2>>, <<2, 0>>>>,
     txs |-> IF b = c1 THEN 15 ELSE 6, time |-> 1027]]
MCBoots == [n \in MCNodes |-> IF n = n2 THEN 2 ELSE 1]

\* Three hosts, of which one is this node; lists with repetitions and slashes
CONSTANTS near, far, here

Url(h, s) == [host |-> h, slash |-> s]
MCSeedLists == {<<>>, <<Url(near, TRUE), Url(here, FALSE)>>, <<Url(here, TRUE)>>,
                <<Url(far, FALSE), Url(near, FALSE), Url(far, TRUE)>>}

NetworkInit ==
    /\ Init /\ GossipInit /\ SeedInit /\ ShamirInit
    /\ part \in {"mempool", "gossip", "seeds", "shares"}
    /\ part # "seeds" => start = [explicit |-> <<>>, data |-> Absent, baked |-> Absent,
                                 public |-> TRUE, discovery |-> FALSE, quic |-> TRUE]
NetworkNext ==
    /\ UNCHANGED part
    /\ \/ part = "mempool" /\ Next /\ UNCHANGED <<gossip, seeding, shamir>>
       \/ part = "gossip" /\ GossipNext /\ UNCHANGED <<vars, seeding, shamir>>
       \/ part = "seeds" /\ SeedNext /\ UNCHANGED <<vars, gossip, shamir>>
       \/ part = "shares" /\ ShamirNext /\ UNCHANGED <<vars, gossip, seeding>>

NetworkSpec ==
    NetworkInit /\ [][NetworkNext]_<<part, vars, gossip, seeding, shamir>> /\ WF_gossip(Transport)

=============================================================================
