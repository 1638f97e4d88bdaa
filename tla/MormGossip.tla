----------------------------- MODULE MormGossip -----------------------------
(***************************************************************************)
(* The gossip of MORM L1 (node.py _fanout_*, _peer_quic_info, quic.py):    *)
(* a node that has a new block or transaction asks each peer's /info for a *)
(* certificate pin, hands the message to the QUIC thread, and that thread  *)
(* opens a connection or reuses one and puts the message on a stream of    *)
(* its own.  Whatever fails on the way is logged and forgotten.            *)
(*                                                                         *)
(* A node is "down", then "listening" (QUIC is up, sync_from_peers runs),  *)
(* then "up": the HTTP server that answers /info is bound last.  Messages  *)
(* that came over QUIC are dispatched on the event loop, which then does   *)
(* nothing else until their own fan-out has asked every peer.  Whether a   *)
(* block applies is reduced to whether its parent is stored.               *)
(***************************************************************************)
EXTENDS Integers, FiniteSets, CompactHeader

CONSTANTS
    Nodes, Peers,           \* Peers[n]: the URLs n was started with
    Blocks, Parent, Header, \* Parent[b] is None for the first one
    Origin,                 \* the node that seals a block
    GossipTxs, Entry,             \* the node a client hands a transaction to
    None,
    MaxBoots, MaxFaults     \* bounds: starts of each node; timeouts and expiries

Msgs == Blocks \cup GossipTxs

ASSUME GossipAssumption ==
    /\ Peers \in [Nodes -> SUBSET Nodes] /\ \A n \in Nodes : n \notin Peers[n]
    /\ Blocks \cap GossipTxs = {} /\ None \notin Msgs
    /\ Parent \in [Blocks -> Blocks \cup {None}] /\ Header \in [Blocks -> HeaderType]
    /\ Origin \in [Blocks -> Nodes] /\ Entry \in [GossipTxs -> Nodes]
    /\ MaxBoots \in [Nodes -> Nat \ {0}] /\ MaxFaults \in Nat

VARIABLES
    phase, boot,    \* boot: how often the node was started
    stored,         \* blocks in the database
    seen,           \* _seen_blocks and _seen_txs
    pins,           \* pins[n][p]: _peer_quic_cache: "unknown", "pin"
    fan,            \* fan-outs under way: [at, to, what, loop]
    tasks,          \* coroutines of QuicGossipClient.send: [at, to, what]
    conn,           \* conn[n][p]: the boot of p that n's connection reached, or 0
    wire,           \* streams: [from, to, boot, what]
    lost,           \* ghost: <<n, p, what>> that n logged as dropped or failed, or
                    \* that went with n, with p, or with a connection to p's past
    faults          \* counted against MaxFaults

gossip == <<phase, boot, stored, seen, pins, fan, tasks, conn, wire, lost, faults>>

GossipInit ==
    /\ phase = [n \in Nodes |-> "down"] /\ boot = [n \in Nodes |-> 0]
    /\ stored = [n \in Nodes |-> {}] /\ seen = [n \in Nodes |-> {}]
    /\ pins = [n \in Nodes |-> [p \in Peers[n] |-> "unknown"]]
    /\ fan = {} /\ tasks = {} /\ conn = [n \in Nodes |-> [p \in Peers[n] |-> 0]]
    /\ wire = {} /\ lost = {} /\ faults = 0

Fan(n, what, loop) == {[at |-> n, to |-> p, what |-> what, loop |-> loop] : p \in Peers[n]}
\* The event loop of n is free
LoopFree(n) == ~ \E f \in fan : f.at = n /\ f.loop
Fault == faults < MaxFaults /\ faults' = faults + 1

-----------------------------------------------------------------------------
(* Starting and stopping (cli.py cmd_node)                                  *)

Listen(n) ==
    /\ phase[n] = "down" /\ boot[n] < MaxBoots[n]
    /\ phase' = [phase EXCEPT ![n] = "listening"]
    /\ boot' = [boot EXCEPT ![n] = @ + 1]
    /\ UNCHANGED <<stored, seen, pins, fan, tasks, conn, wire, lost, faults>>

\* sync_from_peers, one block: import_block with gossip=False
Pull(n, p, b) ==
    /\ phase[n] = "listening" /\ p \in Peers[n] /\ phase[p] = "up"
    /\ b \in stored[p] \ seen[n]
    /\ seen' = [seen EXCEPT ![n] = @ \cup {b}]
    /\ stored' = [stored EXCEPT ![n] = IF Parent[b] \in @ \cup {None} THEN @ \cup {b} ELSE @]
    /\ lost' = lost \cup {<<n, q, b>> : q \in Peers[n]}
    /\ UNCHANGED <<phase, boot, pins, fan, tasks, conn, wire, faults>>

\* start_producer and, at once, RpcServer
Up(n) ==
    /\ phase[n] = "listening"
    /\ phase' = [phase EXCEPT ![n] = "up"]
    /\ UNCHANGED <<boot, stored, seen, pins, fan, tasks, conn, wire, lost, faults>>

\* Only the database is left.  What was under way from it or to it is lost, and
\* it will not fan out again what it has stored.
Stop(n) ==
    LET own == {x \in tasks \cup fan : x.at = n}
    IN  /\ phase[n] # "down" /\ boot[n] < MaxBoots[n]
        /\ phase' = [phase EXCEPT ![n] = "down"]
        /\ seen' = [seen EXCEPT ![n] = {}]
        /\ pins' = [pins EXCEPT ![n] = [p \in Peers[n] |-> "unknown"]]
        /\ conn' = [conn EXCEPT ![n] = [p \in Peers[n] |-> 0]]
        /\ fan' = fan \ own /\ tasks' = tasks \ own
        /\ wire' = {w \in wire : w.from # n}
        /\ lost' = lost \cup (Nodes \X {n} \X Msgs) \cup ({n} \X Peers[n] \X Msgs)
        /\ UNCHANGED <<boot, stored, faults>>

-----------------------------------------------------------------------------
(* New blocks and transactions                                              *)

\* produce_one on its own thread: stored, marked as seen, fanned out
Seal(b) ==
    LET n == Origin[b]
    IN  /\ phase[n] = "up" /\ b \notin stored[n]
        /\ Parent[b] \in stored[n] \cup {None}
        /\ stored' = [stored EXCEPT ![n] = @ \cup {b}]
        /\ seen' = [seen EXCEPT ![n] = @ \cup {b}]
        /\ fan' = fan \cup Fan(n, b, FALSE)
        /\ UNCHANGED <<phase, boot, pins, tasks, conn, wire, lost, faults>>

\* POST /tx: submit_tx with gossip
Submit(tx) ==
    LET n == Entry[tx]
    IN  /\ phase[n] = "up" /\ tx \notin seen[n]
        /\ seen' = [seen EXCEPT ![n] = @ \cup {tx}]
        /\ fan' = fan \cup Fan(n, tx, FALSE)
        /\ UNCHANGED <<phase, boot, stored, pins, tasks, conn, wire, lost, faults>>

-----------------------------------------------------------------------------
(* _fanout_via_quic, one peer: _peer_quic_info and schedule_send            *)

Schedule(f) ==
    /\ fan' = fan \ {f}
    /\ tasks' = tasks \cup {[at |-> f.at, to |-> f.to, what |-> f.what]}

\* The pin is in the cache, whatever has become of the peer
FanCached(f) ==
    /\ f \in fan /\ pins[f.at][f.to] = "pin"
    /\ Schedule(f)
    /\ UNCHANGED <<phase, boot, stored, seen, pins, conn, wire, lost, faults>>

\* GET /info answers with a pin
FanProbed(f) ==
    /\ f \in fan /\ pins[f.at][f.to] = "unknown" /\ phase[f.to] = "up"
    /\ pins' = [pins EXCEPT ![f.at][f.to] = "pin"]
    /\ Schedule(f)
    /\ UNCHANGED <<phase, boot, stored, seen, conn, wire, lost, faults>>

\* It does not answer, or not in two seconds: "DROP"
FanDropped(f) ==
    /\ f \in fan /\ pins[f.at][f.to] = "unknown"
    /\ \/ phase[f.to] # "up" /\ UNCHANGED faults
       \/ phase[f.to] = "up" /\ Fault
    /\ fan' = fan \ {f}
    /\ lost' = lost \cup {<<f.at, f.to, f.what>>}
    /\ UNCHANGED <<phase, boot, stored, seen, pins, tasks, conn, wire>>

\* Sixty seconds have passed
PinExpires(n, p) ==
    /\ p \in Peers[n] /\ pins[n][p] # "unknown" /\ Fault
    /\ pins' = [pins EXCEPT ![n][p] = "unknown"]
    /\ UNCHANGED <<phase, boot, stored, seen, fan, tasks, conn, wire, lost>>

-----------------------------------------------------------------------------
(* QuicGossipClient.send, under the peer's lock                             *)

Open(n, p) ==
    /\ p \in Peers[n] /\ conn[n][p] = 0 /\ LoopFree(n)
    /\ \E t \in tasks : t.at = n /\ t.to = p
    /\ phase[p] # "down" /\ LoopFree(p)
    /\ conn' = [conn EXCEPT ![n][p] = boot[p]]
    /\ UNCHANGED <<phase, boot, stored, seen, pins, fan, tasks, wire, lost, faults>>

\* Nobody listens, or the handshake takes more than three seconds
OpenFails(t) ==
    /\ t \in tasks /\ conn[t.at][t.to] = 0 /\ LoopFree(t.at)
    /\ \/ phase[t.to] = "down" /\ UNCHANGED faults
       \/ phase[t.to] # "down" /\ Fault
    /\ tasks' = tasks \ {t}
    /\ lost' = lost \cup {<<t.at, t.to, t.what>>}
    /\ UNCHANGED <<phase, boot, stored, seen, pins, fan, conn, wire>>

\* send_message: a stream of its own, and a datagram before it if it is a block
SendMessage(t) ==
    /\ t \in tasks /\ conn[t.at][t.to] # 0 /\ LoopFree(t.at)
    /\ tasks' = tasks \ {t}
    /\ wire' = wire \cup {[from |-> t.at, to |-> t.to, boot |-> conn[t.at][t.to], what |-> t.what]}
    /\ UNCHANGED <<phase, boot, stored, seen, pins, fan, conn, lost, faults>>

\* The connection's idle timeout tells that its peer has gone
IdleTimeout(n, p) ==
    /\ p \in Peers[n] /\ conn[n][p] \notin {0, boot[p]}
    /\ conn' = [conn EXCEPT ![n][p] = 0]
    /\ UNCHANGED <<phase, boot, stored, seen, pins, fan, tasks, wire, lost, faults>>

-----------------------------------------------------------------------------
(* _GossipServerProtocol: streams arrive in any order                       *)

Arrives(w) ==
    /\ w \in wire /\ LoopFree(w.to)
    /\ phase[w.to] # "down" /\ w.boot = boot[w.to]

\* Nobody is there who knows the connection
StreamLost(w) ==
    /\ w \in wire /\ (phase[w.to] = "down" \/ w.boot # boot[w.to])
    /\ wire' = wire \ {w}
    /\ lost' = lost \cup {<<w.from, w.to, w.what>>}
    /\ UNCHANGED <<phase, boot, stored, seen, pins, fan, tasks, conn, faults>>

\* Deviation: a block is not passed on, as a transaction is not
DispatchKeeps(w) ==
    LET n == w.to
        b == w.what
    IN  /\ Arrives(w) /\ wire' = wire \ {w} /\ b \in Blocks
        /\ seen' = [seen EXCEPT ![n] = @ \cup {b}]
        /\ stored' = IF b \notin seen[n] /\ Parent[b] \in stored[n] \cup {None}
                     THEN [stored EXCEPT ![n] = @ \cup {b}] ELSE stored
        /\ UNCHANGED <<phase, boot, pins, fan, tasks, conn, lost, faults>>

\* Deviation: what was seen before is passed on again
DispatchAgain(w) ==
    LET n == w.to
        b == w.what
    IN  /\ Arrives(w) /\ wire' = wire \ {w} /\ b \in Blocks
        /\ seen' = [seen EXCEPT ![n] = @ \cup {b}]
        /\ IF Parent[b] \in stored[n] \cup {None}
           THEN /\ stored' = [stored EXCEPT ![n] = @ \cup {b}]
                /\ fan' = fan \cup Fan(n, b, TRUE)
           ELSE UNCHANGED <<stored, fan>>
        /\ UNCHANGED <<phase, boot, pins, tasks, conn, lost, faults>>

\* import_block with gossip: seen first, then applied, then passed on
DispatchBlock(w) ==
    LET n == w.to
        b == w.what
    IN  /\ Arrives(w) /\ wire' = wire \ {w} /\ b \in Blocks
        /\ seen' = [seen EXCEPT ![n] = @ \cup {b}]
        /\ IF b \notin seen[n] /\ Parent[b] \in stored[n] \cup {None}
           THEN /\ stored' = [stored EXCEPT ![n] = @ \cup {b}]
                /\ fan' = fan \cup Fan(n, b, TRUE)
           ELSE UNCHANGED <<stored, fan>>
        /\ UNCHANGED <<phase, boot, pins, tasks, conn, lost, faults>>

\* submit_tx without gossip
DispatchTx(w) ==
    /\ Arrives(w) /\ wire' = wire \ {w} /\ w.what \in GossipTxs
    /\ seen' = [seen EXCEPT ![w.to] = @ \cup {w.what}]
    /\ UNCHANGED <<phase, boot, stored, pins, fan, tasks, conn, lost, faults>>

-----------------------------------------------------------------------------
Transport ==
    \/ \E f \in fan : FanCached(f) \/ FanProbed(f) \/ FanDropped(f)
    \/ \E n \in Nodes, p \in Nodes : Open(n, p)
    \/ \E t \in tasks : OpenFails(t) \/ SendMessage(t)
    \/ \E w \in wire : StreamLost(w) \/ DispatchBlock(w) \/ DispatchTx(w)
Life ==
    \/ \E n \in Nodes : Listen(n) \/ Up(n) \/ Stop(n)
    \/ \E n, p \in Nodes, b \in Blocks : Pull(n, p, b)
    \/ \E n, p \in Nodes : PinExpires(n, p) \/ IdleTimeout(n, p)
GossipNext == Transport \/ Life \/ (\E b \in Blocks : Seal(b)) \/ (\E tx \in GossipTxs : Submit(tx))

\* Threads and event loops run, and every wait has a timeout
GossipSpec == GossipInit /\ [][GossipNext]_gossip /\ WF_gossip(Transport)

-----------------------------------------------------------------------------
Quiet == fan = {} /\ tasks = {} /\ wire = {}

\* When the transport has come to rest, a block that a node has stored was heard
\* by each of its peers, unless this very send was logged as lost, or one of the
\* two was restarted, or the node got the block by sync: neither the dedup nor
\* the pin cache nor the shared connections lose one in silence.
HeardByPeers ==
    Quiet => \A n \in Nodes : \A p \in Peers[n], b \in stored[n] :
                 b \in seen[p] \/ <<n, p, b>> \in lost

\* An echo dies out: every node passes a block on once, so the flood ends.
GossipEnds == <>[]Quiet

\* The announcement of a block in flight tells its header, whatever it is, or is
\* not made; cut short, it is refused.
HeaderTold ==
    \A w \in wire : w.what \in Blocks /\ Encodable(Header[w.what]) =>
        LET s == Encode(Header[w.what])
        IN  /\ Decode(s) = Header[w.what]
            /\ Len(s) = Shortest + HashLen * Len(Header[w.what].parents)
            /\ Decode(SubSeq(s, 1, Len(s) - 1)) = Refused

=============================================================================
