------------------------ MODULE MempoolGossipProofs ------------------------
(***************************************************************************)
(* No accepted transaction is dropped or duplicated by the mempool, and    *)
(* its counters are exact, for every set of transactions, blocks and caps; *)
(* gossip loses no block of a node without a line in its log, for every    *)
(* net of peers; a block's announcement tells its header, for every header *)
(* and number of parents; and a starting node has its peers once each, in  *)
(* the order of their sources, for every list of seeds.                    *)
(***************************************************************************)
EXTENDS MormMempool, MormGossip, SeedLoader, SumTheorems

(***************************************************************************)
(* The strengthening: what is queued or in the producer's hands was        *)
(* accepted since the last restart, never both at once; an idle producer   *)
(* holds nothing; and an import prunes only after its block was stored.    *)
(***************************************************************************)
PoolTypeOK ==
    /\ mempool \in [Txs -> Nat]
    /\ seenTxs \subseteq Txs /\ batch \subseteq Txs /\ sealed \subseteq Txs
    /\ producer \in {"idle", "replaying", "sealing"}

ImportInv ==
    /\ importer \in {"idle", "applying", "pruning"}
    /\ importer # "idle" => block \in PeerBlocks
    /\ importer = "pruning" => TxsIn[block] \subseteq sealed

PoolInv ==
    /\ PoolTypeOK
    /\ producer = "idle" => batch = {}
    /\ \A t \in Txs : mempool[t] > 0 \/ t \in batch => t \in seenTxs
    /\ NoDuplicates
    /\ NoTxDropped

\* What a peer's block contains are transactions.
LEMMA BlockTxs == \A b \in PeerBlocks : TxsIn[b] \subseteq Txs
BY MempoolAssumption

LEMMA InitPool == Init => PoolInv /\ ImportInv
BY DEF Init, ImportInv, PoolInv, PoolTypeOK, Empty, NoDuplicates, NoTxDropped

\* What a batch gives back to the deque: each of its transactions once.
LEMMA Reinserted ==
    ASSUME PoolInv, NEW S \in SUBSET batch, ReinsertMempool(S)
    PROVE  /\ mempool' \in [Txs -> Nat]
           /\ \A t \in S : mempool'[t] = 1
           /\ \A t \in Txs \ S : mempool'[t] = mempool[t]
<1>1. \A t \in S : mempool[t] = 0 /\ t \in Txs
  BY DEF PoolInv, PoolTypeOK, NoDuplicates
<1>2. mempool' = [t \in Txs |-> mempool[t] + IF t \in Returning(S) THEN 1 ELSE 0]
  BY DEF ReinsertMempool
<1>3. QED
  BY <1>1, <1>2 DEF PoolInv, PoolTypeOK, Returning

LEMMA ProducingPool ==
    ASSUME PoolInv, Producing
    PROVE  PoolInv'
<1> USE DEF PoolInv, PoolTypeOK, NoDuplicates, NoTxDropped
<1>1. CASE DrainMempool
  BY <1>1 DEF DrainMempool, Empty
<1>2. CASE ReplayFails
  BY <1>2, Reinserted DEF ReplayFails
<1>3. CASE SelfApply
  BY <1>3 DEF SelfApply, poolVars
<1>4. CASE SelfApplyFails
  BY <1>4, Reinserted DEF SelfApplyFails
<1>5. ASSUME NEW applied \in SUBSET batch, Replay(applied)
      PROVE  PoolInv'
  <2>1. /\ mempool' \in [Txs -> Nat]
        /\ \A t \in batch \ applied : mempool'[t] = 1
        /\ \A t \in Txs \ (batch \ applied) : mempool'[t] = mempool[t]
    BY <1>5, Reinserted DEF Replay
  <2>2. batch' = applied /\ producer' \in {"idle", "sealing"}
        /\ (producer' = "idle" => applied = {})
        /\ UNCHANGED <<seenTxs, sealed>>
    BY <1>5 DEF Replay
  <2>3. QED
    BY <2>1, <2>2
<1>6. QED
  BY <1>1, <1>2, <1>3, <1>4, <1>5 DEF Producing

LEMMA SubmitPool ==
    ASSUME PoolInv, NEW t \in Txs, SubmitTx(t)
    PROVE  PoolInv'
<1>1. /\ t \notin seenTxs /\ seenTxs' = seenTxs \cup {t}
      /\ mempool' = [mempool EXCEPT ![t] = @ + 1]
      /\ UNCHANGED <<producer, batch, sealed>>
  BY DEF SubmitTx, producerVars
<1>2. mempool[t] = 0 /\ t \notin batch
  BY <1>1 DEF PoolInv, PoolTypeOK
<1>3. mempool' \in [Txs -> Nat] /\ mempool'[t] = 1
      /\ \A u \in Txs \ {t} : mempool'[u] = mempool[u]
  BY <1>1, <1>2 DEF PoolInv, PoolTypeOK
<1>4. QED
  BY <1>1, <1>2, <1>3 DEF PoolInv, PoolTypeOK, NoDuplicates, NoTxDropped

LEMMA ImportingPool ==
    ASSUME PoolInv, ImportInv, Importing
    PROVE  PoolInv' /\ ImportInv'
<1>1. ASSUME NEW b \in PeerBlocks, ImportBlock(b)
      PROVE  PoolInv' /\ ImportInv'
  BY <1>1 DEF ImportBlock, poolVars, producerVars,
     ImportInv, PoolInv, PoolTypeOK, NoDuplicates, NoTxDropped
<1>2. CASE ImportApplies
  <2>1. sealed \subseteq sealed' /\ sealed' \subseteq Txs
    BY <1>2, BlockTxs DEF ImportApplies, ImportInv, PoolInv, PoolTypeOK
  <2>2. PoolInv'
    BY <1>2, <2>1 DEF ImportApplies, poolVars, producerVars,
       PoolInv, PoolTypeOK, NoDuplicates, NoTxDropped
  <2>3. ImportInv'
    BY <1>2, <2>1 DEF ImportApplies, ImportInv
  <2>4. QED
    BY <2>2, <2>3
<1>3. CASE ImportPrunes
  <2> DEFINE kept == [t \in Txs |-> IF t \in TxsIn[block] THEN 0 ELSE mempool[t]]
  <2>1. /\ mempool' = kept /\ UNCHANGED <<seenTxs, sealed, producer, batch>>
        /\ importer' = "idle" /\ TxsIn[block] \subseteq sealed
    BY <1>3 DEF ImportPrunes, producerVars, ImportInv
  <2>2. kept \in [Txs -> Nat] /\ \A t \in Txs :
          IF t \in TxsIn[block] THEN kept[t] = 0 ELSE kept[t] = mempool[t]
    BY DEF PoolInv, PoolTypeOK
  <2>3. \A t \in Txs : IF t \in TxsIn[block] THEN mempool'[t] = 0 ELSE mempool'[t] = mempool[t]
    <3> HIDE DEF kept
    <3> QED BY <2>1, <2>2
  <2>4. PoolTypeOK' /\ NoDuplicates'
    <3> HIDE DEF kept
    <3> QED BY <2>1, <2>2, <2>3 DEF PoolInv, PoolTypeOK, NoDuplicates
  <2>5. NoTxDropped' /\ \A t \in Txs : mempool'[t] > 0 \/ t \in batch' => t \in seenTxs'
    BY <2>1, <2>3 DEF PoolInv, PoolTypeOK, NoTxDropped
  <2>6. QED
    BY <2>1, <2>4, <2>5 DEF PoolInv, ImportInv
<1>4. QED
  BY <1>1, <1>2, <1>3 DEF Importing

LEMMA StepPool ==
    ASSUME PoolInv, ImportInv, [Next]_vars
    PROVE  PoolInv' /\ ImportInv'
<1>1. ASSUME UNCHANGED importerVars, sealed \subseteq sealed'
      PROVE  ImportInv'
  BY <1>1 DEF importerVars, ImportInv
<1>2. CASE Producing
  <2>1. UNCHANGED importerVars /\ sealed \subseteq sealed'
    BY <1>2 DEF Producing, DrainMempool, ReplayFails, Replay, SelfApply, SelfApplyFails
  <2>2. QED
    BY <1>1, <1>2, <2>1, ProducingPool
<1>3. ASSUME NEW t \in Txs, SubmitTx(t)
      PROVE  PoolInv' /\ ImportInv'
  BY <1>1, <1>3, SubmitPool DEF SubmitTx
<1>4. CASE Restart
  BY <1>4 DEF Restart, Fresh, Empty, ImportInv, PoolInv, PoolTypeOK, NoDuplicates, NoTxDropped
<1>5. CASE UNCHANGED vars
  BY <1>1, <1>5 DEF vars, poolVars, producerVars, PoolInv, PoolTypeOK, NoDuplicates, NoTxDropped
<1>6. QED
  BY <1>2, <1>3, <1>4, <1>5, ImportingPool DEF Next

\* Whatever the threads interleave, a transaction the node accepted is queued,
\* in the producer's hands or in a stored block.
THEOREM NothingDropped == Spec => []NoTxDropped
<1>1. PoolInv => NoTxDropped
  BY DEF PoolInv
<1>2. QED
  BY <1>1, InitPool, StepPool, PTL DEF Spec

\* And it is in one of the first two places only once.
THEOREM NothingDuplicated == Spec => []NoDuplicates
<1>1. PoolInv => NoDuplicates
  BY DEF PoolInv
<1>2. QED
  BY <1>1, InitPool, StepPool, PTL DEF Spec

-----------------------------------------------------------------------------
(* The counters of CountsExact are sums over the deque; every step changes  *)
(* one as it changes the other, drain and restart clear both.               *)
Held(pool, s) == SumFunctionOnSet(pool, From(s))

LEMMA FromFinite ==
    \A s : IsFiniteSet(From(s)) /\ \A t \in From(s) : t \in Txs
<1>1. ASSUME NEW s PROVE From(s) \in SUBSET Txs
  BY DEF From
<1> QED BY <1>1, FS_Subset, MempoolAssumption

\* What CountOf counts for a sender is what the deque holds of it.
LEMMA CountIsHeld ==
    ASSUME NEW pool
    PROVE  CountOf(pool) = [s \in Senders |-> Held(pool, s)]
<1>1. ASSUME NEW s \in Senders
      PROVE  SumFunction([t \in From(s) |-> pool[t]]) = Held(pool, s)
  <2> DEFINE part == [t \in From(s) |-> pool[t]]
  <2>1. \A t \in From(s) : part[t] = pool[t]
    OBVIOUS
  <2>2. SumFunction(part) = SumFunctionOnSet(part, From(s))
    BY DEF SumFunction, SumFunctionOnSet
  <2> HIDE DEF part
  <2>3. SumFunctionOnSet(part, From(s)) = SumFunctionOnSet(pool, From(s))
    BY <2>1, FromFinite, SumEqual
  <2>4. SumFunction(part) = Held(pool, s)
    BY <2>2, <2>3 DEF Held
  <2> QED BY <2>4 DEF part
<1> QED BY <1>1 DEF CountOf

\* The counters exactly: one number for every sender.
CountsHeld ==
    /\ senderCount = [s \in Senders |-> senderCount[s]]
    /\ \A s \in Senders : senderCount[s] = Held(mempool, s)

LEMMA CountsAreHeld == CountsHeld <=> CountsExact
<1>1. CountOf(mempool) = [s \in Senders |-> Held(mempool, s)]
  BY CountIsHeld
<1>2. CountsExact <=> senderCount = [s \in Senders |-> Held(mempool, s)]
  BY <1>1 DEF CountsExact
<1>3. CountsHeld => senderCount = [s \in Senders |-> Held(mempool, s)]
  BY DEF CountsHeld
<1>4. ASSUME senderCount = [s \in Senders |-> Held(mempool, s)] PROVE CountsHeld
  BY <1>4 DEF CountsHeld
<1> QED BY <1>2, <1>3, <1>4

LEMMA HeldOfEmpty == \A s : Held(Empty, s) = 0
<1>1. ASSUME NEW s PROVE Held(Empty, s) = 0
  <2>1. \A t \in From(s) : Empty[t] = 0
    BY FromFinite DEF Empty
  <2> QED BY <2>1, FromFinite, SumZero DEF Held
<1> QED BY <1>1

LEMMA HeldInt == ASSUME PoolInv, NEW s PROVE Held(mempool, s) \in Int
<1>1. \A t \in From(s) : mempool[t] \in Int
  BY FromFinite DEF PoolInv, PoolTypeOK
<1> QED BY <1>1, FromFinite, SumInt DEF Held

\* What one transaction more in the deque changes.
LEMMA HeldChange ==
    ASSUME NEW p, NEW q, NEW s, NEW t \in From(s),
           \A u \in Txs : p[u] \in Int, \A u \in Txs : q[u] \in Int,
           \A u \in Txs \ {t} : q[u] = p[u]
    PROVE  Held(q, s) = Held(p, s) - p[t] + q[t]
<1> DEFINE F == From(s)
<1>1. IsFiniteSet(F) /\ t \in F
  BY FromFinite
<1>2. \A u \in F : p[u] \in Int
  BY FromFinite
<1>3. \A u \in F : q[u] \in Int
  BY FromFinite
<1>4. \A u \in F \ {t} : q[u] = p[u]
  BY FromFinite
<1> HIDE DEF F
<1>5. SumFunctionOnSet(q, F) = SumFunctionOnSet(p, F) - p[t] + q[t]
  BY ONLY <1>1, <1>2, <1>3, <1>4, SumChange
<1> QED BY <1>5 DEF Held, F

LEMMA EmptyCounts == ASSUME mempool' = Empty, senderCount' = NoCount PROVE CountsHeld'
<1>1. \A s \in Senders : senderCount'[s] = Held(mempool, s)'
  <2>1. ASSUME NEW s \in Senders PROVE senderCount'[s] = Held(mempool, s)'
    <3>1. Held(mempool, s)' = Held(Empty, s)
      BY DEF Held, From
    <3> QED BY <3>1, HeldOfEmpty DEF NoCount
  <2> QED BY <2>1
<1>2. senderCount' = [s \in Senders |-> senderCount'[s]]
  BY DEF NoCount
<1> QED BY <1>1, <1>2 DEF CountsHeld

\* Putting a part of the batch back.
LEMMA ReinsertCounts ==
    ASSUME PoolInv, CountsHeld, NEW S \in SUBSET batch, ReinsertMempool(S)
    PROVE  CountsHeld'
<1> DEFINE R == Returning(S)
<1>1. senderCount' = [s \in Senders |-> senderCount[s] + Cardinality(R \cap From(s))]
  BY DEF ReinsertMempool
<1>2. \A t \in Txs : mempool'[t] = mempool[t] + IF t \in R THEN 1 ELSE 0
  BY DEF ReinsertMempool
<1> HIDE DEF R
<1>3. ASSUME NEW s \in Senders PROVE senderCount'[s] = Held(mempool, s)'
  <2>1. \A t \in From(s) : mempool[t] \in Int
    BY FromFinite DEF PoolInv, PoolTypeOK
  <2>2. \A t \in From(s) : mempool'[t] = mempool[t] + IF t \in R THEN 1 ELSE 0
    BY <1>2, FromFinite
  <2>3. SumFunctionOnSet(mempool', From(s))
          = SumFunctionOnSet(mempool, From(s)) + Cardinality(R \cap From(s))
    BY <2>1, <2>2, FromFinite, SumRaised
  <2>4. Held(mempool, s)' = Held(mempool, s) + Cardinality(R \cap From(s))
    BY <2>3 DEF Held, From
  <2>5. senderCount'[s] = senderCount[s] + Cardinality(R \cap From(s))
    BY <1>1
  <2> QED BY <2>4, <2>5 DEF CountsHeld
<1>4. senderCount' = [s \in Senders |-> senderCount'[s]]
  BY <1>1
<1> QED BY <1>3, <1>4 DEF CountsHeld

LEMMA ProducingCounts ==
    ASSUME PoolInv, CountsHeld, Producing
    PROVE  CountsHeld'
<1>1. CASE DrainMempool
  BY <1>1, EmptyCounts DEF DrainMempool
<1>2. CASE ReplayFails \/ SelfApplyFails
  BY <1>2, ReinsertCounts DEF ReplayFails, SelfApplyFails
<1>3. CASE SelfApply
  BY <1>3 DEF SelfApply, poolVars, CountsHeld, Held, From
<1>4. CASE \E applied \in SUBSET batch : Replay(applied)
  <2>1. PICK applied \in SUBSET batch : Replay(applied)
    BY <1>4
  <2>2. batch \ applied \in SUBSET batch
    OBVIOUS
  <2>3. ReinsertMempool(batch \ applied)
    BY <2>1 DEF Replay
  <2> QED BY <2>2, <2>3, ReinsertCounts
<1> QED BY <1>1, <1>2, <1>3, <1>4 DEF Producing

LEMMA SubmitCounts ==
    ASSUME PoolInv, CountsHeld, NEW t \in Txs, SubmitTx(t)
    PROVE  CountsHeld'
<1> DEFINE o == SenderOf[t]
<1>1. o \in Senders /\ t \in From(o) /\ \A s : s # o => t \notin From(s)
  BY MempoolAssumption DEF From
<1>2. /\ mempool' = [mempool EXCEPT ![t] = @ + 1]
      /\ senderCount' = [senderCount EXCEPT ![o] = @ + 1]
  BY DEF SubmitTx
<1>3. /\ \A u \in Txs : mempool[u] \in Int
      /\ \A u \in Txs : mempool'[u] \in Int
      /\ \A u \in Txs \ {t} : mempool'[u] = mempool[u]
      /\ mempool'[t] = mempool[t] + 1
  BY <1>2 DEF PoolInv, PoolTypeOK
<1> HIDE DEF o
<1>4. ASSUME NEW s \in Senders PROVE senderCount'[s] = Held(mempool, s)'
  <2>1. Held(mempool, s)' = SumFunctionOnSet(mempool', From(s))
    BY DEF Held, From
  <2>2. CASE s = o
    <3>1. t \in From(s)
      BY <1>1, <2>2
    <3>6. senderCount'[s] = senderCount[s] + 1
      BY <1>2, <2>2 DEF CountsHeld
    <3>7. Held(mempool, s) \in Int /\ senderCount[s] = Held(mempool, s)
      BY HeldInt DEF CountsHeld
    <3>8. Held(mempool', s) = Held(mempool, s) - mempool[t] + mempool'[t]
      BY <1>3, <3>1, HeldChange
    <3>9. Held(mempool', s) = SumFunctionOnSet(mempool', From(s))
      BY DEF Held
    <3> QED BY <1>3, <2>1, <3>9, <3>6, <3>7, <3>8
  <2>3. CASE s # o
    <3>1. \A u \in From(s) : mempool'[u] = mempool[u]
      BY <1>1, <1>3, <2>3, FromFinite
    <3>2. SumFunctionOnSet(mempool', From(s)) = SumFunctionOnSet(mempool, From(s))
      BY <3>1, FromFinite, SumEqual
    <3>3. senderCount'[s] = senderCount[s]
      BY <1>2, <2>3 DEF CountsHeld
    <3> QED BY <2>1, <3>2, <3>3 DEF CountsHeld, Held
  <2> QED BY <2>2, <2>3
<1>5. senderCount' = [s \in Senders |-> senderCount'[s]]
  BY <1>2 DEF CountsHeld
<1> QED BY <1>4, <1>5 DEF CountsHeld

LEMMA ImportingCounts ==
    ASSUME CountsHeld, Importing
    PROVE  CountsHeld'
<1>1. CASE ImportApplies \/ \E b \in PeerBlocks : ImportBlock(b)
  BY <1>1 DEF ImportApplies, ImportBlock, poolVars, CountsHeld, Held, From
<1>2. CASE ImportPrunes
  <2> DEFINE kept == [t \in Txs |-> IF t \in TxsIn[block] THEN 0 ELSE mempool[t]]
  <2>1. mempool' = kept /\ senderCount' = CountOf(kept)
    BY <1>2 DEF ImportPrunes
  <2> HIDE DEF kept
  <2>2. senderCount' = [s \in Senders |-> Held(kept, s)]
    BY <2>1, CountIsHeld
  <2>3. \A s \in Senders : Held(mempool, s)' = Held(kept, s)
    BY <2>1 DEF Held, From
  <2>4. \A s \in Senders : senderCount'[s] = Held(mempool, s)'
    BY <2>2, <2>3
  <2>5. senderCount' = [s \in Senders |-> senderCount'[s]]
    BY <2>2
  <2> QED BY <2>4, <2>5 DEF CountsHeld
<1> QED BY <1>1, <1>2 DEF Importing

LEMMA StepCounts ==
    ASSUME PoolInv, CountsHeld, [Next]_vars
    PROVE  CountsHeld'
<1>1. CASE \E t \in Txs : SubmitTx(t)
  BY <1>1, SubmitCounts
<1>2. CASE Restart
  BY <1>2, EmptyCounts DEF Restart, Fresh
<1>3. CASE UNCHANGED vars
  BY <1>3 DEF vars, poolVars, CountsHeld, Held, From
<1> QED BY <1>1, <1>2, <1>3, ProducingCounts, ImportingCounts DEF Next

\* For any transactions, blocks and caps, whichever of node.py's threads touched
\* the deque last, _sender_count is what the deque holds of each sender.
THEOREM CountsAlwaysExact == Spec => []CountsExact
<1>1. Init => CountsHeld
  <2>1. ASSUME Init PROVE CountsHeld
    <3>1. mempool = Empty /\ senderCount = NoCount
      BY <2>1 DEF Init
    <3>2. \A s \in Senders : senderCount[s] = Held(mempool, s)
      BY <3>1, HeldOfEmpty DEF NoCount
    <3> QED BY <3>1, <3>2 DEF CountsHeld, NoCount
  <2> QED BY <2>1
<1>2. PoolInv /\ ImportInv /\ CountsHeld /\ [Next]_vars => CountsHeld'
  BY StepCounts
<1>3. CountsHeld => CountsExact
  BY CountsAreHeld
<1> QED BY <1>1, <1>2, <1>3, InitPool, StepPool, PTL DEF Spec

-----------------------------------------------------------------------------
(***************************************************************************)
(* Gossip.  The strengthening: a block that a node has stored was heard by *)
(* a peer, or is on its way there (in a fan-out, in the hands of the QUIC  *)
(* thread, on a stream), or this send was given up.                        *)
(***************************************************************************)
OnItsWay(n, p, b) ==
    \/ \E f \in fan : f.at = n /\ f.to = p /\ f.what = b
    \/ \E t \in tasks : t.at = n /\ t.to = p /\ t.what = b
    \/ \E w \in wire : w.from = n /\ w.to = p /\ w.what = b

GossipTypes == stored \in [Nodes -> SUBSET Blocks] /\ seen \in [Nodes -> SUBSET Msgs]

Told(n, p, b) == b \in seen[p] \/ <<n, p, b>> \in lost \/ OnItsWay(n, p, b)

GossipInv ==
    /\ GossipTypes
    /\ \A n \in Nodes : \A p \in Peers[n], b \in stored[n] : Told(n, p, b)

LEMMA PeersAreNodes == ASSUME NEW n \in Nodes, NEW p \in Peers[n] PROVE p \in Nodes
BY GossipAssumption

LEMMA GossipInitInv == GossipInit => GossipInv
BY DEF GossipInit, GossipInv, GossipTypes

(* Blocks stay stored and heard, and what was given up stays so; so what is *)
(* left to look at is what was on its way and what is stored now.           *)
LEMMA StillTold ==
    ASSUME GossipInv, GossipTypes',
           \A n \in Nodes : seen[n] \subseteq seen'[n],
           lost \subseteq lost',
           \A n \in Nodes : \A p \in Peers[n], b \in stored[n] :
              OnItsWay(n, p, b) => Told(n, p, b)',
           \A n \in Nodes : \A p \in Peers[n], b \in stored'[n] \ stored[n] : Told(n, p, b)'
    PROVE  GossipInv'
<1> SUFFICES ASSUME NEW n \in Nodes, NEW p \in Peers[n], NEW b \in stored'[n]
             PROVE  Told(n, p, b)'
  BY DEF GossipInv
<1>1. CASE b \notin stored[n]
  BY <1>1
<1>2. CASE b \in stored[n]
  <2>1. Told(n, p, b)
    BY <1>2 DEF GossipInv
  <2>2. CASE OnItsWay(n, p, b)
    BY <1>2, <2>2
  <2>3. CASE b \in seen[p]
    BY <2>3, PeersAreNodes DEF Told
  <2>4. CASE <<n, p, b>> \in lost
    BY <2>4 DEF Told
  <2> QED BY <2>1, <2>2, <2>3, <2>4 DEF Told
<1> QED BY <1>1, <1>2

LEMMA PullTold ==
    ASSUME NEW n \in Nodes, NEW p \in Nodes, NEW b \in Blocks, GossipInv, Pull(n, p, b)
    PROVE  GossipInv'
<1>1. GossipTypes'
  BY DEF GossipInv, GossipTypes, Pull, Msgs
<1>2. \A m \in Nodes : seen[m] \subseteq seen'[m]
  BY DEF GossipInv, GossipTypes, Pull
<1>3. \A m \in Nodes : \A q \in Peers[m], c \in stored'[m] \ stored[m] : Told(m, q, c)'
  BY DEF GossipInv, GossipTypes, Pull, Told
<1>4. ASSUME NEW m \in Nodes, NEW q \in Peers[m], NEW c \in stored[m], OnItsWay(m, q, c)
      PROVE  Told(m, q, c)'
  BY <1>4 DEF OnItsWay, Pull, Told
<1> QED BY <1>1, <1>2, <1>3, <1>4, StillTold DEF Pull

(* A stop: what was under way from it or to it is counted as lost.          *)
LEMMA StopTold ==
    ASSUME NEW n \in Nodes, GossipInv, Stop(n)
    PROVE  GossipInv'
<1>1. GossipTypes'
  BY DEF GossipInv, GossipTypes, Stop
<1> SUFFICES ASSUME NEW m \in Nodes, NEW p \in Peers[m], NEW b \in stored'[m]
             PROVE  Told(m, p, b)'
  BY <1>1 DEF GossipInv
<1>2. b \in stored[m] /\ b \in Msgs /\ p \in Nodes /\ Told(m, p, b)
  BY PeersAreNodes DEF GossipInv, GossipTypes, Stop, Msgs
<1>3. CASE m = n
  BY <1>2, <1>3 DEF Stop, Told
<1>4. CASE p = n
  BY <1>2, <1>4 DEF Stop, Told
<1>5. CASE m # n /\ p # n
  <2>1. seen'[p] = seen[p] /\ lost \subseteq lost'
    BY <1>2, <1>5 DEF Stop, GossipInv, GossipTypes
  <2>2. OnItsWay(m, p, b) => OnItsWay(m, p, b)'
    BY <1>5 DEF Stop, OnItsWay
  <2> QED BY <1>2, <2>1, <2>2 DEF Told
<1> QED BY <1>3, <1>4, <1>5

(* A block stored now is handed to a fan-out to every peer.                 *)
LEMMA FanTold ==
    ASSUME NEW n \in Nodes, NEW b, NEW loop, Fan(n, b, loop) \subseteq fan'
    PROVE  \A p \in Peers[n] : OnItsWay(n, p, b)'
<1> SUFFICES ASSUME NEW p \in Peers[n] PROVE OnItsWay(n, p, b)'
  OBVIOUS
<1> DEFINE f == [at |-> n, to |-> p, what |-> b, loop |-> loop]
<1>1. f \in fan'
  BY DEF Fan
<1>2. f.at = n /\ f.to = p /\ f.what = b
  OBVIOUS
<1> HIDE DEF f
<1> QED BY <1>1, <1>2 DEF OnItsWay

LEMMA SealTold ==
    ASSUME NEW b \in Blocks, GossipInv, Seal(b)
    PROVE  GossipInv'
<1> DEFINE n == Origin[b]
<1>0. n \in Nodes
  BY GossipAssumption
<1>1. GossipTypes'
  BY DEF GossipInv, GossipTypes, Seal, Msgs
<1>2. \A m \in Nodes : seen[m] \subseteq seen'[m]
  BY DEF GossipInv, GossipTypes, Seal
<1>3. \A m \in Nodes : stored'[m] \ stored[m] \subseteq IF m = n THEN {b} ELSE {}
  BY DEF GossipInv, GossipTypes, Seal
<1>4. \A p \in Peers[n] : OnItsWay(n, p, b)'
  BY <1>0, FanTold DEF Seal
<1>5. \A m \in Nodes : \A q \in Peers[m], c \in stored'[m] \ stored[m] : Told(m, q, c)'
  BY <1>3, <1>4 DEF Told
<1>6. ASSUME NEW m \in Nodes, NEW q \in Peers[m], NEW c \in stored[m], OnItsWay(m, q, c)
      PROVE  Told(m, q, c)'
  BY <1>6 DEF OnItsWay, Seal, Told
<1> QED BY <1>1, <1>2, <1>5, <1>6, StillTold DEF Seal

(* A message on a stream is heard, and a block it stores is fanned out.     *)
LEMMA Heard ==
    ASSUME NEW n, NEW m \in Msgs, GossipTypes, seen' = [seen EXCEPT ![n] = @ \cup {m}]
    PROVE  seen' \in [Nodes -> SUBSET Msgs] /\ \A p \in Nodes : seen[p] \subseteq seen'[p]
BY DEF GossipTypes

LEMMA DispatchTold ==
    ASSUME NEW w \in wire, GossipInv, DispatchBlock(w)
    PROVE  GossipInv'
<1> DEFINE at == w.to
           got == w.what
<1>0. got \in Blocks /\ wire' = wire \ {w} /\ UNCHANGED <<tasks, lost>> /\ fan \subseteq fan'
  BY DEF DispatchBlock
<1>1. /\ seen' = [seen EXCEPT ![at] = @ \cup {got}]
      /\ stored' = stored \/ stored' = [stored EXCEPT ![at] = @ \cup {got}]
  BY DEF DispatchBlock
<1>2. GossipTypes' /\ \A m \in Nodes : seen[m] \subseteq seen'[m]
  <2> HIDE DEF at, got
  <2>1. got \in Msgs
    BY <1>0 DEF Msgs
  <2>2. seen' \in [Nodes -> SUBSET Msgs] /\ \A m \in Nodes : seen[m] \subseteq seen'[m]
    BY <1>1, <2>1, Heard DEF GossipInv
  <2>3. stored' \in [Nodes -> SUBSET Blocks]
    BY <1>0, <1>1 DEF GossipInv, GossipTypes
  <2> QED BY <2>2, <2>3 DEF GossipTypes
<1>3. ASSUME NEW m \in Nodes, NEW q \in Peers[m], NEW c \in stored'[m] \ stored[m]
      PROVE  Told(m, q, c)'
  <2>1. stored \in [Nodes -> SUBSET Blocks] /\ at \in DOMAIN stored /\ stored' # stored
    <3>1. stored \in [Nodes -> SUBSET Blocks] /\ stored' # stored
      BY <1>3 DEF GossipInv, GossipTypes
    <3> QED BY <1>1, <1>3, <3>1
  <2>2. stored' = [stored EXCEPT ![at] = @ \cup {got}] /\ Fan(at, got, TRUE) \subseteq fan'
    BY <2>1 DEF DispatchBlock
  <2>3. m = at /\ c = got
    BY <1>3, <2>1, <2>2
  <2> QED BY <2>2, <2>3, FanTold DEF Told
<1>4. ASSUME NEW m \in Nodes, NEW q \in Peers[m], NEW c \in stored[m], OnItsWay(m, q, c)
      PROVE  Told(m, q, c)'
  <2>1. CASE q = at /\ c = got
    <3>1. got \in seen'[at]
      BY <2>1, PeersAreNodes DEF GossipInv, GossipTypes, DispatchBlock
    <3> QED BY <2>1, <3>1 DEF Told
  <2>2. CASE ~ (q = at /\ c = got)
    BY <1>0, <1>4, <2>2 DEF OnItsWay, Told
  <2> QED BY <2>1, <2>2
<1> QED BY <1>0, <1>2, <1>3, <1>4, StillTold

LEMMA TransportTold == ASSUME GossipInv, Transport PROVE GossipInv'
<1>1. ASSUME NEW f \in fan, FanCached(f) \/ FanProbed(f)
      PROVE  GossipInv'
  <2> DEFINE t == [at |-> f.at, to |-> f.to, what |-> f.what]
  <2>1. /\ fan' = fan \ {f} /\ tasks' = tasks \cup {t}
        /\ UNCHANGED <<stored, seen, wire, lost>>
    BY <1>1 DEF FanCached, FanProbed, Schedule
  <2>2. t.at = f.at /\ t.to = f.to /\ t.what = f.what
    OBVIOUS
  <2> HIDE DEF t
  <2>3. ASSUME NEW m \in Nodes, NEW q \in Peers[m], NEW c \in stored[m], OnItsWay(m, q, c)
        PROVE  OnItsWay(m, q, c)'
    BY <2>1, <2>2, <2>3 DEF OnItsWay
  <2> QED BY <2>1, <2>3, StillTold DEF GossipInv, GossipTypes, Told
<1>2. ASSUME NEW f \in fan, FanDropped(f)
      PROVE  GossipInv'
  <2>1. ASSUME NEW m \in Nodes, NEW q \in Peers[m], NEW c \in stored[m], OnItsWay(m, q, c)
        PROVE  Told(m, q, c)'
    BY <1>2, <2>1 DEF OnItsWay, Told, FanDropped
  <2> QED BY <1>2, <2>1, StillTold DEF FanDropped, GossipInv, GossipTypes
<1>3. ASSUME NEW n \in Nodes, NEW p \in Nodes, Open(n, p)
      PROVE  GossipInv'
  BY <1>3 DEF Open, GossipInv, GossipTypes, Told, OnItsWay
<1>4. ASSUME NEW t \in tasks, OpenFails(t)
      PROVE  GossipInv'
  <2>1. ASSUME NEW m \in Nodes, NEW q \in Peers[m], NEW c \in stored[m], OnItsWay(m, q, c)
        PROVE  Told(m, q, c)'
    BY <1>4, <2>1 DEF OnItsWay, Told, OpenFails
  <2> QED BY <1>4, <2>1, StillTold DEF OpenFails, GossipInv, GossipTypes
<1>5. ASSUME NEW t \in tasks, SendMessage(t)
      PROVE  GossipInv'
  <2> DEFINE w == [from |-> t.at, to |-> t.to, boot |-> conn[t.at][t.to], what |-> t.what]
  <2>1. /\ tasks' = tasks \ {t} /\ wire' = wire \cup {w}
        /\ UNCHANGED <<stored, seen, fan, lost>>
    BY <1>5 DEF SendMessage
  <2>2. w.from = t.at /\ w.to = t.to /\ w.what = t.what
    OBVIOUS
  <2> HIDE DEF w
  <2>3. ASSUME NEW m \in Nodes, NEW q \in Peers[m], NEW c \in stored[m], OnItsWay(m, q, c)
        PROVE  OnItsWay(m, q, c)'
    BY <2>1, <2>2, <2>3 DEF OnItsWay
  <2> QED BY <2>1, <2>3, StillTold DEF GossipInv, GossipTypes, Told
<1>6. ASSUME NEW w \in wire, StreamLost(w)
      PROVE  GossipInv'
  <2>1. ASSUME NEW m \in Nodes, NEW q \in Peers[m], NEW c \in stored[m], OnItsWay(m, q, c)
        PROVE  Told(m, q, c)'
    BY <1>6, <2>1 DEF OnItsWay, Told, StreamLost
  <2> QED BY <1>6, <2>1, StillTold DEF StreamLost, GossipInv, GossipTypes
<1>7. ASSUME NEW w \in wire, DispatchTx(w)
      PROVE  GossipInv'
  <2>1. GossipTypes' /\ \A m \in Nodes : seen[m] \subseteq seen'[m]
    BY <1>7 DEF DispatchTx, GossipInv, GossipTypes, Msgs
  <2>2. w.what \notin Blocks
    BY <1>7, GossipAssumption DEF DispatchTx
  <2>3. ASSUME NEW m \in Nodes, NEW q \in Peers[m], NEW c \in stored[m], OnItsWay(m, q, c)
        PROVE  OnItsWay(m, q, c)'
    BY <1>7, <2>2, <2>3 DEF OnItsWay, DispatchTx, GossipInv, GossipTypes
  <2> QED BY <1>7, <2>1, <2>3, StillTold DEF DispatchTx, Told
<1> QED BY <1>1, <1>2, <1>3, <1>4, <1>5, <1>6, <1>7, DispatchTold DEF Transport

LEMMA GossipStepInv == ASSUME GossipInv, [GossipNext]_gossip PROVE GossipInv'
<1>1. CASE Transport
  BY <1>1, TransportTold
<1>2. CASE Life
  <2>1. ASSUME NEW n \in Nodes, Listen(n) \/ Up(n)
        PROVE  GossipInv'
    BY <2>1 DEF Listen, Up, GossipInv, GossipTypes, Told, OnItsWay
  <2>2. ASSUME NEW n \in Nodes, NEW p \in Nodes, PinExpires(n, p) \/ IdleTimeout(n, p)
        PROVE  GossipInv'
    BY <2>2 DEF PinExpires, IdleTimeout, GossipInv, GossipTypes, Told, OnItsWay
  <2> QED BY <1>2, <2>1, <2>2, StopTold, PullTold DEF Life
<1>3. CASE \E b \in Blocks : Seal(b)
  BY <1>3, SealTold
<1>4. ASSUME NEW tx \in GossipTxs, Submit(tx)
      PROVE  GossipInv'
  <2>1. GossipTypes' /\ \A m \in Nodes : seen[m] \subseteq seen'[m]
    BY <1>4 DEF Submit, GossipInv, GossipTypes, Msgs
  <2>2. ASSUME NEW m \in Nodes, NEW q \in Peers[m], NEW c \in stored[m], OnItsWay(m, q, c)
        PROVE  OnItsWay(m, q, c)'
    BY <1>4, <2>2 DEF OnItsWay, Submit
  <2> QED BY <1>4, <2>1, <2>2, StillTold DEF Submit, Told
<1>5. CASE UNCHANGED gossip
  BY <1>5 DEF gossip, GossipInv, GossipTypes, Told, OnItsWay
<1> QED BY <1>1, <1>2, <1>3, <1>4, <1>5 DEF GossipNext

(* Once the gossip has come to rest, every peer of a node that has stored a *)
(* block has heard of it, but for sends that were given up (HeardByPeers of *)
(* MormGossip): for every net of peers, any number of blocks, restarts and  *)
(* faults.                                                                  *)
THEOREM PeersAlwaysHeard == GossipSpec => []HeardByPeers
<1>1. GossipInv => HeardByPeers
  BY DEF GossipInv, HeardByPeers, Told, OnItsWay, Quiet
<1> QED BY <1>1, GossipInitInv, GossipStepInv, PTL DEF GossipSpec

-----------------------------------------------------------------------------
(***************************************************************************)
(* Seeds.  SeedInv: the list is in order after every source, it has the    *)
(* hosts of the sources already read, and no seed of a later one.          *)
(***************************************************************************)

(***************************************************************************)
(* A seed list built up from a list of URLs, one URL at a time.            *)
(***************************************************************************)
Adding(g, seeds, urls, source, n) ==
    g = [i \in 0..n |-> IF i = 0 THEN seeds ELSE Add(g[i - 1], urls[i], source)]

LEMMA AddAllIsChosen ==
    \A seeds, urls, source :
        AddAll(seeds, urls, source) = (CHOOSE g : Adding(g, seeds, urls, source, Len(urls)))[Len(urls)]
BY DEF AddAll, Adding

LEMMA AddingAt ==
    ASSUME NEW g, NEW seeds, NEW urls, NEW source, NEW n \in Nat,
           Adding(g, seeds, urls, source, n), NEW i \in 0..n
    PROVE  g[i] = IF i = 0 THEN seeds ELSE Add(g[i - 1], urls[i], source)
BY DEF Adding

LEMMA AddingOneMore ==
    ASSUME NEW seeds, NEW urls, NEW source, NEW n \in Nat, NEW g, Adding(g, seeds, urls, source, n)
    PROVE  \E h : Adding(h, seeds, urls, source, n + 1)
<1> DEFINE h == [i \in 0..(n + 1) |-> IF i = 0 THEN seeds ELSE Add(g[i - 1], urls[i], source)]
<1>1. ASSUME NEW i \in 0..(n + 1), i # 0 PROVE g[i - 1] = h[i - 1]
  <2>1. i - 1 \in 0..n /\ i - 1 \in 0..(n + 1)
    BY <1>1
  <2> QED BY <2>1, AddingAt
<1>2. h = [i \in 0..(n + 1) |-> IF i = 0 THEN seeds ELSE Add(h[i - 1], urls[i], source)]
  BY <1>1
<1>3. Adding(h, seeds, urls, source, n + 1)
  BY <1>2 DEF Adding
<1> QED BY <1>3

LEMMA AddingExists ==
    ASSUME NEW seeds, NEW urls, NEW source
    PROVE  \A n \in Nat : \E g : Adding(g, seeds, urls, source, n)
<1> DEFINE Bad == {n \in Nat : ~ \E g : Adding(g, seeds, urls, source, n)}
<1> SUFFICES ASSUME Bad # {} PROVE FALSE
  OBVIOUS
<1>1. PICK n \in Bad : \A m \in Bad : n <= m
  BY LeastNat
<1>2. CASE n = 0
  <2> DEFINE g == [i \in 0..0 |-> seeds]
  <2>1. g = [i \in 0..0 |-> IF i = 0 THEN seeds ELSE Add(g[i - 1], urls[i], source)]
    OBVIOUS
  <2>2. Adding(g, seeds, urls, source, 0)
    BY <2>1 DEF Adding
  <2> QED BY <1>2, <2>2
<1>3. CASE n # 0
  <2>1. n - 1 \in Nat /\ n - 1 \notin Bad /\ (n - 1) + 1 = n
    BY <1>1, <1>3
  <2>2. PICK g : Adding(g, seeds, urls, source, n - 1)
    BY <2>1
  <2>3. \E h : Adding(h, seeds, urls, source, (n - 1) + 1)
    BY <2>1, <2>2, AddingOneMore
  <2> QED BY <2>1, <2>3
<1> QED BY <1>2, <1>3

LEMMA AddAllSteps ==
    ASSUME NEW seeds, NEW urls, NEW source, Len(urls) \in Nat
    PROVE  \E g : Adding(g, seeds, urls, source, Len(urls)) /\ AddAll(seeds, urls, source) = g[Len(urls)]
<1>1. \E g : Adding(g, seeds, urls, source, Len(urls))
  BY AddingExists
<1> QED BY <1>1, AddAllIsChosen

(***************************************************************************)
(* What a list without the node itself is, one seed at a time.             *)
(***************************************************************************)
Keeping(g, seeds, n) ==
    g = [i \in 0..n |-> IF i = 0 THEN <<>>
                        ELSE IF seeds[i].url.host = Own THEN g[i - 1] ELSE Append(g[i - 1], seeds[i])]

LEMMA FilterIsChosen ==
    \A seeds : FilterOurselves(seeds) = (CHOOSE g : Keeping(g, seeds, Len(seeds)))[Len(seeds)]
BY DEF FilterOurselves, Keeping

LEMMA KeepingAt ==
    ASSUME NEW g, NEW seeds, NEW n \in Nat, Keeping(g, seeds, n), NEW i \in 0..n
    PROVE  g[i] = IF i = 0 THEN <<>>
                  ELSE IF seeds[i].url.host = Own THEN g[i - 1] ELSE Append(g[i - 1], seeds[i])
BY DEF Keeping

LEMMA KeepingOneMore ==
    ASSUME NEW seeds, NEW n \in Nat, NEW g, Keeping(g, seeds, n)
    PROVE  \E h : Keeping(h, seeds, n + 1)
<1> DEFINE h == [i \in 0..(n + 1) |-> IF i = 0 THEN <<>>
                    ELSE IF seeds[i].url.host = Own THEN g[i - 1] ELSE Append(g[i - 1], seeds[i])]
<1>1. ASSUME NEW i \in 0..(n + 1), i # 0 PROVE g[i - 1] = h[i - 1]
  <2>1. i - 1 \in 0..n /\ i - 1 \in 0..(n + 1)
    BY <1>1
  <2> QED BY <2>1, KeepingAt
<1>2. h = [i \in 0..(n + 1) |-> IF i = 0 THEN <<>>
             ELSE IF seeds[i].url.host = Own THEN h[i - 1] ELSE Append(h[i - 1], seeds[i])]
  BY <1>1
<1>3. Keeping(h, seeds, n + 1)
  BY <1>2 DEF Keeping
<1> QED BY <1>3

LEMMA KeepingExists ==
    ASSUME NEW seeds
    PROVE  \A n \in Nat : \E g : Keeping(g, seeds, n)
<1> DEFINE Bad == {n \in Nat : ~ \E g : Keeping(g, seeds, n)}
<1> SUFFICES ASSUME Bad # {} PROVE FALSE
  OBVIOUS
<1>1. PICK n \in Bad : \A m \in Bad : n <= m
  BY LeastNat
<1>2. CASE n = 0
  <2> DEFINE g == [i \in 0..0 |-> <<>>]
  <2>1. g = [i \in 0..0 |-> IF i = 0 THEN <<>>
               ELSE IF seeds[i].url.host = Own THEN g[i - 1] ELSE Append(g[i - 1], seeds[i])]
    OBVIOUS
  <2>2. Keeping(g, seeds, 0)
    BY <2>1 DEF Keeping
  <2> QED BY <1>2, <2>2
<1>3. CASE n # 0
  <2>1. n - 1 \in Nat /\ n - 1 \notin Bad /\ (n - 1) + 1 = n
    BY <1>1, <1>3
  <2>2. PICK g : Keeping(g, seeds, n - 1)
    BY <2>1
  <2>3. \E h : Keeping(h, seeds, (n - 1) + 1)
    BY <2>1, <2>2, KeepingOneMore
  <2> QED BY <2>1, <2>3
<1> QED BY <1>2, <1>3

LEMMA FilterSteps ==
    ASSUME NEW seeds, Len(seeds) \in Nat
    PROVE  \E g : Keeping(g, seeds, Len(seeds)) /\ FilterOurselves(seeds) = g[Len(seeds)]
<1>1. \E g : Keeping(g, seeds, Len(seeds))
  BY KeepingExists
<1> QED BY <1>1, FilterIsChosen

-----------------------------------------------------------------------------
(***************************************************************************)
(* The strengthening: what a seed list says of the sources read so far.    *)
(***************************************************************************)
URL == [host : Hosts, slash : BOOLEAN]
Sources == {"explicit", "local", "baked", "discovery"}
Seed == [url : [host : Hosts, slash : {FALSE}], source : Sources]
Known(seeds) == {seeds[i].url.host : i \in DOMAIN seeds}

\* Each host once, in the order of the sources, from the first that lists it.
Ordered(seeds) ==
    /\ seeds \in Seq(Seed)
    /\ \A i, j \in 1..Len(seeds) : i < j =>
         /\ seeds[i].url.host # seeds[j].url.host
         /\ Rank[seeds[i].source] <= Rank[seeds[j].source]
    /\ \A i \in 1..Len(seeds) :
         /\ seeds[i].url.host \in HostsOf(ListedBy(seeds[i].source))
         /\ \A s \in Sources : Rank[s] < Rank[seeds[i].source] =>
              seeds[i].url.host \notin HostsOf(ListedBy(s))

\* The same, with all hosts of the sources in `done`, and of none after `top`.
Listed(seeds, done, top) ==
    /\ Ordered(seeds)
    /\ \A i \in 1..Len(seeds) : Rank[seeds[i].source] <= top
    /\ \A s \in done : HostsOf(ListedBy(s)) \subseteq Known(seeds)

\* No source that comes before this one is still to be read.
InTurn(source, done) == \A s \in Sources : Rank[s] < Rank[source] => s \in done

StartInv ==
    /\ start.explicit \in Seq(URL)
    /\ SeedsFromDoc(start.data) \in Seq(URL) /\ SeedsFromDoc(start.baked) \in Seq(URL)
    /\ \A d \in {start.data, start.baked} : HookOf(d) # Absent => HookOf(d) \in Seq(URL)
    /\ start.explicit # <<>> => ListedBy("local") = {} /\ ListedBy("baked") = {}

DoneBy(stage) ==
    CASE stage = "explicit" -> {}
      [] stage = "local" -> {"explicit"}
      [] stage = "baked" -> {"explicit", "local"}
      [] OTHER -> {"explicit", "local", "baked"}
TopBy(stage) ==
    CASE stage = "explicit" -> 1 [] stage = "local" -> 2 [] stage = "baked" -> 3 [] OTHER -> 4

LoaderInv ==
    /\ loader \in {"explicit", "local", "baked", "local hook", "baked hook", "filter", "done"}
    /\ loader # "done" => Listed(found, DoneBy(loader), TopBy(loader))
    /\ loader \notin {"explicit", "done"} => start.explicit = <<>>
    /\ loader = "done" =>
         /\ Ordered(found)
         /\ \A h \in HostsOf(ListedBy("explicit") \cup ListedBy("local") \cup ListedBy("baked")) :
              h = Own \/ h \in Known(found)
         /\ start.public /\ start.explicit = <<>> => Own \notin Known(found)

NodeInv ==
    /\ node.state = "starting" => node = [state |-> "starting", peers |-> <<>>]
    /\ node.state = "running" => loader = "done" /\ node.peers = [i \in DOMAIN found |-> found[i].url]

SeedInv == StartInv /\ LoaderInv /\ NodeInv

LEMMA Ranks ==
    /\ Rank["explicit"] = 1 /\ Rank["local"] = 2 /\ Rank["baked"] = 3 /\ Rank["discovery"] = 4
    /\ DOMAIN Rank = Sources /\ \A s \in Sources : Rank[s] \in 1..4
BY DEF Rank, Sources

LEMMA SlashSet ==
    ASSUME NEW h, NEW a, NEW b
    PROVE  [[host |-> h, slash |-> a] EXCEPT !.slash = b] = [host |-> h, slash |-> b]
OBVIOUS

LEMMA AddKeeps ==
    ASSUME NEW done, NEW source \in Sources, NEW seeds, Listed(seeds, done, Rank[source]),
           NEW url \in URL, url \in ListedBy(source),
           InTurn(source, done)
    PROVE  /\ Listed(Add(seeds, url, source), done, Rank[source])
           /\ Known(Add(seeds, url, source)) = Known(seeds) \cup {url.host}
<1>1. PICK n \in Nat : n = Len(seeds) /\ DOMAIN seeds = 1..n /\ \A i \in 1..n : seeds[i] \in Seed
  BY DEF Listed, Ordered
<1>2. Normalize(url) = [host |-> url.host, slash |-> FALSE] /\ url.host \in Hosts
  <2>1. url = [host |-> url.host, slash |-> url.slash] /\ url.host \in Hosts
    BY DEF URL
  <2>2. [[host |-> url.host, slash |-> url.slash] EXCEPT !.slash = FALSE]
        = [host |-> url.host, slash |-> FALSE]
    BY SlashSet
  <2> QED BY <2>1, <2>2 DEF Normalize
<1>3. (\E i \in DOMAIN seeds : seeds[i].url = Normalize(url)) <=> url.host \in Known(seeds)
  <2>1. \A i \in 1..n : seeds[i].url = [host |-> seeds[i].url.host, slash |-> FALSE]
    BY <1>1 DEF Seed
  <2> QED BY <1>1, <1>2, <2>1 DEF Known
<1>4. CASE url.host \in Known(seeds)
  <2>1. Add(seeds, url, source) = seeds
    BY <1>3, <1>4 DEF Add
  <2> QED BY <1>4, <2>1
<1>5. CASE url.host \notin Known(seeds)
  <2> DEFINE x == [url |-> Normalize(url), source |-> source]
             w == Append(seeds, x)
  <2>1. Add(seeds, url, source) = w
    BY <1>3, <1>5 DEF Add
  <2>2. x \in Seed /\ x.url.host = url.host /\ x.source = source
    BY <1>2 DEF Seed
  <2> HIDE DEF x
  <2>3. /\ w \in Seq(Seed) /\ Len(w) = n + 1 /\ DOMAIN w = 1..(n + 1) /\ w[n + 1] = x
        /\ \A i \in 1..n : w[i] = seeds[i]
    BY <1>1, <2>2 DEF Listed, Ordered
  <2> HIDE DEF w
  <2>4. 1..(n + 1) = (1..n) \cup {n + 1}
    BY <1>1
  <2>5. Known(w) = Known(seeds) \cup {url.host}
    BY <1>1, <2>2, <2>3, <2>4 DEF Known
  <2>6. \A i \in 1..n : seeds[i].url.host # url.host /\ Rank[seeds[i].source] <= Rank[source]
    BY <1>1, <1>5 DEF Known, Listed
  <2>7. ASSUME NEW i \in 1..(n + 1), NEW j \in 1..(n + 1), i < j
        PROVE  w[i].url.host # w[j].url.host /\ Rank[w[i].source] <= Rank[w[j].source]
    <3>1. i \in 1..n
      BY <1>1, <2>7
    <3>2. CASE j \in 1..n
      BY <1>1, <2>3, <2>7, <3>1, <3>2 DEF Listed, Ordered
    <3>3. CASE j = n + 1
      BY <2>2, <2>3, <2>6, <3>1, <3>3
    <3> QED BY <2>4, <3>2, <3>3
  <2>8. /\ url.host \in HostsOf(ListedBy(source))
        /\ \A s \in Sources : Rank[s] < Rank[source] => url.host \notin HostsOf(ListedBy(s))
    BY <1>5 DEF Listed, HostsOf, InTurn
  <2>9. ASSUME NEW i \in 1..(n + 1)
        PROVE  /\ w[i].url.host \in HostsOf(ListedBy(w[i].source))
               /\ \A s \in Sources : Rank[s] < Rank[w[i].source] =>
                    w[i].url.host \notin HostsOf(ListedBy(s))
               /\ Rank[w[i].source] <= Rank[source]
    <3>1. CASE i \in 1..n
      BY <1>1, <2>3, <2>6, <3>1 DEF Listed, Ordered
    <3>2. CASE i = n + 1
      BY <2>2, <2>3, <2>8, <3>2, Ranks
    <3> QED BY <2>4, <3>1, <3>2
  <2>10. Ordered(w)
    BY <2>3, <2>7, <2>9 DEF Ordered
  <2>11. Listed(w, done, Rank[source])
    BY <2>3, <2>5, <2>9, <2>10 DEF Listed
  <2> QED BY <2>1, <2>5, <2>11
<1> QED BY <1>4, <1>5

LEMMA AddAllKeeps ==
    ASSUME NEW done, NEW source \in Sources, NEW seeds, Listed(seeds, done, Rank[source]),
           NEW urls \in Seq(URL), ToSet(urls) \subseteq ListedBy(source),
           InTurn(source, done)
    PROVE  /\ Listed(AddAll(seeds, urls, source), done, Rank[source])
           /\ Known(seeds) \cup HostsOf(ToSet(urls)) \subseteq Known(AddAll(seeds, urls, source))
<1>1. PICK n \in Nat : n = Len(urls) /\ DOMAIN urls = 1..n /\ \A i \in 1..n : urls[i] \in URL
  OBVIOUS
<1>2. PICK g : Adding(g, seeds, urls, source, n) /\ AddAll(seeds, urls, source) = g[n]
  BY <1>1, AddAllSteps
<1> DEFINE Fine(i) == /\ Listed(g[i], done, Rank[source])
                      /\ Known(seeds) \cup {urls[k].host : k \in 1..i} \subseteq Known(g[i])
           Bad == {i \in Nat : i <= n /\ ~ Fine(i)}
<1>3. Bad = {}
  <2> SUFFICES ASSUME Bad # {} PROVE FALSE
    OBVIOUS
  <2>1. PICK i \in Bad : \A j \in Bad : i <= j
    BY LeastNat
  <2>2. i \in 0..n /\ ~ Fine(i)
    BY <2>1
  <2>3. g[i] = IF i = 0 THEN seeds ELSE Add(g[i - 1], urls[i], source)
    BY <1>2, <2>2, AddingAt
  <2>4. CASE i = 0
    <3>1. {urls[k].host : k \in 1..0} = {}
      OBVIOUS
    <3> QED BY <2>2, <2>3, <2>4, <3>1
  <2>5. CASE i # 0
    <3>1. i - 1 \in Nat /\ i \in 1..n /\ i - 1 \notin Bad /\ i - 1 <= n
      BY <2>1, <2>2, <2>5
    <3>2. Fine(i - 1)
      BY <3>1
    <3>3. urls[i] \in URL /\ urls[i] \in ListedBy(source)
      BY <1>1, <3>1 DEF ToSet
    <3>0. g[i] = Add(g[i - 1], urls[i], source) /\ Listed(g[i - 1], done, Rank[source])
      BY <2>3, <2>5, <3>2
    <3>4. /\ Listed(g[i], done, Rank[source])
          /\ Known(g[i]) = Known(g[i - 1]) \cup {urls[i].host}
      <4> HIDE DEF Fine, Bad
      <4>1. PICK before : before = g[i - 1]
        OBVIOUS
      <4>2. PICK x \in URL : x = urls[i]
        BY <3>3
      <4>3. Listed(before, done, Rank[source]) /\ x \in ListedBy(source)
            /\ g[i] = Add(before, x, source)
        BY <3>0, <3>3, <4>1, <4>2
      <4>5. /\ Listed(Add(before, x, source), done, Rank[source])
            /\ Known(Add(before, x, source)) = Known(before) \cup {x.host}
        BY <4>3, AddKeeps
      <4> QED BY <4>1, <4>2, <4>3, <4>5
    <3>5. 1..i = 1..(i - 1) \cup {i}
      BY <3>1
    <3>6. {urls[k].host : k \in 1..i} = {urls[k].host : k \in 1..(i - 1)} \cup {urls[i].host}
      BY <3>5
    <3> QED BY <2>2, <3>2, <3>4, <3>6
  <2> QED BY <2>4, <2>5
<1>4. Fine(n)
  BY <1>1, <1>3
<1>5. HostsOf(ToSet(urls)) = {urls[k].host : k \in 1..n}
  BY <1>1 DEF HostsOf, ToSet
<1> QED BY <1>2, <1>4, <1>5

InOrder(seeds, n, x, y) ==
    \E k, l \in DOMAIN seeds : k < l /\ l <= n /\ x = seeds[k] /\ y = seeds[l]

\* What is left of the first n seeds, in their order.
Kept(w, seeds, n) ==
    /\ w \in Seq(Seed)
    /\ \A p \in DOMAIN w : \E k \in DOMAIN seeds :
         k <= n /\ w[p] = seeds[k] /\ seeds[k].url.host # Own
    /\ \A p, q \in DOMAIN w : p < q => InOrder(seeds, n, w[p], w[q])
    /\ \A k \in DOMAIN seeds : k <= n /\ seeds[k].url.host # Own => \E p \in DOMAIN w : w[p] = seeds[k]

LEMMA KeptOneMore ==
    ASSUME NEW seeds \in Seq(Seed), NEW k \in DOMAIN seeds, NEW w, Kept(w, seeds, k - 1)
    PROVE  Kept(IF seeds[k].url.host = Own THEN w ELSE Append(w, seeds[k]), seeds, k)
<1>1. k \in Nat /\ DOMAIN seeds \subseteq Nat /\ seeds[k] \in Seed
  OBVIOUS
<1>2. \A l \in DOMAIN seeds : l <= k <=> l <= k - 1 \/ l = k
  BY <1>1
<1>3. CASE seeds[k].url.host = Own
  <2>1. \A l \in DOMAIN seeds : l <= k - 1 => l <= k
    BY <1>2
  <2>2. \A l \in DOMAIN seeds : l <= k /\ seeds[l].url.host # Own => l <= k - 1
    BY <1>2, <1>3
  <2>3. \A x, y : InOrder(seeds, k - 1, x, y) => InOrder(seeds, k, x, y)
    BY <2>1 DEF InOrder
  <2>4. \A p \in DOMAIN w : \E l \in DOMAIN seeds : l <= k /\ w[p] = seeds[l] /\ seeds[l].url.host # Own
    BY <2>1 DEF Kept
  <2>5. \A l \in DOMAIN seeds : l <= k /\ seeds[l].url.host # Own => \E p \in DOMAIN w : w[p] = seeds[l]
    BY <2>2 DEF Kept
  <2>6. Kept(w, seeds, k)
    <3>1. w \in Seq(Seed) /\ \A p, q \in DOMAIN w : p < q => InOrder(seeds, k, w[p], w[q])
      BY <2>3 DEF Kept
    <3> QED BY <2>4, <2>5, <3>1 DEF Kept
  <2> QED BY <1>3, <2>6
<1>4. CASE seeds[k].url.host # Own
  <2> DEFINE v == Append(w, seeds[k])
  <2>1. PICK m \in Nat : m = Len(w) /\ DOMAIN w = 1..m
    BY DEF Kept
  <2>2. v \in Seq(Seed) /\ DOMAIN v = 1..(m + 1) /\ v[m + 1] = seeds[k] /\ \A p \in 1..m : v[p] = w[p]
    BY <1>1, <2>1 DEF Kept
  <2>3. \A p \in 1..(m + 1) : p \in 1..m \/ p = m + 1
    BY <2>1
  <2> HIDE DEF v
  <2>4. ASSUME NEW p \in 1..(m + 1)
        PROVE  \E l \in DOMAIN seeds : l <= k /\ v[p] = seeds[l] /\ seeds[l].url.host # Own
    <3>1. CASE p \in 1..m
      <4>1. PICK l \in DOMAIN seeds : l <= k - 1 /\ w[p] = seeds[l] /\ seeds[l].url.host # Own
        BY <2>1, <3>1 DEF Kept
      <4> QED BY <1>2, <2>2, <3>1, <4>1
    <3>2. CASE p = m + 1
      BY <1>1, <1>4, <2>2, <3>2
    <3> QED BY <2>3, <3>1, <3>2
  <2>5. ASSUME NEW p \in 1..(m + 1), NEW q \in 1..(m + 1), p < q
        PROVE  InOrder(seeds, k, v[p], v[q])
    <3>1. p \in 1..m
      BY <2>1, <2>5
    <3>2. CASE q \in 1..m
      <4>1. InOrder(seeds, k - 1, w[p], w[q])
        BY <2>1, <2>5, <3>1, <3>2 DEF Kept
      <4>2. v[p] = w[p] /\ v[q] = w[q]
        BY <2>2, <3>1, <3>2
      <4> QED BY <1>2, <4>1, <4>2 DEF InOrder
    <3>3. CASE q = m + 1
      <4>1. PICK j \in DOMAIN seeds : j <= k - 1 /\ w[p] = seeds[j]
        BY <2>1, <3>1 DEF Kept
      <4>2. j < k /\ k <= k
        BY <1>1, <4>1
      <4> QED BY <2>2, <3>1, <3>3, <4>1, <4>2 DEF InOrder
    <3> QED BY <2>3, <3>2, <3>3
  <2>6. ASSUME NEW l \in DOMAIN seeds, l <= k, seeds[l].url.host # Own
        PROVE  \E p \in 1..(m + 1) : v[p] = seeds[l]
    <3>1. CASE l <= k - 1
      <4>1. PICK p \in 1..m : w[p] = seeds[l]
        BY <2>1, <2>6, <3>1 DEF Kept
      <4>2. p \in 1..(m + 1)
        BY <2>1
      <4> QED BY <2>2, <4>1, <4>2
    <3>2. CASE l = k
      <4>1. m + 1 \in 1..(m + 1)
        BY <2>1
      <4> QED BY <2>2, <3>2, <4>1
    <3> QED BY <1>2, <2>6, <3>1, <3>2
  <2>7. Kept(v, seeds, k)
    <3>1. \A p, q \in 1..(m + 1) : p < q => InOrder(seeds, k, v[p], v[q])
      BY <2>5
    <3> QED BY <2>2, <2>4, <2>6, <3>1 DEF Kept
  <2> QED BY <1>4, <2>7 DEF v
<1> QED BY <1>3, <1>4

LEMMA KeptAll == ASSUME NEW seeds \in Seq(Seed) PROVE Kept(FilterOurselves(seeds), seeds, Len(seeds))
<1>1. PICK n \in Nat : n = Len(seeds) /\ DOMAIN seeds = 1..n
  OBVIOUS
<1>2. PICK g : Keeping(g, seeds, n) /\ FilterOurselves(seeds) = g[n]
  BY <1>1, FilterSteps
<1> DEFINE Bad == {i \in Nat : i <= n /\ ~ Kept(g[i], seeds, i)}
<1>3. ASSUME Bad # {} PROVE FALSE
  <2>1. PICK i \in Bad : \A j \in Bad : i <= j
    BY <1>3, LeastNat
  <2>2. i \in 0..n /\ ~ Kept(g[i], seeds, i)
    BY <2>1
  <2>3. g[i] = IF i = 0 THEN <<>>
               ELSE IF seeds[i].url.host = Own THEN g[i - 1] ELSE Append(g[i - 1], seeds[i])
    BY <1>2, <2>2, KeepingAt
  <2>4. CASE i = 0
    <3>1. <<>> \in Seq(Seed) /\ DOMAIN <<>> = {} /\ \A k \in DOMAIN seeds : ~ k <= 0
      BY <1>1
    <3>2. Kept(<<>>, seeds, 0)
      BY <3>1 DEF Kept
    <3> QED BY <2>2, <2>3, <2>4, <3>2
  <2>5. CASE i # 0
    <3>1. i - 1 \in Nat /\ i \in DOMAIN seeds /\ i - 1 \notin Bad /\ i - 1 <= n
      BY <1>1, <2>1, <2>2, <2>5
    <3>2. Kept(g[i - 1], seeds, i - 1)
      BY <3>1
    <3>3. Kept(IF seeds[i].url.host = Own THEN g[i - 1] ELSE Append(g[i - 1], seeds[i]), seeds, i)
      BY <3>1, <3>2, KeptOneMore
    <3> QED BY <2>2, <2>3, <2>5, <3>3
  <2> QED BY <2>4, <2>5
<1>4. Kept(g[n], seeds, n)
  BY <1>1, <1>3
<1> QED BY <1>1, <1>2, <1>4

LEMMA FilterKeeps ==
    ASSUME NEW seeds, Ordered(seeds)
    PROVE  /\ Ordered(FilterOurselves(seeds))
           /\ Own \notin Known(FilterOurselves(seeds))
           /\ Known(seeds) \ {Own} \subseteq Known(FilterOurselves(seeds))
<1>1. seeds \in Seq(Seed) /\ DOMAIN seeds = 1..Len(seeds) /\ Len(seeds) \in Nat
  BY DEF Ordered
<1> DEFINE w == FilterOurselves(seeds)
<1>2. Kept(w, seeds, Len(seeds))
  BY <1>1, KeptAll
<1> HIDE DEF w
<1>3. w \in Seq(Seed) /\ DOMAIN w = 1..Len(w)
  BY <1>2 DEF Kept
<1>4. ASSUME NEW p \in 1..Len(w), NEW q \in 1..Len(w), p < q
      PROVE  w[p].url.host # w[q].url.host /\ Rank[w[p].source] <= Rank[w[q].source]
  <2>1. InOrder(seeds, Len(seeds), w[p], w[q])
    BY <1>2, <1>3, <1>4 DEF Kept
  <2>2. PICK k \in DOMAIN seeds, l \in DOMAIN seeds : k < l /\ w[p] = seeds[k] /\ w[q] = seeds[l]
    BY <2>1 DEF InOrder
  <2> QED BY <1>1, <2>2 DEF Ordered
<1>5. ASSUME NEW p \in 1..Len(w)
      PROVE  /\ w[p].url.host \in HostsOf(ListedBy(w[p].source))
             /\ \A s \in Sources : Rank[s] < Rank[w[p].source] => w[p].url.host \notin HostsOf(ListedBy(s))
  <2>1. PICK k \in DOMAIN seeds : w[p] = seeds[k]
    BY <1>2, <1>3 DEF Kept
  <2> QED BY <1>1, <2>1 DEF Ordered
<1>6. Ordered(w)
  BY <1>3, <1>4, <1>5 DEF Ordered
<1>7. \A p \in DOMAIN w : w[p].url.host # Own
  BY <1>2 DEF Kept
<1>8. \A k \in DOMAIN seeds : seeds[k].url.host # Own => \E p \in DOMAIN w : w[p] = seeds[k]
  BY <1>1, <1>2 DEF Kept
<1>9. Own \notin Known(w) /\ Known(seeds) \ {Own} \subseteq Known(w)
  BY <1>7, <1>8 DEF Known
<1> QED BY <1>6, <1>9 DEF w

LEMMA Further ==
    ASSUME NEW seeds, NEW done, NEW top \in 1..4, Listed(seeds, done, top),
           NEW more, \A s \in more : HostsOf(ListedBy(s)) \subseteq Known(seeds),
           NEW higher \in 1..4, top <= higher
    PROVE  Listed(seeds, done \cup more, higher)
<1>1. \A i \in 1..Len(seeds) : seeds[i].source \in Sources
  <2>1. \A i \in 1..Len(seeds) : seeds[i] \in Seed
    BY DEF Listed, Ordered
  <2> QED BY <2>1 DEF Seed
<1>2. \A i \in 1..Len(seeds) : Rank[seeds[i].source] <= higher
  BY <1>1, Ranks DEF Listed
<1> QED BY <1>2 DEF Listed

LEMMA FoundFixed ==
    ASSUME start' = start, NEW done, NEW top, Listed(found', done, top)
    PROVE  Listed(found, done, top)'
BY DEF Listed, Ordered, ListedBy, Known

LEMMA OrderedFixed == ASSUME start' = start, Ordered(found') PROVE Ordered(found)'
BY DEF Ordered, ListedBy

LEMMA ListedByFixed ==
    ASSUME start' = start
    PROVE  /\ ListedBy("explicit")' = ListedBy("explicit")
           /\ ListedBy("local")' = ListedBy("local")
           /\ ListedBy("baked")' = ListedBy("baked")
BY DEF ListedBy

LEMMA LoadedFixed ==
    ASSUME start' = start, loader' = "done", Ordered(found'),
           \A h \in HostsOf(ListedBy("explicit") \cup ListedBy("local") \cup ListedBy("baked")) :
              h = Own \/ h \in Known(found'),
           start.public /\ start.explicit = <<>> => Own \notin Known(found')
    PROVE  LoaderInv'
<1>1. Ordered(found)'
  BY OrderedFixed
<1>2. Known(found)' = Known(found')
  BY DEF Known
<1> QED BY <1>1, <1>2, ListedByFixed DEF LoaderInv

LEMMA LoaderFixed ==
    ASSUME SeedInv, start' = start, loader' = loader, found' = found
    PROVE  StartInv' /\ LoaderInv'
<1>1. StartInv'
  BY DEF SeedInv, StartInv, ListedBy
<1>2. CASE loader = "done"
  <2>1. /\ Ordered(found)
        /\ \A h \in HostsOf(ListedBy("explicit") \cup ListedBy("local") \cup ListedBy("baked")) :
             h = Own \/ h \in Known(found)
        /\ start.public /\ start.explicit = <<>> => Own \notin Known(found)
    BY <1>2 DEF SeedInv, LoaderInv
  <2>2. Ordered(found') /\ Known(found') = Known(found)
    BY <2>1
  <2> QED BY <1>1, <1>2, <2>1, <2>2, LoadedFixed
<1>3. CASE loader # "done"
  <2>1. Listed(found, DoneBy(loader), TopBy(loader))
    BY <1>3 DEF SeedInv, LoaderInv
  <2>2. PICK done, top : done = DoneBy(loader) /\ top = TopBy(loader)
    OBVIOUS
  <2>3. Listed(found, done, top)'
    BY <2>1, <2>2, FoundFixed
  <2>4. done = DoneBy(loader)' /\ top = TopBy(loader)'
    BY <2>2 DEF DoneBy, TopBy
  <2>5. Listed(found, DoneBy(loader), TopBy(loader))'
    BY <2>3, <2>4
  <2>6. loader' \in {"explicit", "local", "baked", "local hook", "baked hook", "filter"}
        /\ (loader' \notin {"explicit", "done"} => start'.explicit = <<>>)
    BY <1>3 DEF SeedInv, LoaderInv
  <2> QED BY <1>1, <2>5, <2>6 DEF LoaderInv
<1> QED BY <1>1, <1>2, <1>3

LEMMA SeedInitInv == SeedInit => SeedInv
<1> SUFFICES ASSUME SeedInit PROVE SeedInv
  OBVIOUS
<1>1. \A l \in SeedLists : l \in Seq(URL)
  BY SeedAssumption DEF URL
<1>2. start.explicit \in SeedLists \cup {<<>>} /\ start.data \in Documents /\ start.baked \in Documents
  BY DEF SeedInit, Documents
<1>3. \A d \in Documents : SeedsFromDoc(d) \in Seq(URL) /\ (HookOf(d) # Absent => HookOf(d) \in Seq(URL))
  BY <1>1 DEF Documents, SeedsFromDoc, HookOf
<1>4. start.explicit # <<>> => start.data = Absent /\ start.baked = Absent
  BY DEF SeedInit
<1>5. ToSet(<<>>) = {}
  BY DEF ToSet
<1>6. StartInv
  <2>1. start.explicit \in Seq(URL)
    <3>1. <<>> \in Seq(URL)
      OBVIOUS
    <3>2. start.explicit \in SeedLists \/ start.explicit = <<>>
      BY <1>2
    <3> QED BY <1>1, <3>1, <3>2
  <2>2. start.explicit # <<>> => ListedBy("local") = {} /\ ListedBy("baked") = {}
    BY <1>4, <1>5 DEF ListedBy, SeedsFromDoc
  <2> QED BY <1>2, <1>3, <2>1, <2>2 DEF StartInv
<1>7. loader = "explicit" /\ found = <<>> /\ node = [state |-> "starting", peers |-> <<>>]
  BY DEF SeedInit
<1>8. Listed(<<>>, {}, 1)
  <2>1. <<>> \in Seq(Seed) /\ 1..Len(<<>>) = {}
    OBVIOUS
  <2> QED BY <2>1 DEF Listed, Ordered
<1>9. LoaderInv
  BY <1>7, <1>8 DEF LoaderInv, DoneBy, TopBy
<1>10. NodeInv
  BY <1>7 DEF NodeInv
<1> QED BY <1>6, <1>9, <1>10 DEF SeedInv

\* A step of the loader leaves the rest of the node alone.
LEMMA LoadingKeeps ==
    ASSUME SeedInv, NEW from, NEW to, NEW seeds, Loading(from, to, seeds), from # "done",
           to \in {"local", "baked", "local hook", "baked hook", "filter"}, start.explicit = <<>>,
           Listed(seeds, DoneBy(to), TopBy(to))
    PROVE  SeedInv'
<1>1. start' = start /\ node' = node /\ loader = from /\ loader' = to /\ found' = seeds
  BY DEF Loading
<1>2. StartInv'
  BY <1>1 DEF SeedInv, StartInv, ListedBy
<1>3. Listed(found, DoneBy(to), TopBy(to))'
  BY <1>1, FoundFixed
<1>4. LoaderInv'
  BY <1>1, <1>3 DEF LoaderInv
<1>5. NodeInv'
  BY <1>1 DEF SeedInv, NodeInv
<1> QED BY <1>2, <1>4, <1>5 DEF SeedInv

\* The loader's last step: the list is in order, lacks nobody but the node itself.
LEMMA LoadedKeeps ==
    ASSUME SeedInv, NEW from, NEW seeds, Loading(from, "done", seeds), from # "done", Ordered(seeds),
           \A h \in HostsOf(ListedBy("explicit") \cup ListedBy("local") \cup ListedBy("baked")) :
              h = Own \/ h \in Known(seeds),
           start.public /\ start.explicit = <<>> => Own \notin Known(seeds)
    PROVE  SeedInv'
<1>1. start' = start /\ node' = node /\ loader = from /\ loader' = "done" /\ found' = seeds
  BY DEF Loading
<1>2. StartInv'
  BY <1>1 DEF SeedInv, StartInv, ListedBy
<1>3. LoaderInv'
  BY <1>1, LoadedFixed
<1>4. NodeInv'
  BY <1>1 DEF SeedInv, NodeInv
<1> QED BY <1>2, <1>3, <1>4 DEF SeedInv

LEMMA TakeExplicitKeeps == SeedInv /\ TakeExplicit => SeedInv'
<1> SUFFICES ASSUME SeedInv, TakeExplicit PROVE SeedInv'
  OBVIOUS
<1>1. Listed(found, {}, 1)
  BY DEF TakeExplicit, Loading, SeedInv, LoaderInv, DoneBy, TopBy
<1>2. CASE start.explicit # <<>>
  <2> DEFINE seeds == AddAll(found, start.explicit, "explicit")
  <2>1. ListedBy("explicit") = ToSet(start.explicit) /\ start.explicit \in Seq(URL) /\ "explicit" \in Sources
    BY DEF ListedBy, SeedInv, StartInv, Sources
  <2>2. InTurn("explicit", {}) /\ Rank["explicit"] = 1
    BY Ranks DEF InTurn
  <2>3. Listed(seeds, {}, 1) /\ HostsOf(ToSet(start.explicit)) \subseteq Known(seeds)
    BY <1>1, <2>1, <2>2, AddAllKeeps
  <2> HIDE DEF seeds
  <2>4. \A h \in HostsOf(ListedBy("explicit") \cup ListedBy("local") \cup ListedBy("baked")) :
           h = Own \/ h \in Known(seeds)
    BY <1>2, <2>1, <2>3 DEF SeedInv, StartInv
  <2>5. Loading("explicit", "done", seeds)
    BY <1>2 DEF TakeExplicit, seeds
  <2> QED BY <1>2, <2>3, <2>4, <2>5, LoadedKeeps DEF Listed
<1>3. CASE start.explicit = <<>>
  <2>1. \A s \in {"explicit"} : HostsOf(ListedBy(s)) \subseteq Known(found)
    BY <1>3 DEF ListedBy, ToSet, HostsOf
  <2>2. Listed(found, {} \cup {"explicit"}, 2)
    BY <1>1, <2>1, Further
  <2>3. Listed(found, DoneBy("local"), TopBy("local"))
    BY <2>2 DEF DoneBy, TopBy
  <2> QED BY <1>3, <2>3, LoadingKeeps DEF TakeExplicit
<1> QED BY <1>2, <1>3

LEMMA TakeLocalKeeps == SeedInv /\ TakeLocal => SeedInv'
<1> SUFFICES ASSUME SeedInv, TakeLocal PROVE SeedInv'
  OBVIOUS
<1> DEFINE urls == SeedsFromDoc(start.data)
           seeds == AddAll(found, urls, "local")
<1>1. Listed(found, {"explicit"}, 2) /\ start.explicit = <<>>
  BY DEF TakeLocal, Loading, SeedInv, LoaderInv, DoneBy, TopBy
<1>2. ListedBy("local") = ToSet(urls) /\ urls \in Seq(URL) /\ "local" \in Sources
  BY DEF ListedBy, SeedInv, StartInv, Sources
<1>3. InTurn("local", {"explicit"}) /\ Rank["local"] = 2
  BY Ranks DEF InTurn, Sources
<1> HIDE DEF urls
<1>4. Listed(seeds, {"explicit"}, 2) /\ HostsOf(ToSet(urls)) \subseteq Known(seeds)
  <2>1. Listed(found, {"explicit"}, Rank["local"]) /\ ToSet(urls) \subseteq ListedBy("local")
    BY <1>1, <1>2, <1>3
  <2>2. /\ Listed(AddAll(found, urls, "local"), {"explicit"}, Rank["local"])
        /\ Known(found) \cup HostsOf(ToSet(urls)) \subseteq Known(AddAll(found, urls, "local"))
    BY <1>2, <1>3, <2>1, AddAllKeeps
  <2> QED BY <1>3, <2>2
<1> HIDE DEF seeds
<1>5. Listed(seeds, {"explicit"} \cup {"local"}, 3)
  <2>1. \A s \in {"local"} : HostsOf(ListedBy(s)) \subseteq Known(seeds)
    BY <1>2, <1>4
  <2>2. PICK before, more : before = {"explicit"} /\ more = {"local"}
    OBVIOUS
  <2>3. Listed(seeds, before \cup more, 3)
    BY <1>4, <2>1, <2>2, Further
  <2> QED BY <2>2, <2>3
<1>6. {"explicit"} \cup {"local"} = {"explicit", "local"}
  OBVIOUS
<1>7. Listed(seeds, DoneBy("baked"), TopBy("baked"))
  BY <1>5, <1>6 DEF DoneBy, TopBy
<1>8. Loading("local", "baked", seeds)
  BY DEF TakeLocal, seeds, urls
<1> QED BY <1>1, <1>7, <1>8, LoadingKeeps

LEMMA TakeBakedKeeps == SeedInv /\ TakeBaked => SeedInv'
<1> SUFFICES ASSUME SeedInv, TakeBaked PROVE SeedInv'
  OBVIOUS
<1> DEFINE urls == SeedsFromDoc(start.baked)
           seeds == AddAll(found, urls, "baked")
           to == IF start.discovery THEN "local hook" ELSE "filter"
<1>1. Listed(found, {"explicit", "local"}, 3) /\ start.explicit = <<>>
  BY DEF TakeBaked, Loading, SeedInv, LoaderInv, DoneBy, TopBy
<1>2. ListedBy("baked") = ToSet(urls) /\ urls \in Seq(URL) /\ "baked" \in Sources
  BY DEF ListedBy, SeedInv, StartInv, Sources
<1>3. InTurn("baked", {"explicit", "local"}) /\ Rank["baked"] = 3
  BY Ranks DEF InTurn, Sources
<1> HIDE DEF urls
<1>4. Listed(seeds, {"explicit", "local"}, 3) /\ HostsOf(ToSet(urls)) \subseteq Known(seeds)
  <2>1. Listed(found, {"explicit", "local"}, Rank["baked"]) /\ ToSet(urls) \subseteq ListedBy("baked")
    BY <1>1, <1>2, <1>3
  <2>2. /\ Listed(AddAll(found, urls, "baked"), {"explicit", "local"}, Rank["baked"])
        /\ Known(found) \cup HostsOf(ToSet(urls)) \subseteq Known(AddAll(found, urls, "baked"))
    BY <1>2, <1>3, <2>1, AddAllKeeps
  <2> QED BY <1>3, <2>2
<1> HIDE DEF seeds
<1>5. Listed(seeds, {"explicit", "local"} \cup {"baked"}, 4)
  <2>1. \A s \in {"baked"} : HostsOf(ListedBy(s)) \subseteq Known(seeds)
    BY <1>2, <1>4
  <2>2. PICK before, more : before = {"explicit", "local"} /\ more = {"baked"}
    OBVIOUS
  <2>3. Listed(seeds, before \cup more, 4)
    BY <1>4, <2>1, <2>2, Further
  <2> QED BY <2>2, <2>3
<1>6. {"explicit", "local"} \cup {"baked"} = {"explicit", "local", "baked"}
  OBVIOUS
<1>7. Listed(seeds, DoneBy(to), TopBy(to))
  BY <1>5, <1>6 DEF DoneBy, TopBy
<1>8. Loading("baked", to, seeds) /\ to \in {"local hook", "filter"}
  BY DEF TakeBaked, seeds, urls
<1> HIDE DEF to
<1> QED BY <1>1, <1>7, <1>8, LoadingKeeps

LEMMA HooksLast == InTurn("discovery", {"explicit", "local", "baked"}) /\ Rank["discovery"] = 4
BY Ranks DEF InTurn, Sources

LEMMA AskHookKeeps ==
    ASSUME SeedInv, NEW doc \in {start.data, start.baked},
           NEW from \in {"local hook", "baked hook"}, NEW to \in {"baked hook", "filter"},
           AskHook(from, to, doc)
    PROVE  SeedInv'
<1> DEFINE all == {"explicit", "local", "baked"}
<1>1. Listed(found, all, 4) /\ start.explicit = <<>>
  <2>1. loader = from
    BY DEF AskHook, Loading
  <2>2. DoneBy(from) = all /\ TopBy(from) = 4
    BY DEF DoneBy, TopBy
  <2> QED BY <2>1, <2>2 DEF SeedInv, LoaderInv
<1>2. InTurn("discovery", all) /\ Rank["discovery"] = 4
  BY HooksLast
<1>3. DoneBy(to) = all /\ TopBy(to) = 4
  BY DEF DoneBy, TopBy
<1> HIDE DEF all
<1>4. CASE HookOf(doc) # Absent /\ Loading(from, to, AddAll(found, HookOf(doc), "discovery"))
  <2>1. ToSet(HookOf(doc)) \subseteq ListedBy("discovery") /\ HookOf(doc) \in Seq(URL)
        /\ "discovery" \in Sources
    BY <1>4 DEF ListedBy, SeedInv, StartInv, Sources
  <2>2. Listed(AddAll(found, HookOf(doc), "discovery"), all, 4)
    BY <1>1, <1>2, <2>1, AddAllKeeps
  <2> QED BY <1>1, <1>3, <1>4, <2>2, LoadingKeeps
<1>5. CASE Loading(from, to, found)
  BY <1>1, <1>3, <1>5, LoadingKeeps
<1> QED BY <1>4, <1>5 DEF AskHook

LEMMA FilterStepKeeps == SeedInv /\ Filter => SeedInv'
<1> SUFFICES ASSUME SeedInv, Filter PROVE SeedInv'
  OBVIOUS
<1> DEFINE seeds == IF start.public THEN FilterOurselves(found) ELSE found
<1>1. Listed(found, {"explicit", "local", "baked"}, 4) /\ Loading("filter", "done", seeds)
  BY DEF Filter, Loading, SeedInv, LoaderInv, DoneBy, TopBy
<1>2. Ordered(found) /\ \A s \in {"explicit", "local", "baked"} : HostsOf(ListedBy(s)) \subseteq Known(found)
  BY <1>1 DEF Listed
<1>3. Ordered(seeds) /\ Known(found) \ {Own} \subseteq Known(seeds) /\ (start.public => Own \notin Known(seeds))
  BY <1>2, FilterKeeps
<1> HIDE DEF seeds
<1>4. \A h \in HostsOf(ListedBy("explicit") \cup ListedBy("local") \cup ListedBy("baked")) :
         h \in Known(found)
  BY <1>2 DEF HostsOf
<1> QED BY <1>1, <1>3, <1>4, LoadedKeeps

LEMMA StartNodeKeeps == SeedInv /\ StartNode => SeedInv'
<1> SUFFICES ASSUME SeedInv, StartNode PROVE SeedInv'
  OBVIOUS
<1>1. start' = start /\ loader' = loader /\ found' = found /\ loader = "done" /\ node.state = "starting"
  BY DEF StartNode
<1>2. StartInv' /\ LoaderInv'
  BY <1>1, LoaderFixed
<1>3. NodeInv'
  BY <1>1 DEF StartNode, SeedInv, NodeInv
<1> QED BY <1>2, <1>3 DEF SeedInv

LEMMA SeedKept == SeedInv /\ [SeedNext]_seeding => SeedInv'
<1> SUFFICES ASSUME SeedInv, [SeedNext]_seeding PROVE SeedInv'
  OBVIOUS
<1>1. CASE TakeExplicit BY <1>1, TakeExplicitKeeps
<1>2. CASE TakeLocal BY <1>2, TakeLocalKeeps
<1>3. CASE TakeBaked BY <1>3, TakeBakedKeeps
<1>4. CASE AskLocalHook BY <1>4, AskHookKeeps DEF AskLocalHook
<1>5. CASE AskBakedHook BY <1>5, AskHookKeeps DEF AskBakedHook
<1>6. CASE Filter BY <1>6, FilterStepKeeps
<1>7. CASE StartNode BY <1>7, StartNodeKeeps
<1>8. CASE UNCHANGED seeding
  <2>1. StartInv' /\ LoaderInv'
    BY <1>8, LoaderFixed DEF seeding
  <2>2. NodeInv'
    BY <1>8 DEF seeding, SeedInv, NodeInv
  <2> QED BY <2>1, <2>2 DEF SeedInv
<1> QED BY <1>1, <1>2, <1>3, <1>4, <1>5, <1>6, <1>7, <1>8 DEF SeedNext

\* Hosts that a list names once each are as many as the list is long.
LEMMA OnceEach ==
    ASSUME NEW list, NEW n \in Nat, DOMAIN list = 1..n,
           \A i, j \in 1..n : i < j => list[i].host # list[j].host
    PROVE  Cardinality(HostsOf(ToSet(list))) = n
<1> DEFINE S == HostsOf(ToSet(list))
           f == [i \in 1..n |-> list[i].host]
<1>1. S = {list[i].host : i \in 1..n}
  BY DEF HostsOf, ToSet
<1>2. f \in Bijection(1..n, S)
  <2>1. f \in [1..n -> S]
    BY <1>1
  <2>2. \A i, j \in 1..n : f[i] = f[j] => i = j
    OBVIOUS
  <2>3. \A h \in S : \E i \in 1..n : f[i] = h
    BY <1>1
  <2> QED BY <2>1, <2>2, <2>3 DEF Bijection, Injection, Surjection, IsInjective
<1>3. ExistsBijection(1..n, S)
  BY <1>2 DEF ExistsBijection
<1> HIDE DEF S
<1> QED BY <1>3, FS_CountingElements DEF S

LEMMA OrderedPeers == SeedInv => PeersOrdered
<1> SUFFICES ASSUME SeedInv, node.state = "running" PROVE PeersOrdered
  BY DEF PeersOrdered
<1>1. loader = "done" /\ node.peers = [i \in DOMAIN found |-> found[i].url]
  BY DEF SeedInv, NodeInv
<1>2. /\ Ordered(found)
      /\ \A h \in HostsOf(ListedBy("explicit") \cup ListedBy("local") \cup ListedBy("baked")) :
           h = Own \/ h \in Known(found)
      /\ start.public /\ start.explicit = <<>> => Own \notin Known(found)
  BY <1>1 DEF SeedInv, LoaderInv
<1>3. PICK n \in Nat : n = Len(found) /\ DOMAIN found = 1..n /\ \A i \in 1..n : found[i] \in Seed
  BY <1>2 DEF Ordered
<1>4. /\ \A i, j \in DOMAIN found : i < j =>
           /\ found[i].url.host # found[j].url.host
           /\ Rank[found[i].source] <= Rank[found[j].source]
      /\ \A i \in DOMAIN found :
           /\ found[i].url.host \in HostsOf(ListedBy(found[i].source))
           /\ \A s \in DOMAIN Rank : Rank[s] < Rank[found[i].source] =>
                found[i].url.host \notin HostsOf(ListedBy(s))
  BY <1>2, <1>3, Ranks DEF Ordered
<1>5. \A h \in HostsOf(ListedBy("explicit") \cup ListedBy("local") \cup ListedBy("baked")) :
         h = Own \/ \E i \in DOMAIN found : found[i].url.host = h
  BY <1>2 DEF Known
<1>6. ASSUME start.public /\ start.explicit = <<>>
      PROVE  /\ Own \notin HostsOf(ToSet(node.peers))
             /\ Cardinality(HostsOf(ToSet(Bootstrap))) = Len(Bootstrap)
  <2>1. \A i \in 1..n : found[i].url.host # Own
    BY <1>2, <1>3, <1>6 DEF Known
  <2>2. DOMAIN node.peers = 1..n /\ \A i \in 1..n : node.peers[i] = found[i].url
    BY <1>1, <1>3
  <2>3. Own \notin HostsOf(ToSet(node.peers))
    BY <2>1, <2>2 DEF HostsOf, ToSet
  <2>4. node.peers \in Seq(URL) /\ Len(node.peers) = n
    <3>1. \A i \in 1..n : found[i].url \in URL
      BY <1>3 DEF Seed, URL
    <3> QED BY <1>1, <1>3, <3>1
  <2>5. [host |-> Own, slash |-> FALSE] \in URL
    BY SeedAssumption DEF URL
  <2>6. DOMAIN Bootstrap = 1..(n + 1) /\ Len(Bootstrap) = n + 1
        /\ Bootstrap[n + 1] = [host |-> Own, slash |-> FALSE]
        /\ \A i \in 1..n : Bootstrap[i] = node.peers[i]
    BY <2>4, <2>5 DEF Bootstrap
  <2>7. ASSUME NEW i \in 1..(n + 1), NEW j \in 1..(n + 1), i < j
        PROVE  Bootstrap[i].host # Bootstrap[j].host
    <3>1. i \in 1..n /\ (j \in 1..n \/ j = n + 1)
      BY <2>7
    <3>2. Bootstrap[i].host = found[i].url.host
      BY <2>2, <2>6, <3>1
    <3>3. CASE j \in 1..n
      <4>1. Bootstrap[j].host = found[j].url.host
        BY <2>2, <2>6, <3>3
      <4> QED BY <1>3, <1>4, <2>7, <3>1, <3>2, <3>3, <4>1
    <3>4. CASE j = n + 1
      BY <2>1, <2>6, <3>1, <3>2, <3>4
    <3> QED BY <3>1, <3>3, <3>4
  <2> QED BY <2>3, <2>6, <2>7, OnceEach
<1> QED BY <1>4, <1>5, <1>6 DEF PeersOrdered

\* "explicit > local > baked > discovery" (seed_loader.py:141): however many seeds the
\* documents and the hooks list, a running node has each peer once, from the first source
\* that lists it and in the order of the sources, misses no peer of the files, and with
\* PUBLIC_URL set neither has itself nor names a host twice in /bootstrap.
THEOREM PeersAlwaysOrdered == SeedSpec => []PeersOrdered
<1>1. SeedSpec => []SeedInv
  BY SeedInitInv, SeedKept, PTL DEF SeedSpec
<1> QED BY <1>1, OrderedPeers, PTL

(***************************************************************************)
(* A block's announcement, for any header.  Bytes: an integer by its       *)
(* digits, and back.                                                       *)
(***************************************************************************)
Byte == 0 .. Base - 1

LEMMA BaseIs == Base \in Nat /\ Base > 1 /\ HashLen \in Nat /\ HashLen > 0 /\ SigLen \in Nat /\ SigLen > 0
BY HeaderAssumption

LEMMA Divided ==
    ASSUME NEW n \in Nat
    PROVE  /\ n \div Base \in Nat /\ n % Base \in Byte
           /\ n = (n \div Base) * Base + (n % Base)
<1>1. PICK b \in Nat : b = Base /\ b > 1
  BY BaseIs
<1>2. n \div b \in Nat /\ n % b \in 0 .. b - 1 /\ n = b * (n \div b) + (n % b)
  BY <1>1
<1>3. b * (n \div b) = (n \div b) * b
  BY <1>1, <1>2
<1> QED BY <1>1, <1>2, <1>3 DEF Byte

Shifting(g, n, k) == g = [i \in 0 .. k |-> IF i = 0 THEN n ELSE g[i - 1] \div Base]

LEMMA ShiftedIsChosen == \A n, k : Shifted(n, k) = (CHOOSE g : Shifting(g, n, k))[k]
BY DEF Shifted, Shifting

LEMMA ShiftingAt ==
    ASSUME NEW g, NEW n, NEW k \in Nat, Shifting(g, n, k), NEW i \in 0 .. k
    PROVE  g[i] = IF i = 0 THEN n ELSE g[i - 1] \div Base
BY DEF Shifting

LEMMA ShiftingOneMore ==
    ASSUME NEW n, NEW k \in Nat, NEW g, Shifting(g, n, k)
    PROVE  \E h : Shifting(h, n, k + 1) /\ h[k + 1] = g[k] \div Base
<1> DEFINE h == [i \in 0 .. (k + 1) |-> IF i = 0 THEN n ELSE g[i - 1] \div Base]
<1>1. ASSUME NEW i \in 0 .. (k + 1), i # 0 PROVE g[i - 1] = h[i - 1]
  <2>1. i - 1 \in 0 .. k /\ i - 1 \in 0 .. (k + 1)
    BY <1>1
  <2> QED BY <2>1, ShiftingAt
<1>2. h = [i \in 0 .. (k + 1) |-> IF i = 0 THEN n ELSE h[i - 1] \div Base]
  BY <1>1
<1>3. Shifting(h, n, k + 1)
  BY <1>2 DEF Shifting
<1>4. h[k + 1] = g[k] \div Base
  <2>1. k + 1 \in 0 .. (k + 1) /\ k + 1 # 0 /\ (k + 1) - 1 = k
    OBVIOUS
  <2> QED BY <2>1
<1> QED BY <1>3, <1>4

LEMMA ShiftingUnique ==
    ASSUME NEW n, NEW k \in Nat, NEW g, Shifting(g, n, k), NEW h, Shifting(h, n, k)
    PROVE  g[k] = h[k]
<1> DEFINE Bad == {i \in Nat : i \in 0 .. k /\ g[i] # h[i]}
<1> SUFFICES ASSUME Bad # {} PROVE FALSE
  OBVIOUS
<1>1. PICK i \in Bad : \A j \in Bad : i <= j
  BY LeastNat
<1>2. i \in 0 .. k /\ g[i] # h[i]
  BY <1>1
<1>3. g[i] = IF i = 0 THEN n ELSE g[i - 1] \div Base
  BY <1>2, ShiftingAt
<1>4. h[i] = IF i = 0 THEN n ELSE h[i - 1] \div Base
  BY <1>2, ShiftingAt
<1>5. i # 0 /\ g[i - 1] # h[i - 1]
  BY <1>2, <1>3, <1>4
<1>6. i - 1 \in Bad
  BY <1>2, <1>5
<1> HIDE DEF Bad
<1> QED BY <1>1, <1>2, <1>6

LEMMA ShiftingExists ==
    ASSUME NEW n
    PROVE  \A k \in Nat : \E g : Shifting(g, n, k)
<1> DEFINE Bad == {k \in Nat : ~ \E g : Shifting(g, n, k)}
<1> SUFFICES ASSUME Bad # {} PROVE FALSE
  OBVIOUS
<1>1. PICK k \in Bad : \A m \in Bad : k <= m
  BY LeastNat
<1>2. CASE k = 0
  <2> DEFINE g == [i \in 0 .. 0 |-> n]
  <2>1. g = [i \in 0 .. 0 |-> IF i = 0 THEN n ELSE g[i - 1] \div Base]
    OBVIOUS
  <2>2. Shifting(g, n, 0)
    BY <2>1 DEF Shifting
  <2> QED BY <1>2, <2>2
<1>3. CASE k # 0
  <2>1. k - 1 \in Nat /\ k - 1 \notin Bad /\ (k - 1) + 1 = k
    BY <1>1, <1>3
  <2>2. PICK g : Shifting(g, n, k - 1)
    BY <2>1
  <2>3. \E h : Shifting(h, n, (k - 1) + 1)
    BY <2>1, <2>2, ShiftingOneMore
  <2> QED BY <2>1, <2>3
<1> QED BY <1>2, <1>3

LEMMA ShiftedSteps ==
    ASSUME NEW n, NEW k \in Nat
    PROVE  /\ Shifted(n, 0) = n
           /\ Shifted(n, k + 1) = Shifted(n, k) \div Base
<1>1. \A j \in Nat : \E g : Shifting(g, n, j) /\ Shifted(n, j) = g[j]
  <2> SUFFICES ASSUME NEW j \in Nat PROVE \E g : Shifting(g, n, j) /\ Shifted(n, j) = g[j]
    OBVIOUS
  <2>1. \E g : Shifting(g, n, j)
    BY ShiftingExists
  <2> QED BY <2>1, ShiftedIsChosen
<1>2. PICK z : Shifting(z, n, 0) /\ Shifted(n, 0) = z[0]
  BY <1>1
<1>3. PICK g : Shifting(g, n, k) /\ Shifted(n, k) = g[k]
  BY <1>1
<1>4. k + 1 \in Nat
  OBVIOUS
<1>5. PICK f : Shifting(f, n, k + 1) /\ Shifted(n, k + 1) = f[k + 1]
  BY <1>1, <1>4
<1>6. PICK h : Shifting(h, n, k + 1) /\ h[k + 1] = g[k] \div Base
  BY <1>3, ShiftingOneMore
<1>7. f[k + 1] = h[k + 1]
  BY <1>4, <1>5, <1>6, ShiftingUnique
<1>8. z[0] = n
  BY <1>2, ShiftingAt
<1> QED BY <1>2, <1>3, <1>5, <1>6, <1>7, <1>8

LEMMA ShiftedNat == \A n \in Nat, k \in Nat : Shifted(n, k) \in Nat
<1> SUFFICES ASSUME NEW n \in Nat PROVE \A k \in Nat : Shifted(n, k) \in Nat
  OBVIOUS
<1> DEFINE Bad == {k \in Nat : Shifted(n, k) \notin Nat}
<1> SUFFICES ASSUME Bad # {} PROVE FALSE
  OBVIOUS
<1>1. PICK k \in Bad : \A j \in Bad : k <= j
  BY LeastNat
<1>2. k \in Nat /\ Shifted(n, k) \notin Nat
  BY <1>1
<1>3. k # 0
  BY <1>2, ShiftedSteps
<1>4. PICK j \in Nat : k = j + 1
  <2>1. k - 1 \in Nat /\ k = (k - 1) + 1
    BY <1>2, <1>3
  <2> QED BY <2>1
<1>5. j \notin Bad
  BY <1>1, <1>4
<1>6. Shifted(n, j) \in Nat
  BY <1>5
<1>7. Shifted(n, j + 1) \in Nat
  BY <1>6, ShiftedSteps, Divided
<1> QED BY <1>2, <1>4, <1>7

LEMMA Packed ==
    ASSUME NEW n \in Nat, NEW width \in Nat
    PROVE  /\ Pack(n, width) \in Seq(Byte) /\ Len(Pack(n, width)) = width
           /\ \A i \in 1 .. width : Pack(n, width)[i] = Shifted(n, width - i) % Base
<1>1. ASSUME NEW i \in 1 .. width PROVE Shifted(n, width - i) % Base \in Byte
  <2>1. width - i \in Nat
    OBVIOUS
  <2> QED BY <2>1, ShiftedNat, Divided
<1> QED BY <1>1 DEF Pack

Reading(g, s, k) == g = [i \in 0 .. k |-> IF i = 0 THEN 0 ELSE g[i - 1] * Base + s[i]]

LEMMA UnpackIsChosen == \A s : Unpack(s) = (CHOOSE g : Reading(g, s, Len(s)))[Len(s)]
BY DEF Unpack, Reading

LEMMA ReadingAt ==
    ASSUME NEW g, NEW s, NEW k \in Nat, Reading(g, s, k), NEW i \in 0 .. k
    PROVE  g[i] = IF i = 0 THEN 0 ELSE g[i - 1] * Base + s[i]
BY DEF Reading

LEMMA ReadingOneMore ==
    ASSUME NEW s, NEW k \in Nat, NEW g, Reading(g, s, k)
    PROVE  \E h : Reading(h, s, k + 1)
<1> DEFINE h == [i \in 0 .. (k + 1) |-> IF i = 0 THEN 0 ELSE g[i - 1] * Base + s[i]]
<1>1. ASSUME NEW i \in 0 .. (k + 1), i # 0 PROVE g[i - 1] = h[i - 1]
  <2>1. i - 1 \in 0 .. k /\ i - 1 \in 0 .. (k + 1)
    BY <1>1
  <2> QED BY <2>1, ReadingAt
<1>2. h = [i \in 0 .. (k + 1) |-> IF i = 0 THEN 0 ELSE h[i - 1] * Base + s[i]]
  BY <1>1
<1>3. Reading(h, s, k + 1)
  BY <1>2 DEF Reading
<1> QED BY <1>3

LEMMA ReadingExists ==
    ASSUME NEW s
    PROVE  \A k \in Nat : \E g : Reading(g, s, k)
<1> DEFINE Bad == {k \in Nat : ~ \E g : Reading(g, s, k)}
<1> SUFFICES ASSUME Bad # {} PROVE FALSE
  OBVIOUS
<1>1. PICK k \in Bad : \A m \in Bad : k <= m
  BY LeastNat
<1>2. CASE k = 0
  <2> DEFINE g == [i \in 0 .. 0 |-> 0]
  <2>1. g = [i \in 0 .. 0 |-> IF i = 0 THEN 0 ELSE g[i - 1] * Base + s[i]]
    OBVIOUS
  <2>2. Reading(g, s, 0)
    BY <2>1 DEF Reading
  <2> QED BY <1>2, <2>2
<1>3. CASE k # 0
  <2>1. k - 1 \in Nat /\ k - 1 \notin Bad /\ (k - 1) + 1 = k
    BY <1>1, <1>3
  <2>2. PICK g : Reading(g, s, k - 1)
    BY <2>1
  <2>3. \E h : Reading(h, s, (k - 1) + 1)
    BY <2>1, <2>2, ReadingOneMore
  <2> QED BY <2>1, <2>3
<1> QED BY <1>2, <1>3

\* What has been read of a packed integer is what the bytes not read yet
\* were shifted out of.
LEMMA PackUnpack ==
    ASSUME NEW n, NEW width \in Nat, Fits(n, width)
    PROVE  Unpack(Pack(n, width)) = n
<1> DEFINE s == Pack(n, width)
<1>1. n \in Nat /\ Shifted(n, width) = 0 /\ Len(s) = width
  BY Packed DEF Fits
<1>2. \A i \in 1 .. width : s[i] = Shifted(n, width - i) % Base
  BY <1>1, Packed
<1> HIDE DEF s
<1>3. PICK e : Reading(e, s, width)
  BY ReadingExists
<1>4. \E g : Reading(g, s, width) /\ Unpack(s) = g[width]
  BY <1>1, <1>3, UnpackIsChosen
<1>5. PICK g : Reading(g, s, width) /\ Unpack(s) = g[width]
  BY <1>4
<1> DEFINE Bad == {i \in Nat : i \in 0 .. width /\ g[i] # Shifted(n, width - i)}
<1>6. ASSUME Bad # {} PROVE FALSE
  <2>1. PICK i \in Bad : \A j \in Bad : i <= j
    BY <1>6, LeastNat
  <2>2. i \in 0 .. width /\ g[i] # Shifted(n, width - i)
    BY <2>1
  <2>3. g[i] = IF i = 0 THEN 0 ELSE g[i - 1] * Base + s[i]
    BY <1>5, <2>2, ReadingAt
  <2>4. i # 0
    <3>1. i = 0 => width - i = width
      BY <2>2
    <3> QED BY <1>1, <2>2, <2>3, <3>1
  <2>5. PICK k \in Nat : k = width - i /\ k + 1 = width - (i - 1)
    BY <2>2
  <2>6. i - 1 \in 0 .. width /\ i - 1 \in Nat /\ i - 1 \notin Bad /\ i \in 1 .. width
    BY <2>1, <2>2, <2>4
  <2>7. g[i - 1] = Shifted(n, k + 1)
    BY <2>5, <2>6
  <2>8. s[i] = Shifted(n, k) % Base
    BY <1>2, <2>5, <2>6
  <2>9. PICK x \in Nat : x = Shifted(n, k)
    BY <1>1, ShiftedNat
  <2>10. Shifted(n, k + 1) = x \div Base
    BY <2>9, ShiftedSteps
  <2>11. g[i] = (x \div Base) * Base + (x % Base)
    BY <2>3, <2>4, <2>7, <2>8, <2>9, <2>10
  <2>12. g[i] = x
    BY <2>11, Divided
  <2> QED BY <2>2, <2>5, <2>9, <2>12
<1>7. g[width] = Shifted(n, width - width)
  BY <1>6
<1>8. width - width = 0
  OBVIOUS
<1>9. Shifted(n, 0) = n
  BY ShiftedSteps
<1> QED BY <1>5, <1>7, <1>8, <1>9 DEF s

\* One byte.
LEMMA PackByte ==
    ASSUME NEW n \in Nat, Fits(n, 1)
    PROVE  Pack(n, 1)[1] = n
<1>1. Pack(n, 1)[1] = Shifted(n, 0) % Base
  BY Packed
<1>2. Shifted(n, 0) = n /\ Shifted(n, 1) = n \div Base
  BY ShiftedSteps
<1>3. n \div Base = 0
  BY <1>2 DEF Fits
<1>4. n = (n \div Base) * Base + (n % Base)
  BY Divided
<1>5. 0 * Base = 0 /\ n % Base \in Nat
  BY BaseIs, Divided DEF Byte
<1> QED BY <1>1, <1>2, <1>3, <1>4, <1>5

LEMMA OneFits == Fits(1, 1)
<1>1. Shifted(1, 0) = 1 /\ Shifted(1, 1) = 1 \div Base
  BY ShiftedSteps
<1>2. 1 \div Base = 0
  <2>1. PICK b \in Nat : b = Base /\ b > 1
    BY BaseIs
  <2>2. 1 \div b = 0
    BY <2>1
  <2> QED BY <2>1, <2>2
<1> QED BY <1>1, <1>2 DEF Fits

(***************************************************************************)
(* Fields of a datagram.                                                   *)
(***************************************************************************)
LEMMA SameBytes ==
    ASSUME NEW a \in Seq(Byte), NEW b \in Seq(Byte), NEW n \in Nat, Len(a) = n, Len(b) = n,
           \A i \in 1 .. n : a[i] = b[i]
    PROVE  a = b
OBVIOUS

LEMMA FieldIs ==
    ASSUME NEW s \in Seq(Byte), NEW from \in Nat \ {0}, NEW len \in Nat, from + len - 1 <= Len(s)
    PROVE  /\ Field(s, from, len) \in Seq(Byte) /\ Len(Field(s, from, len)) = len
           /\ \A i \in 1 .. len : Field(s, from, len)[i] = s[from + i - 1]
<1>1. PICK m \in Int : m = from + len - 1
  OBVIOUS
<1>2. \A i \in from .. m : s[i] \in Byte
  BY <1>1
<1>3. /\ SubSeq(s, from, m) \in Seq(Byte)
      /\ Len(SubSeq(s, from, m)) = IF from <= m THEN m - from + 1 ELSE 0
      /\ \A i \in 1 .. m - from + 1 : SubSeq(s, from, m)[i] = s[from + i - 1]
  BY <1>2, SubSeqProperties
<1>4. m - from + 1 = len /\ (from <= m \/ len = 0)
  BY <1>1
<1> QED BY <1>1, <1>3, <1>4 DEF Field

\* p stands in s from the place at.
Stands(s, at, p) == at + Len(p) - 1 <= Len(s) /\ \A i \in 1 .. Len(p) : s[at + i - 1] = p[i]

LEMMA FieldStands ==
    ASSUME NEW s \in Seq(Byte), NEW at \in Nat \ {0}, NEW p \in Seq(Byte), Stands(s, at, p)
    PROVE  Field(s, at, Len(p)) = p
<1>1. PICK n \in Nat : n = Len(p)
  OBVIOUS
<1>2. at + n - 1 <= Len(s) /\ \A i \in 1 .. n : s[at + i - 1] = p[i]
  BY <1>1 DEF Stands
<1>3. /\ Field(s, at, n) \in Seq(Byte) /\ Len(Field(s, at, n)) = n
      /\ \A i \in 1 .. n : Field(s, at, n)[i] = s[at + i - 1]
  BY <1>2, FieldIs
<1>4. \A i \in 1 .. n : Field(s, at, n)[i] = p[i]
  BY <1>2, <1>3
<1>5. Field(s, at, n) \in Seq(Byte) /\ Len(Field(s, at, n)) = n /\ Len(p) = n /\ p \in Seq(Byte)
  BY <1>1, <1>3
<1>6. Field(s, at, n) = p
  BY ONLY <1>4, <1>5, SameBytes
<1> QED BY <1>1, <1>6

\* A field of what stands in s is a field of s.
LEMMA FieldWithin ==
    ASSUME NEW s \in Seq(Byte), NEW at \in Nat \ {0}, NEW p \in Seq(Byte), Stands(s, at, p),
           NEW from \in Nat \ {0}, NEW len \in Nat, from + len - 1 <= Len(p)
    PROVE  Field(s, at + from - 1, len) = Field(p, from, len)
<1>1. PICK n \in Nat : n = Len(p)
  OBVIOUS
<1>2. at + n - 1 <= Len(s) /\ \A i \in 1 .. n : s[at + i - 1] = p[i]
  BY <1>1 DEF Stands
<1>3. PICK k \in Nat \ {0} : k = at + from - 1
  OBVIOUS
<1>4. k + len - 1 <= Len(s)
  BY <1>1, <1>2, <1>3
<1>5. /\ Field(s, k, len) \in Seq(Byte) /\ Len(Field(s, k, len)) = len
      /\ \A i \in 1 .. len : Field(s, k, len)[i] = s[k + i - 1]
  BY <1>4, FieldIs
<1>6. /\ Field(p, from, len) \in Seq(Byte) /\ Len(Field(p, from, len)) = len
      /\ \A i \in 1 .. len : Field(p, from, len)[i] = p[from + i - 1]
  BY FieldIs
<1>7. ASSUME NEW i \in 1 .. len PROVE s[k + i - 1] = p[from + i - 1]
  <2>1. PICK j \in 1 .. n : j = from + i - 1
    BY <1>1
  <2>2. at + j - 1 = k + i - 1
    BY <1>3, <2>1
  <2>3. s[at + j - 1] = p[j]
    BY <1>2
  <2> QED BY <2>1, <2>2, <2>3
<1>8. Field(s, k, len) = Field(p, from, len)
  <2>1. \A i \in 1 .. len : Field(s, k, len)[i] = Field(p, from, len)[i]
    BY <1>5, <1>6, <1>7
  <2>2. /\ Field(s, k, len) \in Seq(Byte) /\ Len(Field(s, k, len)) = len
        /\ Field(p, from, len) \in Seq(Byte) /\ Len(Field(p, from, len)) = len
    BY <1>5, <1>6
  <2> QED BY ONLY <2>1, <2>2, SameBytes
<1> QED BY <1>3, <1>8

\* Concatenation as an operator that the provers leave alone.
Join(s, t) == s \o t

LEMMA Joined ==
    ASSUME NEW s \in Seq(Byte), NEW t \in Seq(Byte)
    PROVE  /\ Join(s, t) \in Seq(Byte) /\ Len(Join(s, t)) = Len(s) + Len(t)
           /\ Stands(Join(s, t), 1, s) /\ Stands(Join(s, t), Len(s) + 1, t)
<1>1. PICK m \in Nat, n \in Nat : m = Len(s) /\ n = Len(t)
  OBVIOUS
<1>2. /\ Join(s, t) \in Seq(Byte) /\ Len(Join(s, t)) = m + n
      /\ \A i \in 1 .. m : Join(s, t)[i] = s[i]
      /\ \A i \in 1 .. n : Join(s, t)[m + i] = t[i]
  <2>1. Join(s, t) \in Seq(Byte) /\ Len(Join(s, t)) = m + n
    BY ONLY <1>1, s \in Seq(Byte), t \in Seq(Byte) DEF Join
  <2>2. \A i \in 1 .. m : Join(s, t)[i] = s[i]
    BY ONLY <1>1, s \in Seq(Byte), t \in Seq(Byte) DEF Join
  <2>3. \A i \in 1 .. n : Join(s, t)[m + i] = t[i]
    BY ONLY <1>1, s \in Seq(Byte), t \in Seq(Byte) DEF Join
  <2> QED BY ONLY <2>1, <2>2, <2>3
<1>3. \A i \in Int : 1 + i - 1 = i /\ (m + 1) + i - 1 = m + i
  BY <1>1
<1>4. 1 + m - 1 <= m + n /\ (m + 1) + n - 1 <= m + n
  BY ONLY <1>1
<1>5. Stands(Join(s, t), 1, s)
  <2>1. \A i \in 1 .. m : Join(s, t)[1 + i - 1] = s[i]
    BY ONLY <1>1, <1>2, <1>3
  <2> QED BY ONLY <2>1, <1>1, <1>2, <1>4 DEF Stands
<1>6. Stands(Join(s, t), Len(s) + 1, t)
  <2>1. \A i \in 1 .. n : Join(s, t)[(m + 1) + i - 1] = t[i]
    BY ONLY <1>1, <1>2, <1>3
  <2>2. Stands(Join(s, t), m + 1, t)
    BY ONLY <2>1, <1>1, <1>2, <1>4 DEF Stands
  <2> QED BY ONLY <2>2, <1>1
<1>7. Len(Join(s, t)) = Len(s) + Len(t)
  BY ONLY <1>1, <1>2
<1> QED BY ONLY <1>2, <1>5, <1>6, <1>7

Has(s, m) == s \in Seq(Byte) /\ Len(s) = m

LEMMA JoinHas ==
    ASSUME NEW s, NEW t, NEW m \in Nat, NEW n \in Nat, NEW k, Has(s, m), Has(t, n), k = m + n
    PROVE  Has(Join(s, t), k)
BY Joined DEF Has

\* Seen from the datagram that ends with it or goes on: where the last part of a
\* beginning is.
LEMMA Peel ==
    ASSUME NEW s \in Seq(Byte), NEW e \in Seq(Byte), NEW p \in Seq(Byte), Stands(s, 1, Join(e, p))
    PROVE  Stands(s, 1, e) /\ Stands(s, Len(e) + 1, p)
<1>1. PICK m \in Nat, n \in Nat : m = Len(e) /\ n = Len(p)
  OBVIOUS
<1> DEFINE j == Join(e, p)
<1>2. /\ j \in Seq(Byte) /\ Len(j) = m + n
      /\ \A i \in 1 .. m : j[i] = e[i]
      /\ \A i \in 1 .. n : j[m + i] = p[i]
  BY <1>1 DEF Join
<1>2a. Stands(s, 1, j)
  OBVIOUS
<1> HIDE DEF j
<1>3. \A i \in Int : 1 + i - 1 = i /\ (m + 1) + i - 1 = m + i
  BY <1>1
<1>4. m + n <= Len(s) /\ \A i \in 1 .. m + n : s[i] = j[i]
  BY <1>1, <1>2, <1>2a, <1>3 DEF Stands
<1>5. \A i \in 1 .. n : m + i \in 1 .. m + n
  BY <1>1
<1>6. \A i \in 1 .. m : i \in 1 .. m + n
  BY <1>1
<1> QED BY <1>1, <1>2, <1>3, <1>4, <1>5, <1>6 DEF Stands

LEMMA TimesMono ==
    ASSUME NEW i \in Nat, NEW n \in Nat, i <= n, NEW k \in Nat
    PROVE  i * k <= n * k /\ i * k \in Nat /\ n * k \in Nat /\ (i + 1) * k = i * k + k /\ (n + 1) * k = n * k + k
<1>1. PICK d \in Nat : n = i + d
  OBVIOUS
<1>2. i * k \in Nat /\ d * k \in Nat /\ n * k = i * k + d * k
  BY <1>1
<1> QED BY <1>2

LEMMA BytesSeq ==
    ASSUME NEW n \in Nat, NEW x \in Bytes(n)
    PROVE  x \in Seq(Byte) /\ Len(x) = n
<1>1. x \in [1 .. n -> Byte]
  BY DEF Bytes, Byte
<1>2. PICK b : b = Byte
  OBVIOUS
<1>3. x \in Seq(b) /\ Len(x) = n
  BY <1>1, <1>2
<1> QED BY <1>2, <1>3

\* The parents, one behind the other.
LEMMA Parents ==
    ASSUME NEW ps \in Seq(Bytes(HashLen))
    PROVE  /\ FlattenSeq(ps) \in Seq(Byte) /\ Len(FlattenSeq(ps)) = Len(ps) * HashLen
           /\ \A i \in 1 .. Len(ps) : Field(FlattenSeq(ps), (i - 1) * HashLen + 1, HashLen) = ps[i]
<1> DEFINE Fine(t) == /\ FlattenSeq(t) \in Seq(Byte) /\ Len(FlattenSeq(t)) = Len(t) * HashLen
                      /\ \A i \in 1 .. Len(t) :
                           Field(FlattenSeq(t), (i - 1) * HashLen + 1, HashLen) = t[i]
           P == {t \in Seq(Bytes(HashLen)) : Fine(t)}
<1>0. PICK H \in Nat \ {0} : H = HashLen
  BY BaseIs
<1>1. <<>> \in P
  <2>1. <<>> \in Seq(Byte) /\ <<>> \in Seq(Bytes(HashLen)) /\ Len(<<>>) = 0 /\ 0 * H = 0
    OBVIOUS
  <2>2. FlattenSeq(<<>>) = <<>> /\ 0 * HashLen = 0
    BY <1>0, <2>1, FlattenNone
  <2>3. \A i \in 1 .. 0 : FALSE
    OBVIOUS
  <2> QED BY <2>1, <2>2, <2>3
<1>2. ASSUME NEW t \in Seq(Bytes(HashLen)), NEW x \in Bytes(HashLen), t \in P PROVE Append(t, x) \in P
  <2> DEFINE u == Append(t, x)
  <2>1. PICK n \in Nat : n = Len(t)
    OBVIOUS
  <2>2. u \in Seq(Bytes(HashLen)) /\ Len(u) = n + 1 /\ u[n + 1] = x /\ \A i \in 1 .. n : u[i] = t[i]
    BY <2>1
  <2>3. x \in Seq(Byte) /\ Len(x) = H
    BY <1>0, BytesSeq
  <2>4. PICK f \in Seq(Byte) :
           /\ f = FlattenSeq(t) /\ Len(f) = n * H
           /\ \A i \in 1 .. n : Field(f, (i - 1) * H + 1, H) = t[i]
    BY <1>0, <1>2, <2>1
  <2>5. FlattenSeq(u) = Join(f, x)
    <3>1. Bytes(HashLen) \subseteq Seq(Byte)
      BY <1>0, BytesSeq
    <3>2. t \in Seq(Seq(Byte))
      BY <3>1
    <3> QED BY <2>3, <2>4, <3>2, FlattenOneMore DEF Join
  <2> HIDE DEF u
  <2>6. PICK g \in Seq(Byte) :
           /\ g = Join(f, x) /\ Len(g) = Len(f) + H
           /\ Stands(g, 1, f) /\ Stands(g, Len(f) + 1, x)
    BY <2>3, Joined
  <2>7. n * H \in Nat /\ (n + 1) * H = n * H + H
    BY TimesMono
  <2>8. Len(g) = (n + 1) * H
    BY <2>4, <2>6, <2>7
  <2>9. ASSUME NEW i \in 1 .. n PROVE Field(g, (i - 1) * H + 1, H) = u[i]
    <3>1. PICK from \in Nat \ {0} : from = (i - 1) * H + 1 /\ from + H - 1 <= n * H
      <4>1. PICK j \in Nat : j = i - 1 /\ j + 1 <= n
        OBVIOUS
      <4>2. j * H \in Nat /\ (j + 1) * H = j * H + H /\ (j + 1) * H <= n * H
        BY <4>1, TimesMono
      <4>3. PICK z \in Nat : z = j * H /\ z + H <= n * H
        BY <4>2
      <4>4. z + 1 \in Nat \ {0} /\ z + 1 = (i - 1) * H + 1 /\ (z + 1) + H - 1 <= n * H
        <5>1. z + 1 = (i - 1) * H + 1
          BY <4>1, <4>3
        <5>2. n * H \in Nat
          BY TimesMono
        <5> QED BY <4>3, <5>1, <5>2
      <4> QED BY <4>4
    <3>2. 1 + from - 1 = from
      OBVIOUS
    <3>3. Field(g, 1 + from - 1, H) = Field(f, from, H)
      <4>1. H \in Nat /\ from + H - 1 <= Len(f) /\ 1 \in Nat \ {0} /\ Stands(g, 1, f)
        BY <2>4, <2>6, <3>1
      <4> QED BY ONLY <4>1, FieldWithin
    <3>4. Field(f, from, H) = t[i]
      BY <2>4, <3>1
    <3> QED BY <2>2, <3>1, <3>2, <3>3, <3>4
  <2>10. Field(g, n * H + 1, H) = u[n + 1]
    <3>1. PICK at \in Nat \ {0} : at = n * H + 1
      BY <2>7
    <3>2. Stands(g, at, x)
      BY <2>4, <2>6, <3>1
    <3>3. Field(g, at, Len(x)) = x
      BY <2>3, <3>2, FieldStands
    <3> QED BY <2>2, <2>3, <3>1, <3>3
  <2>11. \A i \in 1 .. n + 1 : Field(g, (i - 1) * H + 1, H) = u[i]
    <3> SUFFICES ASSUME NEW i \in 1 .. n + 1 PROVE Field(g, (i - 1) * H + 1, H) = u[i]
      OBVIOUS
    <3>1. CASE i \in 1 .. n
      BY <2>9, <3>1
    <3>2. CASE i = n + 1
      <4>1. i - 1 = n
        BY <3>2
      <4> QED BY <2>10, <3>2, <4>1
    <3> QED BY <3>1, <3>2
  <2>12. Fine(u)
    BY <1>0, <2>2, <2>5, <2>6, <2>8, <2>11
  <2>13. u \in P
    BY <2>2, <2>12
  <2> QED BY <2>13 DEF u
<1> HIDE DEF P
<1>3. Seq(Bytes(HashLen)) \subseteq P
  BY <1>1, <1>2, SeqInduction
<1>4. ps \in P
  BY <1>3
<1> QED BY <1>4 DEF P

(***************************************************************************)
(* What a header's fields are in its datagram.  n is the number of its     *)
(* parents, d their length.                                                *)
(***************************************************************************)
\* s is h's datagram: H bytes to a hash, S to the signature, d of parents.
LaidOut(s, h, H, S, d) ==
    /\ s \in Seq(Byte) /\ Len(s) = 21 + 4 * H + S + d
    /\ Stands(s, 1, Pack(BLOCK_HEADER, TypeLen)) /\ Stands(s, 2, Pack(VERSION, VersionLen))
    /\ Stands(s, 3, Pack(h.height, HeightLen))
    /\ Stands(s, 11, h.hash) /\ Stands(s, 11 + H, h.stateRoot)
    /\ Stands(s, 11 + 2 * H, h.txRoot) /\ Stands(s, 11 + 3 * H, h.producer)
    /\ Stands(s, 11 + 4 * H, h.sig)
    /\ Stands(s, 11 + 4 * H + S, Pack(Len(h.parents), CountLen))
    /\ Stands(s, 12 + 4 * H + S, FlattenSeq(h.parents))
    /\ Stands(s, 12 + 4 * H + S + d, Pack(h.txs, TxsLen))
    /\ Stands(s, 14 + 4 * H + S + d, Pack(h.time, TimeLen))

LEMMA Layout ==
    ASSUME NEW h \in HeaderType, Encodable(h)
    PROVE  LaidOut(Encode(h), h, HashLen, SigLen, Len(h.parents) * HashLen)
<1>0. PICK H, S, d : H = HashLen /\ S = SigLen /\ d = Len(h.parents) * HashLen
  OBVIOUS
<1> DEFINE p1 == Pack(BLOCK_HEADER, TypeLen)
           p2 == Pack(VERSION, VersionLen)
           p3 == Pack(h.height, HeightLen)
           p9 == Pack(Len(h.parents), CountLen)
           p10 == FlattenSeq(h.parents)
           p11 == Pack(h.txs, TxsLen)
           p12 == Pack(h.time, TimeLen)
           e2 == Join(p1, p2)
           e3 == Join(e2, p3)
           e4 == Join(e3, h.hash)
           e5 == Join(e4, h.stateRoot)
           e6 == Join(e5, h.txRoot)
           e7 == Join(e6, h.producer)
           e8 == Join(e7, h.sig)
           e9 == Join(e8, p9)
           e10 == Join(e9, p10)
           e11 == Join(e10, p11)
           e12 == Join(e11, p12)
<1>1. H \in Nat /\ S \in Nat /\ d \in Nat
  <2>1. Len(h.parents) \in Nat
    BY DEF HeaderType
  <2> QED BY <2>1, <1>0, BaseIs, TimesMono
<1>2. Has(p1, 1) /\ Has(p2, 1) /\ Has(p9, 1)
  <2>1. Len(h.parents) \in Nat
    BY DEF HeaderType
  <2> QED BY <2>1, Packed DEF Has, TypeLen, VersionLen, CountLen, BLOCK_HEADER, VERSION
<1>3. Has(p3, 8) /\ Has(p11, 2) /\ Has(p12, 8)
  BY Packed DEF Has, HeaderType, HeightLen, TxsLen, TimeLen
<1>4. /\ Has(h.hash, H) /\ Has(h.stateRoot, H) /\ Has(h.txRoot, H) /\ Has(h.producer, H)
      /\ Has(h.sig, S)
  <2>1. /\ h.hash \in Bytes(H) /\ h.stateRoot \in Bytes(H) /\ h.txRoot \in Bytes(H)
        /\ h.producer \in Bytes(H) /\ h.sig \in Bytes(S)
    BY <1>0 DEF HeaderType
  <2> QED BY ONLY <2>1, <1>1, BytesSeq DEF Has
<1>5. Has(p10, d)
  BY <1>0, Parents DEF Has, HeaderType
<1>6. Encode(h) = e12
  BY DEF Encode, Join
<1> HIDE DEF p1, p2, p3, p9, p10, p11, p12
<1> HIDE DEF e2, e3, e4, e5, e6, e7, e8, e9, e10, e11, e12
<1>e2. Has(e2, 2)
  <2>1. 1 \in Nat /\ 1 \in Nat /\ 2 = 1 + 1
    BY ONLY <1>1
  <2>2. Has(p1, 1) /\ Has(p2, 1)
    BY ONLY <1>2
  <2>3. Has(Join(p1, p2), 2)
    BY ONLY <2>1, <2>2, JoinHas
  <2> QED BY ONLY <2>3 DEF e2
<1>e3. Has(e3, 10)
  <2>1. 2 \in Nat /\ 8 \in Nat /\ 10 = 2 + 8
    BY ONLY <1>1
  <2>2. Has(e2, 2) /\ Has(p3, 8)
    BY ONLY <1>e2, <1>3
  <2>3. Has(Join(e2, p3), 10)
    BY ONLY <2>1, <2>2, JoinHas
  <2> QED BY ONLY <2>3 DEF e3
<1>e4. Has(e4, (10 + H))
  <2>1. 10 \in Nat /\ H \in Nat /\ (10 + H) = 10 + H
    BY ONLY <1>1
  <2>2. Has(e3, 10) /\ Has(h.hash, H)
    BY ONLY <1>e3, <1>4
  <2>3. Has(Join(e3, h.hash), (10 + H))
    BY ONLY <2>1, <2>2, JoinHas
  <2> QED BY ONLY <2>3 DEF e4
<1>e5. Has(e5, (10 + 2 * H))
  <2>1. (10 + H) \in Nat /\ H \in Nat /\ (10 + 2 * H) = (10 + H) + H
    BY ONLY <1>1
  <2>2. Has(e4, (10 + H)) /\ Has(h.stateRoot, H)
    BY ONLY <1>e4, <1>4
  <2>3. Has(Join(e4, h.stateRoot), (10 + 2 * H))
    BY ONLY <2>1, <2>2, JoinHas
  <2> QED BY ONLY <2>3 DEF e5
<1>e6. Has(e6, (10 + 3 * H))
  <2>1. (10 + 2 * H) \in Nat /\ H \in Nat /\ (10 + 3 * H) = (10 + 2 * H) + H
    BY ONLY <1>1
  <2>2. Has(e5, (10 + 2 * H)) /\ Has(h.txRoot, H)
    BY ONLY <1>e5, <1>4
  <2>3. Has(Join(e5, h.txRoot), (10 + 3 * H))
    BY ONLY <2>1, <2>2, JoinHas
  <2> QED BY ONLY <2>3 DEF e6
<1>e7. Has(e7, (10 + 4 * H))
  <2>1. (10 + 3 * H) \in Nat /\ H \in Nat /\ (10 + 4 * H) = (10 + 3 * H) + H
    BY ONLY <1>1
  <2>2. Has(e6, (10 + 3 * H)) /\ Has(h.producer, H)
    BY ONLY <1>e6, <1>4
  <2>3. Has(Join(e6, h.producer), (10 + 4 * H))
    BY ONLY <2>1, <2>2, JoinHas
  <2> QED BY ONLY <2>3 DEF e7
<1>e8. Has(e8, (10 + 4 * H + S))
  <2>1. (10 + 4 * H) \in Nat /\ S \in Nat /\ (10 + 4 * H + S) = (10 + 4 * H) + S
    BY ONLY <1>1
  <2>2. Has(e7, (10 + 4 * H)) /\ Has(h.sig, S)
    BY ONLY <1>e7, <1>4
  <2>3. Has(Join(e7, h.sig), (10 + 4 * H + S))
    BY ONLY <2>1, <2>2, JoinHas
  <2> QED BY ONLY <2>3 DEF e8
<1>e9. Has(e9, (11 + 4 * H + S))
  <2>1. (10 + 4 * H + S) \in Nat /\ 1 \in Nat /\ (11 + 4 * H + S) = (10 + 4 * H + S) + 1
    BY ONLY <1>1
  <2>2. Has(e8, (10 + 4 * H + S)) /\ Has(p9, 1)
    BY ONLY <1>e8, <1>2
  <2>3. Has(Join(e8, p9), (11 + 4 * H + S))
    BY ONLY <2>1, <2>2, JoinHas
  <2> QED BY ONLY <2>3 DEF e9
<1>e10. Has(e10, (11 + 4 * H + S + d))
  <2>1. (11 + 4 * H + S) \in Nat /\ d \in Nat /\ (11 + 4 * H + S + d) = (11 + 4 * H + S) + d
    BY ONLY <1>1
  <2>2. Has(e9, (11 + 4 * H + S)) /\ Has(p10, d)
    BY ONLY <1>e9, <1>5
  <2>3. Has(Join(e9, p10), (11 + 4 * H + S + d))
    BY ONLY <2>1, <2>2, JoinHas
  <2> QED BY ONLY <2>3 DEF e10
<1>e11. Has(e11, (13 + 4 * H + S + d))
  <2>1. (11 + 4 * H + S + d) \in Nat /\ 2 \in Nat /\ (13 + 4 * H + S + d) = (11 + 4 * H + S + d) + 2
    BY ONLY <1>1
  <2>2. Has(e10, (11 + 4 * H + S + d)) /\ Has(p11, 2)
    BY ONLY <1>e10, <1>3
  <2>3. Has(Join(e10, p11), (13 + 4 * H + S + d))
    BY ONLY <2>1, <2>2, JoinHas
  <2> QED BY ONLY <2>3 DEF e11
<1>e12. Has(e12, (21 + 4 * H + S + d))
  <2>1. (13 + 4 * H + S + d) \in Nat /\ 8 \in Nat /\ (21 + 4 * H + S + d) = (13 + 4 * H + S + d) + 8
    BY ONLY <1>1
  <2>2. Has(e11, (13 + 4 * H + S + d)) /\ Has(p12, 8)
    BY ONLY <1>e11, <1>3
  <2>3. Has(Join(e11, p12), (21 + 4 * H + S + d))
    BY ONLY <2>1, <2>2, JoinHas
  <2> QED BY ONLY <2>3 DEF e12
<1>7. /\ p1 \in Seq(Byte) /\ p2 \in Seq(Byte) /\ p3 \in Seq(Byte) /\ p9 \in Seq(Byte)
      /\ p10 \in Seq(Byte) /\ p11 \in Seq(Byte) /\ p12 \in Seq(Byte)
      /\ h.hash \in Seq(Byte) /\ h.stateRoot \in Seq(Byte) /\ h.txRoot \in Seq(Byte)
      /\ h.producer \in Seq(Byte) /\ h.sig \in Seq(Byte)
  BY ONLY <1>2, <1>3, <1>4, <1>5 DEF Has
<1>8. /\ e2 \in Seq(Byte) /\ e3 \in Seq(Byte) /\ e4 \in Seq(Byte) /\ e5 \in Seq(Byte)
      /\ e6 \in Seq(Byte) /\ e7 \in Seq(Byte) /\ e8 \in Seq(Byte) /\ e9 \in Seq(Byte)
      /\ e10 \in Seq(Byte) /\ e11 \in Seq(Byte) /\ e12 \in Seq(Byte)
  BY ONLY <1>e2, <1>e3, <1>e4, <1>e5, <1>e6, <1>e7, <1>e8, <1>e9, <1>e10, <1>e11, <1>e12 DEF Has
<1>12. Stands(e12, 1, e11) /\ Stands(e12, Len(e11) + 1, p12)
  <2>1. Stands(Join(e11, p12), 1, e11) /\ Stands(Join(e11, p12), Len(e11) + 1, p12)
    BY ONLY <1>7, <1>8, Joined
  <2> QED BY ONLY <2>1 DEF e12
<1>13. Stands(e12, 1, e10) /\ Stands(e12, Len(e10) + 1, p11)
  BY ONLY <1>7, <1>8, <1>12, Peel DEF e11
<1>14. Stands(e12, 1, e9) /\ Stands(e12, Len(e9) + 1, p10)
  BY ONLY <1>7, <1>8, <1>13, Peel DEF e10
<1>15. Stands(e12, 1, e8) /\ Stands(e12, Len(e8) + 1, p9)
  BY ONLY <1>7, <1>8, <1>14, Peel DEF e9
<1>16. Stands(e12, 1, e7) /\ Stands(e12, Len(e7) + 1, h.sig)
  BY ONLY <1>7, <1>8, <1>15, Peel DEF e8
<1>17. Stands(e12, 1, e6) /\ Stands(e12, Len(e6) + 1, h.producer)
  BY ONLY <1>7, <1>8, <1>16, Peel DEF e7
<1>18. Stands(e12, 1, e5) /\ Stands(e12, Len(e5) + 1, h.txRoot)
  BY ONLY <1>7, <1>8, <1>17, Peel DEF e6
<1>19. Stands(e12, 1, e4) /\ Stands(e12, Len(e4) + 1, h.stateRoot)
  BY ONLY <1>7, <1>8, <1>18, Peel DEF e5
<1>20. Stands(e12, 1, e3) /\ Stands(e12, Len(e3) + 1, h.hash)
  BY ONLY <1>7, <1>8, <1>19, Peel DEF e4
<1>21. Stands(e12, 1, e2) /\ Stands(e12, Len(e2) + 1, p3)
  BY ONLY <1>7, <1>8, <1>20, Peel DEF e3
<1>22. Stands(e12, 1, p1) /\ Stands(e12, Len(p1) + 1, p2)
  BY ONLY <1>7, <1>8, <1>21, Peel DEF e2
<1>23a. Len(p1) + 1 = 2
  <2>1. Len(p1) = 1
    BY ONLY <1>2 DEF Has
  <2> QED BY ONLY <2>1, <1>1
<1>23b. Len(e2) + 1 = 3
  <2>1. Len(e2) = 2
    BY ONLY <1>e2 DEF Has
  <2> QED BY ONLY <2>1, <1>1
<1>23c. Len(e3) + 1 = 11
  <2>1. Len(e3) = 10
    BY ONLY <1>e3 DEF Has
  <2> QED BY ONLY <2>1, <1>1
<1>23d. Len(e4) + 1 = 11 + H
  <2>1. Len(e4) = (10 + H)
    BY ONLY <1>e4 DEF Has
  <2> QED BY ONLY <2>1, <1>1
<1>23e. Len(e5) + 1 = 11 + 2 * H
  <2>1. Len(e5) = (10 + 2 * H)
    BY ONLY <1>e5 DEF Has
  <2> QED BY ONLY <2>1, <1>1
<1>23f. Len(e6) + 1 = 11 + 3 * H
  <2>1. Len(e6) = (10 + 3 * H)
    BY ONLY <1>e6 DEF Has
  <2> QED BY ONLY <2>1, <1>1
<1>23g. Len(e7) + 1 = 11 + 4 * H
  <2>1. Len(e7) = (10 + 4 * H)
    BY ONLY <1>e7 DEF Has
  <2> QED BY ONLY <2>1, <1>1
<1>23h. Len(e8) + 1 = 11 + 4 * H + S
  <2>1. Len(e8) = (10 + 4 * H + S)
    BY ONLY <1>e8 DEF Has
  <2> QED BY ONLY <2>1, <1>1
<1>23i. Len(e9) + 1 = 12 + 4 * H + S
  <2>1. Len(e9) = (11 + 4 * H + S)
    BY ONLY <1>e9 DEF Has
  <2> QED BY ONLY <2>1, <1>1
<1>23j. Len(e10) + 1 = 12 + 4 * H + S + d
  <2>1. Len(e10) = (11 + 4 * H + S + d)
    BY ONLY <1>e10 DEF Has
  <2> QED BY ONLY <2>1, <1>1
<1>23k. Len(e11) + 1 = 14 + 4 * H + S + d
  <2>1. Len(e11) = (13 + 4 * H + S + d)
    BY ONLY <1>e11 DEF Has
  <2> QED BY ONLY <2>1, <1>1
<1>24. Len(e12) = 21 + 4 * H + S + d
  BY ONLY <1>e12 DEF Has
<1>30. Stands(e12, 1, Pack(BLOCK_HEADER, TypeLen))
  BY ONLY <1>22 DEF p1
<1>31. Stands(e12, 2, Pack(VERSION, VersionLen))
  BY ONLY <1>23a, <1>22 DEF p2
<1>32. Stands(e12, 3, Pack(h.height, HeightLen))
  BY ONLY <1>23b, <1>21 DEF p3
<1>33. Stands(e12, 11, h.hash)
  BY ONLY <1>23c, <1>20
<1>34. Stands(e12, 11 + H, h.stateRoot)
  BY ONLY <1>23d, <1>19
<1>35. Stands(e12, 11 + 2 * H, h.txRoot)
  BY ONLY <1>23e, <1>18
<1>36. Stands(e12, 11 + 3 * H, h.producer)
  BY ONLY <1>23f, <1>17
<1>37. Stands(e12, 11 + 4 * H, h.sig)
  BY ONLY <1>23g, <1>16
<1>38. Stands(e12, 11 + 4 * H + S, Pack(Len(h.parents), CountLen))
  BY ONLY <1>23h, <1>15 DEF p9
<1>39. Stands(e12, 12 + 4 * H + S, FlattenSeq(h.parents))
  BY ONLY <1>23i, <1>14 DEF p10
<1>40. Stands(e12, 12 + 4 * H + S + d, Pack(h.txs, TxsLen))
  BY ONLY <1>23j, <1>13 DEF p11
<1>41. Stands(e12, 14 + 4 * H + S + d, Pack(h.time, TimeLen))
  BY ONLY <1>23k, <1>12 DEF p12
<1>42. LaidOut(e12, h, H, S, d)
  BY ONLY <1>8, <1>24, <1>30, <1>31, <1>32, <1>33, <1>34, <1>35, <1>36, <1>37, <1>38,
          <1>39, <1>40, <1>41
          DEF LaidOut, p10
<1> QED BY ONLY <1>0, <1>6, <1>42

\* What is read in a datagram whose n parents end before x.
ReadOf(s, n, H, S, x) ==
    [height |-> Unpack(Field(s, 3, 8)),
     hash |-> Field(s, 11, H), stateRoot |-> Field(s, 11 + H, H),
     txRoot |-> Field(s, 11 + 2 * H, H), producer |-> Field(s, 11 + 3 * H, H),
     sig |-> Field(s, 11 + 4 * H, S),
     parents |-> [i \in 1 .. n |-> Field(s, 12 + 4 * H + S + (i - 1) * H, H)],
     txs |-> Unpack(Field(s, x, 2)), time |-> Unpack(Field(s, x + 2, 8))]

\* s says it has n parents, and x comes after them.
Counts(s, n, H, S, x) == s[11 + 4 * H + S] = n /\ n \in Nat /\ x = 12 + 4 * H + S + n * H

ReadAs(s, n, H, S, x) ==
    IF \/ Len(s) < 21 + 4 * H + S \/ s[1] # BLOCK_HEADER \/ s[2] # VERSION
       \/ Len(s) < x + 2 + 8 - 1
    THEN Refused ELSE ReadOf(s, n, H, S, x)

LEMMA DecodeIs ==
    ASSUME NEW s, NEW n, NEW H, H = HashLen, NEW S, S = SigLen, NEW x, Counts(s, n, H, S, x)
    PROVE  Decode(s) = ReadAs(s, n, H, S, x)
<1>0. s[11 + 4 * H + S] = n /\ n \in Nat /\ x = 12 + 4 * H + S + n * H
  BY DEF Counts
<1>1. H \in Nat /\ S \in Nat /\ n * H \in Nat
  BY <1>0, BaseIs, TimesMono
<1>2. TypeLen + VersionLen + 1 = 3 /\ TypeLen + VersionLen + HeightLen + 1 = 11
  BY DEF TypeLen, VersionLen, HeightLen
<1>3. (11 + 4 * HashLen) + SigLen = 11 + 4 * H + S
  OBVIOUS
<1>4. (11 + 4 * H + S) + CountLen = 12 + 4 * H + S
  BY ONLY <1>1 DEF CountLen
<1>5. Shortest = 21 + 4 * H + S
  <2>1. 1 + 1 + 8 + 4 * H + S + 1 + 2 + 8 = 21 + 4 * H + S
    BY ONLY <1>1
  <2> QED BY <2>1 DEF Shortest, TypeLen, VersionLen, HeightLen, CountLen, TxsLen, TimeLen
<1>6. HeightLen = 8 /\ TxsLen = 2 /\ TimeLen = 8
  BY DEF HeightLen, TxsLen, TimeLen
<1>7. HashLen = H /\ SigLen = S
  OBVIOUS
<1>8. (11 + 4 * H + S) + CountLen + s[11 + 4 * H + S] * H = x
  BY <1>0, <1>4
<1> DEFINE Parsed(hash, sig, count, txs) ==
             IF \/ Len(s) < Shortest \/ s[1] # BLOCK_HEADER \/ s[2] # VERSION
                \/ Len(s) < txs + TxsLen + TimeLen - 1
             THEN Refused
             ELSE [height |-> Unpack(Field(s, TypeLen + VersionLen + 1, HeightLen)),
                   hash |-> Field(s, hash, HashLen), stateRoot |-> Field(s, hash + HashLen, HashLen),
                   txRoot |-> Field(s, hash + 2 * HashLen, HashLen),
                   producer |-> Field(s, hash + 3 * HashLen, HashLen),
                   sig |-> Field(s, sig, SigLen),
                   parents |-> [i \in 1 .. s[count] |->
                                  Field(s, count + CountLen + (i - 1) * HashLen, HashLen)],
                   txs |-> Unpack(Field(s, txs, TxsLen)),
                   time |-> Unpack(Field(s, txs + TxsLen, TimeLen))]
<1> DEFINE hash0 == TypeLen + VersionLen + HeightLen + 1
           sig0 == hash0 + 4 * HashLen
           count0 == sig0 + SigLen
<1>9. Decode(s) = Parsed(hash0, sig0, count0, count0 + CountLen + s[count0] * HashLen)
  BY DEF Decode
<1>10. Decode(s) = Parsed(11, 11 + 4 * H, 11 + 4 * H + S, x)
  <2> HIDE DEF Parsed
  <2>1. hash0 = 11
    BY <1>2
  <2>2. sig0 = 11 + 4 * H
    BY <2>1, <1>7
  <2>3. count0 = 11 + 4 * H + S
    BY ONLY <2>2, <1>7 DEF count0
  <2>4. count0 + CountLen + s[count0] * HashLen = x
    BY ONLY <2>3, <1>7, <1>8
  <2> HIDE DEF hash0, sig0, count0
  <2> QED BY ONLY <2>1, <2>2, <2>3, <2>4, <1>9
<1> HIDE DEF Parsed
<1> QED
  BY ONLY <1>2, <1>4, <1>5, <1>6, <1>7, <1>0, <1>10 DEF Parsed, ReadAs, ReadOf

LEMMA FirstByte ==
    ASSUME NEW s, NEW at \in Nat, NEW p, Has(p, 1), Stands(s, at, p)
    PROVE  s[at] = p[1]
<1>1. 1 \in 1 .. Len(p) /\ at + 1 - 1 = at
  BY DEF Has
<1> QED BY <1>1 DEF Stands

LEMMA FieldHas ==
    ASSUME NEW s \in Seq(Byte), NEW at \in Nat \ {0}, NEW p, NEW m, Has(p, m), Stands(s, at, p)
    PROVE  Field(s, at, m) = p
BY FieldStands DEF Has

LEMMA Cut ==
    ASSUME NEW s \in Seq(Byte), NEW m \in Nat, m <= Len(s)
    PROVE  Len(SubSeq(s, 1, m)) = m /\ \A i \in 1 .. m : SubSeq(s, 1, m)[i] = s[i]
OBVIOUS

\* len bytes of p from from.
Inside(p, from, len) == from \in Nat \ {0} /\ len \in Nat /\ from + len - 1 <= Len(p)
FieldPast(s, at, from, len) == Field(s, at + from - 1, len)

LEMMA FieldInside ==
    ASSUME NEW s \in Seq(Byte), NEW at \in Nat \ {0}, NEW p \in Seq(Byte), Stands(s, at, p),
           NEW from, NEW len, Inside(p, from, len)
    PROVE  FieldPast(s, at, from, len) = Field(p, from, len)
<1>1. from \in Nat \ {0} /\ len \in Nat /\ from + len - 1 <= Len(p)
  BY DEF Inside
<1>2. Field(s, at + from - 1, len) = Field(p, from, len)
  BY <1>1, FieldWithin
<1> QED BY ONLY <1>2 DEF FieldPast

\* A header's datagram read back is the header, its length is that of its parts,
\* and without its last byte it is refused.
LEMMA HeaderRead ==
    ASSUME NEW h \in HeaderType, Encodable(h)
    PROVE  LET s == Encode(h)
           IN  /\ Decode(s) = h
               /\ Len(s) = Shortest + HashLen * Len(h.parents)
               /\ Decode(SubSeq(s, 1, Len(s) - 1)) = Refused
<1>1. PICK H \in Nat, S \in Nat, n \in Nat : H = HashLen /\ S = SigLen /\ n = Len(h.parents) /\ H > 0
  <2>1. Len(h.parents) \in Nat
    BY DEF HeaderType
  <2> QED BY <2>1, BaseIs
<1>2. PICK d \in Nat : d = n * H /\ d = Len(h.parents) * HashLen
  BY <1>1, TimesMono
<1> DEFINE s == Encode(h)
           ps == FlattenSeq(h.parents)
           x == 12 + 4 * H + S + d
<1>3. /\ s \in Seq(Byte) /\ Len(s) = 21 + 4 * H + S + d
      /\ Stands(s, 1, Pack(BLOCK_HEADER, TypeLen)) /\ Stands(s, 2, Pack(VERSION, VersionLen))
      /\ Stands(s, 3, Pack(h.height, HeightLen))
      /\ Stands(s, 11, h.hash) /\ Stands(s, 11 + H, h.stateRoot)
      /\ Stands(s, 11 + 2 * H, h.txRoot) /\ Stands(s, 11 + 3 * H, h.producer)
      /\ Stands(s, 11 + 4 * H, h.sig)
      /\ Stands(s, 11 + 4 * H + S, Pack(Len(h.parents), CountLen))
      /\ Stands(s, 12 + 4 * H + S, ps)
      /\ Stands(s, 12 + 4 * H + S + d, Pack(h.txs, TxsLen))
      /\ Stands(s, 14 + 4 * H + S + d, Pack(h.time, TimeLen))
  <2>1. LaidOut(s, h, H, S, d)
    BY ONLY h \in HeaderType, Encodable(h), <1>1, <1>2, Layout
  <2> QED BY ONLY <2>1 DEF LaidOut
<1> HIDE DEF s, ps
<1>a. H \in Nat /\ S \in Nat /\ n \in Nat /\ d \in Nat
  BY ONLY <1>1, <1>2
<1>b. s \in Seq(Byte)
  BY ONLY <1>3
<1>c. PICK l \in Nat : l = Len(s) /\ l = 21 + 4 * H + S + d
  BY ONLY <1>3, <1>a
<1>4. s[1] = BLOCK_HEADER /\ s[2] = VERSION
  <2>1. Has(Pack(1, 1), 1) /\ Pack(1, 1)[1] = 1
    BY Packed, PackByte, OneFits DEF Has
  <2>2. Stands(s, 1, Pack(1, 1)) /\ Stands(s, 2, Pack(1, 1))
    BY <1>3 DEF BLOCK_HEADER, TypeLen, VERSION, VersionLen
  <2>3. s[1] = 1 /\ s[2] = 1
    BY ONLY <2>1, <2>2, FirstByte
  <2> QED BY <2>3 DEF BLOCK_HEADER, VERSION
<1>5. s[11 + 4 * H + S] = n
  <2>1. Fits(n, 1)
    BY <1>1 DEF Encodable, CountLen
  <2>2. Has(Pack(n, 1), 1) /\ Pack(n, 1)[1] = n
    BY <1>1, <2>1, Packed, PackByte DEF Has
  <2>3. Stands(s, 11 + 4 * H + S, Pack(n, 1))
    BY <1>1, <1>3 DEF CountLen
  <2>4. 11 + 4 * H + S \in Nat
    BY ONLY <1>1
  <2> QED BY ONLY <2>2, <2>3, <2>4, FirstByte
<1>6. /\ 3 \in Nat \ {0} /\ 11 \in Nat \ {0} /\ 11 + H \in Nat \ {0} /\ 11 + 2 * H \in Nat \ {0}
      /\ 11 + 3 * H \in Nat \ {0} /\ 11 + 4 * H \in Nat \ {0} /\ 12 + 4 * H + S \in Nat \ {0}
  BY ONLY <1>1
<1>7. /\ x \in Nat \ {0} /\ x + 2 \in Nat \ {0} /\ x + 2 = 14 + 4 * H + S + d
      /\ x + 2 + 8 - 1 = Len(s) /\ ~(Len(s) < 21 + 4 * H + S) /\ ~(Len(s) < x + 2 + 8 - 1)
  <2>1. x + 2 + 8 - 1 = l /\ ~(l < 21 + 4 * H + S) /\ ~(l < x + 2 + 8 - 1)
    BY ONLY <1>a, <1>c
  <2>2. x \in Nat \ {0} /\ x + 2 \in Nat \ {0} /\ x + 2 = 14 + 4 * H + S + d
    BY ONLY <1>a
  <2> QED BY ONLY <2>1, <2>2, <1>c
<1>8. /\ Field(s, 11, H) = h.hash /\ Field(s, 11 + H, H) = h.stateRoot
      /\ Field(s, 11 + 2 * H, H) = h.txRoot /\ Field(s, 11 + 3 * H, H) = h.producer
      /\ Field(s, 11 + 4 * H, S) = h.sig
  <2>1. /\ Has(h.hash, H) /\ Has(h.stateRoot, H) /\ Has(h.txRoot, H) /\ Has(h.producer, H)
        /\ Has(h.sig, S)
    BY <1>1, BytesSeq DEF Has, HeaderType
  <2> QED BY ONLY <2>1, <1>3, <1>6, FieldHas
<1>9. Unpack(Field(s, 3, 8)) = h.height
  <2>1. Has(Pack(h.height, 8), 8) /\ Unpack(Pack(h.height, 8)) = h.height
    <3>1. h.height \in Nat /\ Fits(h.height, 8)
      BY DEF HeaderType, Encodable, HeightLen
    <3> QED BY ONLY <3>1, Packed, PackUnpack DEF Has
  <2>2. Stands(s, 3, Pack(h.height, 8))
    BY <1>3 DEF HeightLen
  <2>3. Field(s, 3, 8) = Pack(h.height, 8)
    BY ONLY <2>1, <2>2, <1>3, <1>6, FieldHas
  <2> QED BY ONLY <2>1, <2>3
<1>10. Unpack(Field(s, x, 2)) = h.txs
  <2>1. Has(Pack(h.txs, 2), 2) /\ Unpack(Pack(h.txs, 2)) = h.txs
    <3>1. h.txs \in Nat /\ Fits(h.txs, 2)
      BY DEF HeaderType, Encodable, TxsLen
    <3> QED BY ONLY <3>1, Packed, PackUnpack DEF Has
  <2>2. Stands(s, x, Pack(h.txs, 2))
    <3>1. Stands(s, x, Pack(h.txs, TxsLen))
      BY ONLY <1>3
    <3> QED BY ONLY <3>1 DEF TxsLen
  <2>3. Field(s, x, 2) = Pack(h.txs, 2)
    BY ONLY <2>1, <2>2, <1>3, <1>7, FieldHas
  <2> QED BY ONLY <2>1, <2>3
<1>11. Unpack(Field(s, x + 2, 8)) = h.time
  <2>1. Has(Pack(h.time, 8), 8) /\ Unpack(Pack(h.time, 8)) = h.time
    <3>1. h.time \in Nat /\ Fits(h.time, 8)
      BY DEF HeaderType, Encodable, TimeLen
    <3> QED BY ONLY <3>1, Packed, PackUnpack DEF Has
  <2>2. Stands(s, 14 + 4 * H + S + d, Pack(h.time, 8))
    BY <1>3 DEF TimeLen
  <2>3. Stands(s, x + 2, Pack(h.time, 8))
    BY ONLY <2>2, <1>7
  <2>4. Field(s, x + 2, 8) = Pack(h.time, 8)
    BY ONLY <2>1, <2>3, <1>3, <1>7, FieldHas
  <2> QED BY ONLY <2>1, <2>4
<1>12. \A i \in 1 .. n : Field(s, 12 + 4 * H + S + (i - 1) * H, H) = h.parents[i]
  <2>1. h.parents \in Seq(Bytes(HashLen))
    BY DEF HeaderType
  <2>2. ps \in Seq(Byte) /\ Len(ps) = d
    BY ONLY <2>1, <1>2, Parents DEF ps
  <2>3. ASSUME NEW i \in 1 .. n
        PROVE  Field(s, 12 + 4 * H + S + (i - 1) * H, H) = h.parents[i]
    <3>1. PICK z \in Nat : z = (i - 1) * H /\ z + H <= d
      <4>1. PICK j \in Nat : j = i - 1 /\ j + 1 <= n
        BY <1>1
      <4>2. j * H \in Nat /\ (j + 1) * H = j * H + H
        BY <4>1, <1>1, TimesMono
      <4>3. (j + 1) * H <= n * H
        BY <4>1, <1>1, TimesMono
      <4> QED BY <4>1, <4>2, <4>3, <1>2
    <3>2. Field(ps, z + 1, H) = h.parents[i]
      <4>1. Field(FlattenSeq(h.parents), (i - 1) * HashLen + 1, HashLen) = h.parents[i]
        BY <2>1, <1>1, Parents
      <4>2. (i - 1) * HashLen + 1 = z + 1
        BY <1>1, <3>1
      <4> QED BY ONLY <4>1, <4>2, <1>1 DEF ps
    <3>3. z + 1 \in Nat \ {0} /\ (z + 1) + H - 1 <= Len(ps)
      <4>1. z + 1 \in Nat \ {0} /\ (z + 1) + H - 1 <= d
        BY ONLY <1>a, <3>1
      <4> QED BY ONLY <4>1, <2>2
    <3>4. Field(s, (12 + 4 * H + S) + (z + 1) - 1, H) = Field(ps, z + 1, H)
      <4>1. Stands(s, 12 + 4 * H + S, ps)
        BY ONLY <1>3
      <4>2. Inside(ps, z + 1, H)
        BY ONLY <3>3, <1>a DEF Inside
      <4>3. FieldPast(s, 12 + 4 * H + S, z + 1, H) = Field(ps, z + 1, H)
        BY ONLY <4>1, <4>2, <1>b, <1>6, <2>2, FieldInside
      <4> QED BY ONLY <4>3 DEF FieldPast
    <3>5. (12 + 4 * H + S) + (z + 1) - 1 = 12 + 4 * H + S + (i - 1) * H
      <4>1. (12 + 4 * H + S) + (z + 1) - 1 = 12 + 4 * H + S + z
        BY ONLY <1>1, <3>1
      <4> QED BY ONLY <4>1, <3>1
    <3> QED BY ONLY <3>2, <3>4, <3>5
  <2> QED BY <2>3
<1>13. [i \in 1 .. n |-> Field(s, 12 + 4 * H + S + (i - 1) * H, H)] = h.parents
  <2>1. h.parents = [i \in 1 .. n |-> h.parents[i]]
    BY <1>1 DEF HeaderType
  <2> QED BY ONLY <2>1, <1>12
<1>14. Decode(s) = [height |-> h.height, hash |-> h.hash, stateRoot |-> h.stateRoot,
                    txRoot |-> h.txRoot, producer |-> h.producer, sig |-> h.sig,
                    parents |-> h.parents, txs |-> h.txs, time |-> h.time]
  <2>1. x = 12 + 4 * H + S + n * H
    BY <1>2
  <2> HIDE DEF x
  <2>2. Counts(s, n, H, S, x)
    BY ONLY <1>a, <1>5, <2>1 DEF Counts
  <2>2a. Decode(s) = ReadAs(s, n, H, S, x)
    BY ONLY <1>1, <2>2, DecodeIs
  <2>3. Decode(s) = ReadOf(s, n, H, S, x)
    BY ONLY <2>2a, <1>4, <1>7 DEF ReadAs
  <2> QED BY ONLY <2>3, <1>8, <1>9, <1>10, <1>11, <1>13 DEF ReadOf
<1>15. Decode(s) = h
  <2>1. h = [height |-> h.height, hash |-> h.hash, stateRoot |-> h.stateRoot,
             txRoot |-> h.txRoot, producer |-> h.producer, sig |-> h.sig,
             parents |-> h.parents, txs |-> h.txs, time |-> h.time]
    BY DEF HeaderType
  <2> QED BY ONLY <2>1, <1>14
<1>16. Len(s) = Shortest + HashLen * Len(h.parents)
  <2>1. Shortest = 21 + 4 * H + S
    <3>1. 1 + 1 + 8 + 4 * H + S + 1 + 2 + 8 = 21 + 4 * H + S
      BY ONLY <1>1
    <3> QED BY <3>1, <1>1 DEF Shortest, TypeLen, VersionLen, HeightLen, CountLen, TxsLen, TimeLen
  <2>2. HashLen * Len(h.parents) = d
    <3>1. H * n = n * H
      BY ONLY <1>1
    <3> QED BY ONLY <3>1, <1>1, <1>2
  <2> QED BY ONLY <2>1, <2>2, <1>1, <1>2, <1>3
<1>17. Decode(SubSeq(s, 1, Len(s) - 1)) = Refused
  <2>1. PICK t : t = SubSeq(s, 1, Len(s) - 1)
    OBVIOUS
  <2>2. PICK m \in Nat : m = Len(s) - 1 /\ m <= Len(s) /\ m = 20 + 4 * H + S + d
    <3>1. l - 1 \in Nat /\ l - 1 <= l /\ l - 1 = 20 + 4 * H + S + d
      BY ONLY <1>a, <1>c
    <3> QED BY ONLY <3>1, <1>c
  <2>3. Len(t) = m /\ \A i \in 1 .. m : t[i] = s[i]
    <3>1. t = SubSeq(s, 1, m)
      BY ONLY <2>1, <2>2
    <3> QED BY ONLY <1>b, <2>2, <3>1, Cut
  <2>4. t[11 + 4 * H + S] = n
    <3>1. 11 + 4 * H + S \in 1 .. m
      BY ONLY <1>a, <2>2
    <3> QED BY ONLY <3>1, <2>3, <1>5
  <2>5. Len(t) < x + 2 + 8 - 1
    <3>1. Len(t) = m
      BY ONLY <2>3
    <3>2. m < x + 2 + 8 - 1
      BY ONLY <1>a, <2>2
    <3> QED BY ONLY <3>1, <3>2
  <2>6. x = 12 + 4 * H + S + n * H
    BY <1>2
  <2> HIDE DEF x
  <2>7. Counts(t, n, H, S, x)
    BY ONLY <1>a, <2>4, <2>6 DEF Counts
  <2>8. Decode(t) = ReadAs(t, n, H, S, x)
    BY ONLY <1>1, <2>7, DecodeIs
  <2> QED BY ONLY <2>1, <2>5, <2>8 DEF ReadAs
<1> QED BY <1>15, <1>16, <1>17 DEF s

\* The announcement of a block in flight tells its header, whatever its fields are
\* and however many parents it names (quic.py encode_compact_block_header and its
\* reader).  No step is needed: it holds of every header.
THEOREM HeadersTold == GossipSpec => []HeaderTold
<1>1. HeaderTold
  <2>1. \A b \in Blocks : Header[b] \in HeaderType
    BY GossipAssumption
  <2> QED BY <2>1, HeaderRead DEF HeaderTold
<1> QED BY <1>1, PTL

=============================================================================
