SPECIFICATION NetworkSpec
CONSTANTS
    a1 = a1
    a2 = a2
    a3 = a3
    b1 = b1
    alice = alice
    bob = bob
    block1 = block1
    block2 = block2
    Txs <- MCTxs
    Senders = {alice, bob}
    SenderOf <- MCSenderOf
    PeerBlocks = {block1, block2}
    TxsIn <- MCTxsIn
    NoBlock = none
    MaxTxs = 3
    MaxPerSender = 2
    n1 = n1
    n2 = n2
    n3 = n3
    c1 = c1
    c2 = c2
    tx = tx
    Nodes <- MCNodes
    Peers <- MCPeers
    Blocks <- MCBlocks
    Parent <- MCParent
    Header <- MCHeader
    Origin <- MCOrigin
    GossipTxs <- MCGossipTxs
    Entry <- MCEntry
    None = None
    Base = 4
    HashLen = 2
    SigLen = 3
    MaxBoots <- MCBoots
    MaxFaults = 1
    near = near
    far = far
    here = here
    Hosts = {near, far, here}
    Own = here
    SeedLists <- MCSeedLists
    Absent = Absent
    Width = 2
    Irreducible = 7
    SeedLengths = {1, 2}
    MaxRandom = 2
INVARIANTS
    NoTxDropped
    NoDuplicates
    CountsExact
    HeardByPeers
    HeaderTold
    PeersOrdered
    SharesRecover
PROPERTY
    GossipEnds
CHECK_DEADLOCK FALSE
