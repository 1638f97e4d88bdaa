SPECIFICATION FairChainsSpec
CONSTANTS
    n1 = n1
    n2 = n2
    n3 = n3
    treasury = treasury
    alice = alice
    bob = bob
    Accounts = {treasury, alice, bob}
    Treasury = treasury
    Supply = 3
    Nodes = {n1, n2}
    Lockdown = {1}
    TreasuryNode = n1
    NoFrontier = NoFrontier
    DagProducers = {n1, n2}
    DagRegistered = 2
    DagHeight = 2
    Modes = {"slots"}
    Txs <- ChainTxs
    Reach <- Everywhere
    MaxHeight = 3
    Owners <- TwoThenOne
    Restarting = {n2}
    DagRank <- TreasuryFirst
    DagReach <- ConflictReach
    DagNodes = {n1, n2}
    DagPeers <- AllPeers
    DagRestarting = {}
    FinalReach <- FinalTxsReach
    FinalPeers <- TwoHear
    FinalRestarting = {}
PROPERTIES SyncEnds
CHECK_DEADLOCK FALSE
