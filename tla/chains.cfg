SPECIFICATION ChainsSpec
CONSTANTS
    n1 = n1
    n2 = n2
    n3 = n3
    treasury = treasury
    alice = alice
    bob = bob
    Accounts = {treasury, alice, bob}
    Treasury = treasury
    Supply = 3
    Nodes = {n1, n2}
    Lockdown = {1}
    TreasuryNode = n1
    NoFrontier = NoFrontier
    DagProducers = {n1, n2}
    DagRegistered = 2
    DagHeight = 2
    Modes = {"slots", "dag", "final"}
    Txs <- ChainTxs
    Reach <- SplitReach
    MaxHeight = 4
    Owners <- ThreeThenOne
    Restarting = {n2}
    DagRank <- TreasuryFirst
    DagReach <- ConflictReach
    DagNodes = {n1, n2, n3}
    DagPeers <- OneWay
    DagRestarting = {n3}
    FinalReach <- FinalTxsReach
    FinalPeers <- TwoHear
    FinalRestarting = {}
INVARIANTS
    
    
    ShortcutsSound
    
    NeverTwice
CHECK_DEADLOCK FALSE
