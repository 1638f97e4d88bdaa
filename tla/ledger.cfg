SPECIFICATION LedgerSpec
CONSTANTS
    alice = alice
    bob = bob
    treasury = treasury
    escrow = escrow
    Scenarios = {"market", "control"}
    Users <- MCUsers
    Treasury = treasury
    Escrow = escrow
    Contents = {c1}
    Generations = {g1}
    NoGeneration = nogen
    NoService = noservice
    Orders = {o1}
    Jobs = {j1}
    Cells = {0}
    EvmLocks = {l1}
    Morm = MORM
    Tokens = {usdc}
    Services = {k1}
    Producers = {p1}
    SignerSets <- MCSignerSets
    Values = {150}
    GenesisSupply = 450
    FeeBps <- MCFeeBps
    BpsDenom <- MCBpsDenom
    ViewReward = 1
    MaxNonce <- MarketNonce
    MaxCosigs = 2
INVARIANTS    TokensBacked BurnIdsUnique
PROPERTIES   CosignedOnly
CHECK_DEADLOCK FALSE
