CONSTANTS
    h1 = h1
    h2 = h2
    b1 = b1
    b2 = b2
    k1 = k1
    k2 = k2
    k3 = k3
    u1 = u1
    u2 = u2
    m1 = m1
    m2 = m2
    Wallets = {h1, h2}
    Refusing = {h2}
    EvmOrders = {u1, u2}
    EvmContents = {k1}
    GenerationIds = {b1}
    NoGeneration = NoGeneration
    Nobody = Nobody
    Values = {100, 150}
    FirstEther = 250
    FEE_BPS = 100
    BPS_DENOM = 10000
    Holders = {h1, h2}
    Vault = Vault
    UsdcAtStart <- TwoDollars
    Sums = {1}
    MinLock = 1
    L1Burns = {b1, b2}
    ReleaseOf <- OneForEach
    Committee = {1, 2, 3}
    Threshold = 2
    Traitors = {1}
    GuardSigners = {4, 5, 6}
    GuardThreshold = 2
    GuardTraitors = {4}
    Council = Council
    Successor = Successor
    WindowLen = 2
    MaxUnlock = 1
    MaxNow = 3
    MaxGuardCalls = 2
    AllLocks = {k1, k2, k3}
    MaxTreasuryTx = 1
    UsdmLocks = {k1}
    LockAmount <- OneLocked
    UsdmBurns = {u1}
    BurnAmount <- OneBurned
    Keys <- MixedKeys
    Needed = 2
    LockConfirms = 1
    ResumeBuffer = 1
    NoUsdmBurn = NoUsdmBurn
    NoUsdmCursor = NoUsdmCursor
    MaxBlock = 3
    FirstLocks <- EtherAndUsdcIn
    FirstBurns <- EtherAndUsdcOut
    MultiBurns <- OneAndTwo
    ProposedBurns <- OneAndTwo
    FirstDeposit = 2
    Period = 2
    MaxSeconds = 4
SPECIFICATION ContractsSpec
INVARIANTS OnlyAsSigned  ChallengeVoids
PROPERTIES  ContractImplementsEscrow
CHECK_DEADLOCK FALSE
