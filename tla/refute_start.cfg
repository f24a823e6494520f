\* A failed run is requested again before its job has ended.
CONSTANTS
    k1 = k1  k2 = k2  k3 = k3  k1r = k1r
    a1 = a1  a2 = a2
    h1 = h1  h2 = h2
    NoKey = NoKey  NoRun = NoRun  NoHash = NoHash  NoWorker = NoWorker
    Keys = {k1}
    RerunKeys = {}
    SupportedKeys = {k1}
    Wallets = {a1}
    Hashes = {h1}
    RunIds = {r1}
    Producers = {p1}
    Workers = {w1}
    Markers = {}
    MaxInflight = 2
    MaxAttempts = 3
    ConfigOk = TRUE
    AgentEnabled = FALSE
    StrategyFlags = {FALSE}
    WalletOf <- MCWalletOf
    HashWallet <- MCHashWallet
    Budget <- FailRequeueBudget
SPECIFICATION FairSpec
PROPERTIES QueuedRunsStart
CHECK_DEADLOCK FALSE
