\* A run and its rerun, two racing requests, two slots, a marking pass,
\* a failed write and a lost lock.
CONSTANTS
    k1 = k1  k2 = k2  k3 = k3  k1r = k1r
    a1 = a1  a2 = a2
    h1 = h1  h2 = h2
    NoKey = NoKey  NoRun = NoRun  NoHash = NoHash  NoWorker = NoWorker
    Keys = {k1, k1r}
    RerunKeys = {k1r}
    SupportedKeys = {k1, k1r}
    Wallets = {a1}
    Hashes = {h1, h2}
    RunIds = {r1, r2}
    Producers = {p1, p2}
    Workers = {w1, w2}
    Markers = {m1}
    MaxInflight = 2
    MaxAttempts = 2
    ConfigOk = TRUE
    AgentEnabled = TRUE
    StrategyFlags = {TRUE}
    WalletOf <- MCWalletOf
    HashWallet <- MCHashWallet
    Budget <- SafetyBudget
SPECIFICATION Spec
SYMMETRY IdsSlotsAndHashes
INVARIANTS TypeOK ProofRetrievable
CHECK_DEADLOCK FALSE
