\* Fair schedule: two requests, one for a key whose payload is refused on every
\* attempt; as many failed writes as a job has attempts, a failed replay, a crash.
CONSTANTS
    k1 = k1  k2 = k2  k3 = k3  k1r = k1r
    a1 = a1  a2 = a2
    h1 = h1  h2 = h2
    NoKey = NoKey  NoRun = NoRun  NoHash = NoHash  NoWorker = NoWorker
    Keys = {k1, k2}
    RerunKeys = {}
    SupportedKeys = {k1}
    Wallets = {a1, a2}
    Hashes = {h1, h2}
    RunIds = {r1, r2}
    Producers = {p1, p2}
    Workers = {w1}
    Markers = {}
    MaxInflight = 2
    MaxAttempts = 2
    ConfigOk = TRUE
    AgentEnabled = FALSE
    StrategyFlags = {FALSE}
    WalletOf <- MCWalletOf
    HashWallet <- MCHashWallet
    Budget <- ProgressBudget
SPECIFICATION FairSpec
INVARIANTS AnnouncedProofIsShown
PROPERTIES RunningSettles JobsDrain ImplementsLedger
CHECK_DEADLOCK FALSE
