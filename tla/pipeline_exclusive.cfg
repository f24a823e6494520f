\* Three requests for three keys, two of them unsupported, racing for a queue of one;
\* two slots, a marking pass, a failed replay and a crash; no lock is lost.
CONSTANTS
    k1 = k1  k2 = k2  k3 = k3  k1r = k1r
    a1 = a1  a2 = a2
    h1 = h1  h2 = h2
    NoKey = NoKey  NoRun = NoRun  NoHash = NoHash  NoWorker = NoWorker
    Keys = {k1, k2, k3}
    RerunKeys = {}
    SupportedKeys = {k1}
    Wallets = {a1, a2}
    Hashes = {h1}
    RunIds = {r1, r2, r3}
    Producers = {p1, p2}
    Workers = {w1, w2}
    Markers = {m1}
    MaxInflight = 1
    MaxAttempts = 2
    ConfigOk = TRUE
    AgentEnabled = FALSE
    StrategyFlags = {FALSE}
    WalletOf <- MCWalletOf
    HashWallet <- MCHashWallet
    Budget <- ExclusiveBudget
SPECIFICATION Spec
SYMMETRY IdsSlotsAndKeys
INVARIANTS NoSharedRun InflightBound
PROPERTIES EndedRunStaysEnded
CHECK_DEADLOCK FALSE
