\* Fair schedule: a proposal is cancelled, and one tick fails.
CONSTANTS
    LastProposal = 1
    CallsOf <- MCCallsOf
    Pinned = {1}
    InitialCount = 1
    InitialWallets = {"collateral"}
    Lookback = 1
    Ticks = {t1}
    Budgets <- FailureBudgets
SPECIFICATION FairSpec
PROPERTIES DeathReachesRuns
CHECK_DEADLOCK FALSE
