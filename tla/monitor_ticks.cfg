\* Two proposals and two ticks that may overlap: every scenario of MonitorBudgets.
CONSTANTS
    LastProposal = 2
    CallsOf <- MCCallsOf
    Pinned = {1}
    InitialCount = 1
    InitialWallets = {"unmonitored", "collateral"}
    Lookback = 1
    Ticks = {t1, t2}
    Budgets <- MonitorBudgets
SPECIFICATION FairSpec
INVARIANTS MonitorTypeOK NoFalseReorg
PROPERTIES QuietChainsMarkNothing Converges TransitionsReachRuns ReorgReachesRuns ExposedWalletGetsRun
CHECK_DEADLOCK FALSE
