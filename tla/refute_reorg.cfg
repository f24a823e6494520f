\* Fair schedule: two blocks on either chain, one of them replaced once.
CONSTANTS
    LastProposal = 1
    CallsOf <- MCCallsOf
    Pinned = {1}
    InitialCount = 1
    InitialWallets = {"collateral"}
    Lookback = 1
    Ticks = {t1}
    Budgets <- ReorgBudgets
SPECIFICATION FairSpec
PROPERTIES ReorgIsSurvived
CHECK_DEADLOCK FALSE
