\* Two polls that overlap, a log of five events: every scenario of StreamBudgets.
CONSTANTS
    MaxLog = 5
    MaxFetches = 1
    Budgets <- StreamBudgets
SPECIFICATION FairSpec
INVARIANTS StreamTypeOK NothingSkipped
PROPERTIES ViewConverges StreamsEnd
CHECK_DEADLOCK FALSE
