\* One job, its agent and the API's dry run, two ports, one fault of a kind.
CONSTANTS
    job = job  ag = ag  api = api
    Sessions = {job, ag, api}
    SimSessions = {job, ag}
    Job = job  Agent = ag  Api = api
    Children = {c1, c2, c3}
    FirstPort = 8545
    PortCount = 2
    LastPin = 1
    NoChild = NoChild
    NoAmount = NoAmount
    Markets = {1, 2}
    MaxBufferBps = 1000000
    MaxProbes <- MCMaxProbes
    RaisesBuffer = {ag}
    MaxSteps = 2
    MaxInvalid = 2
    Settings <- MCSettings
SPECIFICATION FairSpec
INVARIANTS RescueTypeOK NoForkLeftBehind ForeignForkIsExplained VerifiedIsSolvent
INVARIANTS VerifiedIsLeast OtherVerdictsAreTrue BranchesRunAsPlanned ReceiptsAgree AgentTellsWhatItVerified
PROPERTIES EverythingEnds UsesForksAsOffered
CHECK_DEADLOCK FALSE
