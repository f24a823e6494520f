\* Two calls, two attempts, three transactions, two wallets, nonces that last a
\* tick and sessions that last two: every scenario of AttemptScenarios.
CONSTANTS
    MaxVersion = 2
    Puts = {p1, p2}
    p1 = p1
    p2 = p2
    NCalls = 2
    MaxAttempts = 2
    MaxTxs = 3
    MaxRisk = 2
    Wallets = {owner, other}
    Owner = owner
    owner = owner
    other = other
    Nobody = Nobody
    NonceTtl = 1
    SessionTtl = 2
    MaxNonces = 2
    MaxTime = 3
    Verifications = {v1, v2}
    v1 = v1
    v2 = v2
    Scenarios <- AttemptScenarios
SPECIFICATION FairSpec
INVARIANTS ApiTypeOK NewestPolicyInForce StatusExplained VerifiedMeansDone SessionsAreEarned
PROPERTIES RegistrationsLast PageSettles
CHECK_DEADLOCK FALSE
