SPECIFICATION FairSpec
CONSTANTS
    j1 = j1
    j2 = j2
    Job = {j1, j2}
    Packaged <- MCPackaged
    NoJob = NoJob
    Create = {c1, c2}
    Revoke = {v1, v2}
    Replica = {r1}
    Use = {u1}
    NoToken = NoToken
CHECK_DEADLOCK FALSE
INVARIANTS
    Consistent
    MigratedOnce
    SucceededMeansReady
    TokensExplained
    RevokedStaysOut
PROPERTIES
    JobsEnd
