SPECIFICATION DrainSpec
CONSTANTS
    NoProvider = NoProvider
    Workers = {w1, w2}
    Drainer = w1
    Compilers = {c1}
    Rows = {1, 2}
    Lanes = {1, 2}
    Targets = {1, 2}
    LaneOf <- LanePerTarget
    TenantOf <- OneTenant
    LiveCompiler <- NoProviderFleet
    MaxAttempts = 2
    Lease = 0
    Backoff <- OneTick
    Limit = 1
    InOrder = TRUE
    MaxGen = 3
ACTION_CONSTRAINT AgainstLaneOrder
INVARIANTS DrainedIsHonest
PROPERTIES DrainEnds JobsSettle
