SPECIFICATION Spec
CONSTANTS
    NoProvider = NoProvider
    Workers = {"v1", "v2"}
    Compilers = {"v1", "v2"}
    Rows = {1, 2}
    Lanes = {1}
    Targets = {t1, t2}
    LaneOf <- OneLane
    TenantOf <- OneTenant
    LiveCompiler <- MixedFleet
    MaxAttempts = 2
    Lease = 1
    Backoff <- OneTick
    Limit = 2
    InOrder = TRUE
    MaxGen = 3
SYMMETRY SymmetricTargets
INVARIANTS CompileAtMostOnce AtMostOneOwner PaidOnce
PROPERTIES  SettledIsFinal
