CONSTANTS
    r1 = r1
    r2 = r2
    c1 = c1
    c2 = c2
    NoCred = NoCred
    s1 = s1
    s2 = s2
    badName = badName
    v1 = v1
    v2 = v2
    Absent = Absent
    Disabled = Disabled
    j1 = j1
    j2 = j2

SPECIFICATION Spec
INVARIANTS
    TypeOK
    RunsOnlyPermittedWorkflows
    FlagsFollowDatabase
    OwnerRowFromValidShellRequest
    CacheHoldsVaultValues
    ExitIffOutageExceedsLimit
PROPERTIES
    ShutdownTerminates
CHECK_DEADLOCK FALSE
