CONSTANTS
    r1 = r1
    r2 = r2
    u1 = u1
    u2 = u2
    b1 = b1
    b2 = b2
    pa = pa
    pu = pu
    NoUrl = NoUrl
    Request <- MC_Request
    Url <- MC_Url
    Branch <- MC_Branch
    ReadOnlyChoice <- MC_ReadOnlyChoice3
    ControllerChoice <- MC_BothControllers
    PatchRequest <- MC_NoRequest
    PushRequest <- MC_NoRequest

SPECIFICATION Spec
SYMMETRY MC_Symmetry
INVARIANTS
    RepositoryMatchesPreferences
CHECK_DEADLOCK FALSE
