CONSTANTS
    r1 = r1
    r2 = r2
    u1 = u1
    u2 = u2
    b1 = b1
    b2 = b2
    pa = pa
    pu = pu
    NoUrl = NoUrl
    Request <- MC_OneRequest
    Url <- MC_Url
    Branch <- MC_Branch2
    ReadOnlyChoice <- MC_ReadOnlyChoice3
    ControllerChoice <- MC_SourceOnly
    PatchRequest <- MC_Patch
    PushRequest <- MC_Push

SPECIFICATION Spec
INVARIANT
    NoPushOntoReadOnly
CHECK_DEADLOCK FALSE
