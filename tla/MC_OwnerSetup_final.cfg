CONSTANTS
    r1 = r1
    r2 = r2
    c1 = c1
    c2 = c2
    NoCred = NoCred
    Request <- MC_Request
    Cred <- MC_Cred

SPECIFICATION Spec
SYMMETRY MC_Symmetry
INVARIANT
    SetupIsFinal
CHECK_DEADLOCK FALSE
