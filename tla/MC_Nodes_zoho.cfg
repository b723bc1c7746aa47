CONSTANTS
    w1 = w1
    w2 = w2
    projA = projA
    projB = projB
    r1 = r1
    r2 = r2
    r3 = r3
    b1 = b1
    b2 = b2
    NoBinary = NoBinary
    v1 = v1
    v2 = v2
    NoCode = NoCode
    c1 = c1
    c2 = c2
    e1 = e1
    e2 = e2
    wA = wA
    wB = wB
    g1 = g1
    g2 = g2
    g3 = g3

SPECIFICATION Spec
SYMMETRY MC_Symmetry
INVARIANT
    ListingFailsOnlyOnApiError
