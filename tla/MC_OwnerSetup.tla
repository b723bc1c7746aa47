---------------------------- MODULE MC_OwnerSetup ----------------------------
EXTENDS OwnerSetup, TLC

CONSTANTS r1, r2, c1, c2

MC_Request == {r1, r2}
MC_Cred == {c1, c2}
MC_Symmetry == Permutations(MC_Request) \cup Permutations(MC_Cred)

=============================================================================
