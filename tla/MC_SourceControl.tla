-------------------------- MODULE MC_SourceControl --------------------------
EXTENDS SourceControl, TLC

CONSTANTS r1, r2, u1, u2, b1, b2, pa, pu

MC_Request == {r1, r2}
MC_Url == {u1, u2}
MC_Branch == {b1}
MC_SourceOnly == {"sourceControl"}

\* the preferences race: two POST requests of either controller, with and
\* without branchReadOnly (which skips the connected check), a disconnect
MC_BothControllers == {"sourceControl", "versionControl"}
MC_NoRequest == {}

\* the read-only race: a connected instance (one POST), one PATCH setting
\* branchReadOnly or switching branch, one push
MC_OneRequest == {r1}
MC_Branch2 == {b1, b2}
MC_ReadOnlyChoice3 == {"undefined", "true", "false"}
MC_Patch == {pa}
MC_Push == {pu}
MC_Symmetry == Permutations(MC_Request) \cup Permutations(MC_Url)

=============================================================================
