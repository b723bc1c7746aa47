-------------------------- MODULE MC_FindStartNodes --------------------------
(***************************************************************************)
(* Model of findStartNodes over every graph of three nodes with at most    *)
(* MaxConnections connections on two outputs, every run-data and pin-data *)
(* assignment, and every trigger and destination.                          *)
(***************************************************************************)
EXTENDS FindStartNodes, TLC

CONSTANTS n1, n2, n3

MC_Node == {n1, n2, n3}
MC_Output == {0, 1}
MC_Input == {0}

\* Depth of a recursion with one frame per distinct node plus one spare.
MC_MaxDepth == 5

MC_MaxConnections == 3

\* The search treats node identities alike.
MC_Symmetry == Permutations(MC_Node)

=============================================================================
