---------------------------- MODULE DirectedGraph ----------------------------
(***************************************************************************)
(* The parts of the engine's in-memory graph that findStartNodes uses      *)
(* (packages/core/src/PartialExecutionUtils/DirectedGraph.ts).  That file  *)
(* is not part of src/, so every operator here follows spec.md section 4.1 *)
(* (the behaviour its test, __tests__/DirectedGraph.test.ts, exercises).   *)
(*                                                                         *)
(* A graph is a record [nodes, connections].  A connection keeps the four  *)
(* fields the engine reads; its connection type is always "main" in the    *)
(* engine's own reconnection rule and is left out.  Nodes are compared by  *)
(* identity, so they are model values.                                     *)
(***************************************************************************)
EXTENDS Naturals, FiniteSets, FiniteSetsExt

CONSTANTS
    Node,     \* the node identities a graph may hold
    Output,   \* output port indices
    Input     \* input port indices

Connection ==
    [from: Node, outputIndex: Output, inputIndex: Input, to: Node]

Graph == [nodes: SUBSET Node, connections: SUBSET Connection]

\* getDirectChildren(node): the one-hop outgoing connections.
GetDirectChildren(G, n) == {c \in G.connections : c.from = n}

(***************************************************************************)
(* getChildren(node): depth-first over direct children with one found-set  *)
(* for the whole traversal; a node already found is not expanded again,    *)
(* and a cycle back to the start node records the start node itself.       *)
(***************************************************************************)
RECURSIVE GetChildrenRecursive(_, _, _)
GetChildrenRecursive(G, n, found) ==
    FoldSet(LAMBDA c, acc :
                IF c.to \in acc THEN acc
                ELSE GetChildrenRecursive(G, c.to, acc \cup {c.to}),
            found,
            GetDirectChildren(G, n))

\* Fault model: the start node is marked found before the search begins.
GetChildrenSeedingStart(G, n) == GetChildrenRecursive(G, n, {n})

GetChildren(G, n) == GetChildrenRecursive(G, n, {})

=============================================================================
