------------------------------ MODULE GraphStore ------------------------------
(***************************************************************************)
(* The mutations of the engine's graph store: addNodes, addConnections and *)
(* removeNode with and without reconnection (DirectedGraph.ts, which is   *)
(* not part of src/; every action follows spec.md section 4.1 and the      *)
(* removeNode cases of __tests__/DirectedGraph.test.ts).  One caller owns *)
(* a graph at a time (spec.md section 5), so each call is one step.        *)
(***************************************************************************)
EXTENDS DirectedGraph

CONSTANT MaxConnections   \* bound on the connections a caller adds

VARIABLES
    nodes,          \* the registered nodes
    connections,    \* the registered connections
    reconnectOption \* reconnectConnections of the last removeNode call

vars == <<nodes, connections, reconnectOption>>

AsGraph == [nodes |-> nodes, connections |-> connections]

\* new DirectedGraph()
Init ==
    /\ nodes = {}
    /\ connections = {}
    /\ reconnectOption = FALSE

\* addNodes(node): registering a node twice keeps one membership.
AddNodes(n) ==
    /\ nodes' = nodes \cup {n}
    /\ UNCHANGED <<connections, reconnectOption>>

\* addConnections(connection): callers (fromWorkflow, the tests) add the
\* nodes first; the store itself does not check the endpoints.
AddConnections(c) ==
    /\ {c.from, c.to} \subseteq nodes
    /\ Cardinality(connections) < MaxConnections
    /\ connections' = connections \cup {c}
    /\ UNCHANGED <<nodes, reconnectOption>>

\* Fault model: the new connection takes the input index of the inbound
\* connection, as if the removed node were not there.
ReconnectKeepingInbound(i, o) ==
    [from |-> i.from, outputIndex |-> i.outputIndex, inputIndex |-> i.inputIndex, to |-> o.to]

\* The connection that replaces an inbound and an outbound one: upstream
\* output index from the inbound, downstream input index from the outbound.
Reconnect(i, o) ==
    [from |-> i.from, outputIndex |-> i.outputIndex, inputIndex |-> o.inputIndex, to |-> o.to]

(***************************************************************************)
(* removeNode(node, {reconnectConnections}): drop the node and every       *)
(* connection into or out of it; with reconnection, add the cross product *)
(* of the inbound and outbound connections and return it.                  *)
(***************************************************************************)
RemoveNode(n, reconnect) ==
    LET inbound  == {c \in connections : c.to = n}
        outbound == {c \in connections : c.from = n}
        added    == IF reconnect THEN {Reconnect(i, o) : i \in inbound, o \in outbound}
                    ELSE {}
    IN  /\ nodes' = nodes \ {n}
        /\ connections' = (connections \ (inbound \cup outbound)) \cup added
        /\ reconnectOption' = reconnect

Next ==
    \/ \E n \in Node : AddNodes(n)
    \/ \E c \in Connection : AddConnections(c)
    \/ \E n \in nodes, reconnect \in BOOLEAN : RemoveNode(n, reconnect)

Spec == Init /\ [][Next]_vars

TypeOK ==
    /\ nodes \subseteq Node
    /\ connections \subseteq Connection
    /\ reconnectOption \in BOOLEAN

-----------------------------------------------------------------------------
(***************************************************************************)
(* Port paths: <<a, o, i, b>> when a chain of connections leaves a at      *)
(* output o and enters b at input i.  The least set closed under joining  *)
(* a chain into x with a chain out of x.                                   *)
(***************************************************************************)
RECURSIVE PortPathClosure(_)
PortPathClosure(P) ==
    LET joined == {<<pq[1][1], pq[1][2], pq[2][3], pq[2][4]>> :
                       pq \in {pq \in P \X P : pq[1][4] = pq[2][1]}}
    IN  IF joined \subseteq P THEN P ELSE PortPathClosure(P \cup joined)

PortPaths(C) == PortPathClosure({<<c.from, c.outputIndex, c.inputIndex, c.to>> : c \in C})

PathsBetween(P, S) == {p \in P : p[1] \in S /\ p[4] \in S}

(***************************************************************************)
(* The rationale of removeNode's reconnection: between the nodes that      *)
(* remain, every upstream output still reaches every downstream input it   *)
(* reached before, and nothing else; without reconnection exactly the     *)
(* paths that avoided the removed node remain.                             *)
(***************************************************************************)
RemovalKeepsPortPaths ==
    [][\A n \in nodes \ nodes' :
          PathsBetween(PortPaths(connections'), nodes') =
              PathsBetween(PortPaths(IF reconnectOption' THEN connections
                                     ELSE {c \in connections : n \notin {c.from, c.to}}),
                           nodes')]_vars

(***************************************************************************)
(* getChildren, the depth-first search with one found-set, returns exactly *)
(* the nodes reachable in one or more hops, the start node included when a *)
(* cycle leads back to it (spec.md 4.1, the test's 3-cycle).               *)
(***************************************************************************)
GetChildrenIsReachability ==
    \A n \in nodes :
        GetChildren(AsGraph, n) = {p[4] : p \in {p \in PortPaths(connections) : p[1] = n}}

=============================================================================
