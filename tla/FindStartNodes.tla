---------------------------- MODULE FindStartNodes ----------------------------
(***************************************************************************)
(* findStartNodes (packages/core/src/PartialExecutionUtils/                *)
(* findStartNodes.ts): the depth-first search from the trigger that finds *)
(* the nodes a partial execution has to start from.                        *)
(*                                                                         *)
(* The recursion of findStartNodesRecursive is an explicit call stack:     *)
(* a frame is one invocation (current node, the source connection it was   *)
(* reached by, its own copy of `seen`), and the `for` loop over outgoing   *)
(* connections is the frame's set of connections still to visit.  The loop *)
(* visits them in the graph's insertion order, which the engine does not   *)
(* fix, so the model lets any order happen.  previousNodeRun is always 0    *)
(* in the source and is left out: a source is its connection.              *)
(*                                                                         *)
(* Run data is abstracted per node to what the engine reads: NoRun when    *)
(* runData has no entry for the node, otherwise the set of output indices *)
(* whose first run produced a non-empty item list (getIncomingData).       *)
(***************************************************************************)
EXTENDS DirectedGraph, Sequences, SequencesExt, Functions

CONSTANTS
    NoRun,          \* runData[node] is undefined
    NoSource,       \* the root call: findStartNodesRecursive without source
    TriggerKey,     \* the 'Trigger' key of the startNodes map
    MaxDepth,       \* bound on the depth of the call stack
    MaxConnections  \* bound on the size of the graphs checked

ASSUME MaxDepth \in Nat \ {0}

VARIABLES
    graph,          \* the DirectedGraph passed in
    runData,        \* node -> NoRun or the outputs holding data
    pinData,        \* the nodes with pinned data
    trigger,
    destination,
    stack,          \* the active invocations of findStartNodesRecursive
    startNodes,     \* the Map, in insertion order: <<[key, node, sourceData]>>
    status          \* "running" until the root call returns

inputs == <<graph, runData, pinData, trigger, destination>>
vars == <<graph, runData, pinData, trigger, destination, stack, startNodes, status>>

Frame == [node: Node, source: Connection \cup {NoSource}, seen: SUBSET Node,
          entered: BOOLEAN, pending: SUBSET Connection]

Entry == [key: Connection \cup {TriggerKey}, node: Node, sourceData: Seq(Connection)]

RunDataValue == {NoRun} \cup SUBSET Output

-----------------------------------------------------------------------------
(***************************************************************************)
(* isDirty: the three stubbed conditions are constant FALSE; a node with   *)
(* pinned data or any run-data entry is clean.                             *)
(***************************************************************************)
IsDirty(n) == n \notin pinData /\ runData[n] = NoRun

\* getIncomingData(runData, from, 0, type, outputIndex) is null, undefined
\* or empty: the node has no run-data entry, or its output produced nothing.
OutputsWithData(n) == IF runData[n] = NoRun THEN {} ELSE runData[n]

\* Fault model: the check ignores which output the connection leaves from.
HasNoRunDataOfNode(c) == runData[c.from] = NoRun

HasNoRunData(c) == c.outputIndex \notin OutputsWithData(c.from)

\* `source ? source.connection : 'Trigger'`
KeyOf(source) == IF source = NoSource THEN TriggerKey ELSE source

\* Fault model: the source is pushed without the `if (source)` check.
AddStartNodeAlwaysPush(sn, node, source) ==
    LET key == KeyOf(source)
        at == {i \in DOMAIN sn : sn[i].key = key}
    IN  IF at = {}
        THEN Append(sn, [key |-> key, node |-> node, sourceData |-> <<source>>])
        ELSE LET i == CHOOSE i \in at : TRUE
             IN  [sn EXCEPT ![i].sourceData = Append(@, source)]

(***************************************************************************)
(* startNodes.get(key) ?? {node, sourceData: []}, push the source if there *)
(* is one, startNodes.set(key, value): a Map keeps the position of a key   *)
(* it already holds.                                                       *)
(***************************************************************************)
AddStartNode(sn, node, source) ==
    LET key == KeyOf(source)
        at == {i \in DOMAIN sn : sn[i].key = key}
        pushed(sd) == IF source = NoSource THEN sd ELSE Append(sd, source)
    IN  IF at = {}
        THEN Append(sn, [key |-> key, node |-> node, sourceData |-> pushed(<<>>)])
        ELSE LET i == CHOOSE i \in at : TRUE
             IN  [sn EXCEPT ![i].sourceData = pushed(@)]

CallFrame(node, source, seen) ==
    [node |-> node, source |-> source, seen |-> seen, entered |-> FALSE, pending |-> {}]

Top == Head(stack)

-----------------------------------------------------------------------------
\* findStartNodes: the root call with an empty Map and an empty seen set.
Init ==
    /\ graph \in {[nodes |-> Node, connections |-> cs] :
                     cs \in UNION {kSubset(k, Connection) : k \in 0..MaxConnections}}
    /\ runData \in [Node -> RunDataValue]
    /\ pinData \in SUBSET {n \in Node : runData[n] = NoRun}
    /\ trigger \in Node
    /\ destination \in Node
    /\ stack = <<CallFrame(trigger, NoSource, {})>>
    /\ startNodes = <<>>
    /\ status = "running"

\* The current node is dirty, or is the destination: record it and return.
RecordStartNode ==
    /\ status = "running"
    /\ stack # <<>>
    /\ ~Top.entered
    /\ IsDirty(Top.node) \/ Top.node = destination
    /\ startNodes' = AddStartNode(startNodes, Top.node, Top.source)
    /\ stack' = Tail(stack)
    /\ UNCHANGED <<inputs, status>>

\* A clean node already on this branch's path: return without a start node.
StopAtCycle ==
    /\ status = "running"
    /\ stack # <<>>
    /\ ~Top.entered
    /\ ~IsDirty(Top.node)
    /\ Top.node # destination
    /\ Top.node \in Top.seen
    /\ stack' = Tail(stack)
    /\ UNCHANGED <<inputs, startNodes, status>>

\* Fault model: the cycle check `seen.has(current)` is missing.
EnterLoopWithoutCycleCheck ==
    /\ status = "running"
    /\ stack # <<>>
    /\ ~Top.entered
    /\ ~IsDirty(Top.node)
    /\ Top.node # destination
    /\ stack' = [stack EXCEPT ![1].entered = TRUE,
                              ![1].pending = GetDirectChildren(graph, Top.node)]
    /\ UNCHANGED <<inputs, startNodes, status>>

\* Otherwise start the loop over graph.getDirectChildren(current).
EnterLoop ==
    /\ status = "running"
    /\ stack # <<>>
    /\ ~Top.entered
    /\ ~IsDirty(Top.node)
    /\ Top.node # destination
    /\ Top.node \notin Top.seen
    /\ stack' = [stack EXCEPT ![1].entered = TRUE,
                              ![1].pending = GetDirectChildren(graph, Top.node)]
    /\ UNCHANGED <<inputs, startNodes, status>>

\* A connection whose output has no run data is skipped (`continue`).
SkipConnection ==
    /\ status = "running"
    /\ stack # <<>>
    /\ Top.entered
    /\ \E c \in Top.pending :
          /\ HasNoRunData(c)
          /\ stack' = [stack EXCEPT ![1].pending = @ \ {c}]
    /\ UNCHANGED <<inputs, startNodes, status>>

\* Fault model: the child gets `new Set(seen)` without `.add(current)`.
RecurseKeepingSeen ==
    /\ status = "running"
    /\ stack # <<>>
    /\ Top.entered
    /\ Len(stack) < MaxDepth
    /\ \E c \in Top.pending :
          /\ ~HasNoRunData(c)
          /\ stack' = <<CallFrame(c.to, c, Top.seen)>>
                      \o [stack EXCEPT ![1].pending = @ \ {c}]
    /\ UNCHANGED <<inputs, startNodes, status>>

\* Recurse into the child with `new Set(seen).add(current)`.  MaxDepth only
\* keeps the state space finite: no search of the model reaches it.
Recurse ==
    /\ status = "running"
    /\ stack # <<>>
    /\ Top.entered
    /\ Len(stack) < MaxDepth
    /\ \E c \in Top.pending :
          /\ ~HasNoRunData(c)
          /\ stack' = <<CallFrame(c.to, c, Top.seen \cup {Top.node})>>
                      \o [stack EXCEPT ![1].pending = @ \ {c}]
    /\ UNCHANGED <<inputs, startNodes, status>>

\* The loop is done: `return startNodes`.
Return ==
    /\ status = "running"
    /\ stack # <<>>
    /\ Top.entered
    /\ Top.pending = {}
    /\ stack' = Tail(stack)
    /\ UNCHANGED <<inputs, startNodes, status>>

\* The root call returned: the Map's values become the result list.
Finish ==
    /\ status = "running"
    /\ stack = <<>>
    /\ status' = "returned"
    /\ UNCHANGED <<inputs, stack, startNodes>>

\* The call has returned its result; the model stays in that state, so a
\* state where the search is still running and can take no step is a
\* deadlock TLC reports.
Returned ==
    /\ status = "returned"
    /\ UNCHANGED vars

Next ==
    \/ RecordStartNode
    \/ StopAtCycle
    \/ EnterLoop
    \/ SkipConnection
    \/ Recurse
    \/ Return
    \/ Finish
    \/ Returned

Spec == Init /\ [][Next]_vars

\* The result: the StartNodeData values in insertion order.
Result == [i \in DOMAIN startNodes |-> [node |-> startNodes[i].node,
                                        sourceData |-> startNodes[i].sourceData]]

-----------------------------------------------------------------------------
(***************************************************************************)
(* Reference: what the search is meant to find, stated over paths instead *)
(* of a traversal.  A start path is a sequence of connections from the     *)
(* trigger along which data flowed (each connection's output holds run     *)
(* data), whose nodes before the last are clean, are not the destination  *)
(* and are pairwise distinct, and whose last node needs to run or is the   *)
(* destination.                                                            *)
(***************************************************************************)
NeedsRun(n) == n \notin pinData /\ runData[n] = NoRun

CarriesData(c) == runData[c.from] # NoRun /\ c.outputIndex \in runData[c.from]

StopsSearch(n) == NeedsRun(n) \/ n = destination

\* The nodes a path visits: the trigger, then the target of each connection.
Visited(p) == <<trigger>> \o [i \in DOMAIN p |-> p[i].to]

IsStartPath(p) ==
    /\ p # <<>>
    /\ p[1].from = trigger
    /\ \A i \in 1..Len(p) - 1 : p[i].to = p[i + 1].from
    /\ \A i \in DOMAIN p : CarriesData(p[i])
    /\ \A i \in 1..Len(p) : ~StopsSearch(Visited(p)[i])
    /\ \A i, j \in 1..Len(p) : Visited(p)[i] = Visited(p)[j] => i = j
    /\ StopsSearch(Visited(p)[Len(p) + 1])

StartPaths ==
    {p \in BoundedSeq(graph.connections, Cardinality(Node)) : IsStartPath(p)}

-----------------------------------------------------------------------------
TypeOK ==
    /\ graph \in Graph
    /\ runData \in [Node -> RunDataValue]
    /\ pinData \subseteq Node
    /\ trigger \in Node /\ destination \in Node
    /\ stack \in Seq(Frame)
    /\ startNodes \in Seq(Entry)
    /\ status \in {"running", "returned"}

(***************************************************************************)
(* When findStartNodes returns, its Map holds exactly one entry per        *)
(* connection that ends a start path, and that entry's sourceData lists    *)
(* the connection once for every start path it ends: the copied `seen`    *)
(* sets let sibling branches reach the same node, and the run-data check   *)
(* prunes outputs that produced nothing.  The 'Trigger' entry, with no     *)
(* sources, is there exactly when the trigger itself stops the search.     *)
(***************************************************************************)
StartNodesMatchStartPaths ==
    status = "returned" =>
        LET keys == {startNodes[i].key : i \in DOMAIN startNodes}
        IN  /\ keys = {p[Len(p)] : p \in StartPaths}
                      \cup (IF StopsSearch(trigger) THEN {TriggerKey} ELSE {})
            /\ IsInjective([i \in DOMAIN startNodes |-> startNodes[i].key])
            /\ \A i \in DOMAIN startNodes :
                  LET e == startNodes[i] IN
                  IF e.key = TriggerKey
                  THEN e.node = trigger /\ e.sourceData = <<>>
                  ELSE /\ e.node = e.key.to
                       /\ Range(e.sourceData) = {e.key}
                       /\ Len(e.sourceData) =
                            Cardinality({p \in StartPaths : p[Len(p)] = e.key})

(***************************************************************************)
(* spec.md section 5: the recursion is at most as deep as the graph has   *)
(* nodes (plus the root call), however the connections cycle.  Together   *)
(* with the deadlock check this is termination: every step pops a frame,  *)
(* pushes one, or shrinks a frame's remaining loop, so a run that never    *)
(* returns has to recurse without end and exceed this bound.               *)
(***************************************************************************)
RecursionDepthBounded == Len(stack) <= Cardinality(Node) + 1

(***************************************************************************)
(* spec.md section 4.3: the start nodes are the frontier between the       *)
(* trigger and the destination.  For a destination downstream of the       *)
(* trigger, each start node is the destination or leads to it.             *)
(***************************************************************************)
StartNodesLeadToDestination ==
    (status = "returned" /\ destination \in GetChildren(graph, trigger)) =>
        \A i \in DOMAIN startNodes :
            startNodes[i].node = destination
            \/ destination \in GetChildren(graph, startNodes[i].node)

====
