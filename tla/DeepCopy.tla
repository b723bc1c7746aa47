------------------------------ MODULE DeepCopy ------------------------------
(***************************************************************************)
(* deepCopy (packages/workflow/src/utils.ts), the copy n8n takes of node   *)
(* parameters and item data.  It returns primitives, null and functions as *)
(* they are and an object with a toJSON method (every Date among them) as  *)
(* toJSON(); otherwise it answers from the WeakMap `hash` of the objects   *)
(* copied so far, or copies an array element by element, or registers a   *)
(* new plain object in `hash` and copies its own enumerable properties.    *)
(* Arrays are never registered.                                            *)
(*                                                                         *)
(* The source is a graph of values: node 1 is the argument, a container    *)
(* lists the nodes its elements or own properties refer to, in order.      *)
(* The copy is a heap of new containers.  The JavaScript call stack is a   *)
(* bound on the depth of the recursion: deeper calls throw a RangeError.   *)
(***************************************************************************)
EXTENDS Naturals, Sequences, SequencesExt, Graphs, TLC

CONSTANTS
    MaxNodes,     \* source values 1..MaxNodes
    MaxKids,      \* elements / own properties of a container
    MaxDepth      \* recursion depth the stack allows

Node == 1..MaxNodes

Kind == {"primitive", "toJSON", "array", "object"}

\* A source value graph: containers have kids, the other values none.
Sources ==
    {g \in [kind: [Node -> Kind], kids: [Node -> UNION {[1..n -> Node] : n \in 0..MaxKids}]] :
        \A n \in Node : g.kind[n] \in {"primitive", "toJSON"} => g.kids[n] = <<>>}

\* What a copy refers to: a source primitive itself, the string toJSON()
\* made of a source value, or a container of the heap.
Value == [t: {"source", "json", "clone"}, n: Nat]

VARIABLES
    cstatus,   \* "idle" | "copying" | "done"
    source,    \* the value graph passed to deepCopy
    copy       \* [v: the returned value, s: the recursion's final state]

vars == <<cstatus, source, copy>>

\* The recursion's state: the WeakMap `hash`, the kinds (and source) and the
\* kids of the containers made, and whether a call threw RangeError.
NoState == [hash |-> <<>>, kinds |-> <<>>, kids |-> <<>>, overflow |-> FALSE]

NoCopy == [v |-> [t |-> "source", n |-> 0], s |-> NoState]

Init ==
    /\ cstatus = "idle"
    /\ source = [kind |-> [n \in Node |-> "primitive"], kids |-> [n \in Node |-> <<>>]]
    /\ copy = NoCopy

\* deepCopy is called on a value.
Call ==
    /\ cstatus = "idle"
    /\ cstatus' = "copying"
    /\ source' \in Sources
    /\ UNCHANGED copy

\* The values a container's loop visits: the array's indices 0..length-1,
\* or the object's own enumerable properties (for..in with hasOwnProperty).
Entries(g, n) == g.kids[n]

\* Fault model: the Array.isArray branch missing, an array copied into {}.
NewObject(g, n) == "object"

\* The new container: [] for an array, {} for a plain object.
NewContainer(g, n) == g.kind[n]

\* Fault model: the object is not registered in hash.
RegisterNothing(g, n, c, h) == h

\* hash.set(source, clone) for a plain object, before its properties are copied.
Register(g, n, c, h) == IF g.kind[n] = "object" THEN (n :> c) @@ h ELSE h

(***************************************************************************)
(* The recursion.  A state s carries the heap as two functions, kinds and  *)
(* kids, of the new containers; CopyValue(g, n, s, d) is the call on node  *)
(* n at depth d and gives [v, s]; CopyEntries runs a container's loop.     *)
(***************************************************************************)
RECURSIVE CopyValue(_, _, _, _), CopyEntries(_, _, _, _, _)

CopyValue(g, n, s, d) ==
    CASE s.overflow -> [v |-> [t |-> "source", n |-> 0], s |-> s]
      [] d > MaxDepth -> [v |-> [t |-> "source", n |-> 0], s |-> [s EXCEPT !.overflow = TRUE]]
      [] g.kind[n] = "primitive" -> [v |-> [t |-> "source", n |-> n], s |-> s]
      [] g.kind[n] = "toJSON" -> [v |-> [t |-> "json", n |-> n], s |-> s]
      [] n \in DOMAIN s.hash -> [v |-> [t |-> "clone", n |-> s.hash[n]], s |-> s]
      [] OTHER ->
           LET c == Len(s.kinds) + 1
               s1 == [s EXCEPT !.kinds = Append(@, [kind |-> NewContainer(g, n), of |-> n]),
                               !.kids = Append(@, <<>>),
                               !.hash = Register(g, n, c, @)]
           IN  [v |-> [t |-> "clone", n |-> c], s |-> CopyEntries(g, Entries(g, n), c, s1, d)]

CopyEntries(g, es, c, s, d) ==
    IF es = <<>> THEN s
    ELSE LET r == CopyValue(g, Head(es), s, d + 1)
         IN  CopyEntries(g, Tail(es), c, [r.s EXCEPT !.kids[c] = Append(@, r.v)], d)

\* The whole call deepCopy(source): one step, since it runs without await.
DeepCopy ==
    /\ cstatus = "copying"
    /\ cstatus' = "done"
    /\ copy' = CopyValue(source, 1, NoState, 0)
    /\ UNCHANGED source

Copied ==
    /\ cstatus = "done"
    /\ UNCHANGED vars

Next == Call \/ DeepCopy \/ Copied

Spec == Init /\ [][Next]_vars

-----------------------------------------------------------------------------
TypeOK ==
    /\ cstatus \in {"idle", "copying", "done"}
    /\ \A n \in Node : source.kind[n] \in Kind /\ Range(source.kids[n]) \subseteq Node
    /\ copy.v \in Value
    /\ copy.s.overflow \in BOOLEAN
    /\ Len(copy.s.kinds) = Len(copy.s.kids)

\* The source as a graph, and the part of it made of arrays alone.
SourceGraph(g) == [node |-> Node, edge |-> {<<a, b>> \in Node \X Node : b \in Range(g.kids[a])}]

ArrayGraph(g) ==
    LET as == {n \in Node : g.kind[n] = "array"}
    IN  [node |-> as, edge |-> {<<a, b>> \in as \X as : b \in Range(g.kids[a])}]

Reached(g) == {1} \cup Descendants(SourceGraph(g), 1)

\* Some array of the argument contains itself through arrays alone.
HasArrayCycle(g) ==
    \E a \in Reached(g) : g.kind[a] = "array" /\ a \in Descendants(ArrayGraph(g), a)

(***************************************************************************)
(* deepCopy returns for every argument whose cycles each pass through a    *)
(* plain object, the WeakMap cutting them, and runs out of stack exactly   *)
(* when an array reaches itself through arrays alone, as arrays are never  *)
(* registered in the map.                                                  *)
(***************************************************************************)
DeepCopyReturns ==
    cstatus = "done" => (copy.s.overflow <=> HasArrayCycle(source))

\* The value at node n of the source, unfolded to depth d.
RECURSIVE SourceTree(_, _, _)
SourceTree(g, n, d) ==
    CASE d = 0 -> [t |-> "cut", n |-> 0, kids |-> <<>>]
      [] g.kind[n] = "primitive" -> [t |-> "source", n |-> n, kids |-> <<>>]
      [] g.kind[n] = "toJSON" -> [t |-> "json", n |-> n, kids |-> <<>>]
      [] OTHER -> [t |-> g.kind[n], n |-> 0,
                   kids |-> [i \in DOMAIN g.kids[n] |-> SourceTree(g, g.kids[n][i], d - 1)]]

\* The value v of a copy, unfolded to depth d.
RECURSIVE CopyTree(_, _, _)
CopyTree(s, v, d) ==
    CASE d = 0 -> [t |-> "cut", n |-> 0, kids |-> <<>>]
      [] v.t # "clone" -> [t |-> v.t, n |-> v.n, kids |-> <<>>]
      [] OTHER -> [t |-> s.kinds[v.n].kind, n |-> 0,
                   kids |-> [i \in DOMAIN s.kids[v.n] |-> CopyTree(s, s.kids[v.n][i], d - 1)]]

(***************************************************************************)
(* A returned copy is the argument as a value, every element and property  *)
(* in its place, Dates as their ISO strings; and each plain object of the  *)
(* argument is copied exactly once, so two references to one object stay   *)
(* two references to one copy.                                             *)
(***************************************************************************)
DeepCopyIsFaithful ==
    cstatus = "done" /\ ~copy.s.overflow =>
        /\ CopyTree(copy.s, copy.v, 2 * MaxNodes) = SourceTree(source, 1, 2 * MaxNodes)
        /\ \A o \in Reached(source) :
              source.kind[o] = "object" =>
                  Cardinality({c \in DOMAIN copy.s.kinds : copy.s.kinds[c].of = o}) = 1

=============================================================================
