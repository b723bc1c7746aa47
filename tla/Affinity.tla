------------------------------ MODULE Affinity ------------------------------
(***************************************************************************)
(* execute() of the Affinity node (packages/nodes-base/nodes/Affinity/     *)
(* Affinity.node.ts).  resource and operation are read once (item 0); for  *)
(* each item the loop builds a body and a query, awaits one request (all   *)
(* pages through affinityApiRequestAllItems for getAll with returnAll) and *)
(* appends the answer to returnData: the elements of an array, any other   *)
(* answer as one item.  The query object `qs` is created once, before the  *)
(* loop, and the options of one item stay in it for the items after it.   *)
(*                                                                         *)
(* The Affinity API and the request helpers are outside the repository: a *)
(* request answers with one object or a list of records, or rejects, and  *)
(* a rejection ends the execution (the node has no continueOnFail).  One  *)
(* action is one iteration of the loop.                                    *)
(***************************************************************************)
EXTENDS Naturals, Sequences, SequencesExt

CONSTANTS
    MaxItems,      \* input items 1..MaxItems
    MaxRecords     \* records in a list answer

Operation == {"create", "update", "get", "getAll", "delete"}

QueryParam == {"term", "with_interaction_dates", "page_size"}

\* The parameters of one item that decide its query.
ItemParams == [term: BOOLEAN, withInteractionDates: BOOLEAN, returnAll: BOOLEAN]

\* An element of returnData: the answer object of item i, or the k-th
\* record of item i's list answer.
Element == [item: 1..MaxItems, record: 0..MaxRecords]

VARIABLES
    astatus,      \* "idle" | "running" | "done" | "rejected"
    operation,    \* getNodeParameter('operation', 0)
    params,       \* per item: its parameters
    i,            \* the loop index (1-based)
    qs,           \* the query parameters set so far in the shared qs object
    requests,     \* history: the query parameters each item's request carried
    answers,      \* history: per answered item, its answer (an object or a list of n records)
    aReturnData   \* the output items

vars == <<astatus, operation, params, i, qs, requests, answers, aReturnData>>

Init ==
    /\ astatus = "idle"
    /\ operation = "get"
    /\ params = <<>>
    /\ i = 1
    /\ qs = {}
    /\ requests = <<>>
    /\ answers = <<>>
    /\ aReturnData = <<>>

\* execute() starts: the items, resource and operation.
Start ==
    /\ astatus = "idle"
    /\ astatus' = "running"
    /\ \E op \in Operation, n \in 1..MaxItems, p \in [1..MaxItems -> ItemParams] :
          /\ operation' = op
          /\ params' = [k \in 1..n |-> p[k]]
    /\ UNCHANGED <<i, qs, requests, answers, aReturnData>>

\* The keys this item's branch adds to qs before its request.
AddedParams(op, p) ==
    CASE op = "get" -> IF p.withInteractionDates THEN {"with_interaction_dates"} ELSE {}
      [] op = "getAll" ->
           (IF p.term THEN {"term"} ELSE {})
           \cup (IF p.withInteractionDates THEN {"with_interaction_dates"} ELSE {})
           \cup (IF p.returnAll THEN {} ELSE {"page_size"})
      [] OTHER -> {}

Answer == [kind: {"object", "list"}, n: 0..MaxRecords]

\* The answers the request of this branch can give: getAll's requests
\* give lists (all pages, or responseData.persons / .organizations).
Answers(op) ==
    IF op = "getAll" THEN [kind: {"list"}, n: 0..MaxRecords] ELSE {[kind |-> "object", n |-> 0]}

\* Fault model: an array answer pushed as one item.
PushAnswerWhole(k, a) == <<[item |-> k, record |-> 0]>>

\* The elements an answer adds: those of an array, else the answer itself.
PushAnswer(k, a) ==
    IF a.kind = "object" THEN <<[item |-> k, record |-> 0]>>
    ELSE [r \in 1..a.n |-> [item |-> k, record |-> r]]

\* One iteration: qs gets this item's options, the request is sent with
\* the whole of qs (create and update send no query), then the answer is
\* appended, or the request rejects and so does execute().
RunItem ==
    /\ astatus = "running"
    /\ i <= Len(params)
    /\ LET q == qs \cup AddedParams(operation, params[i]) IN
       /\ qs' = q
       /\ requests' = Append(requests, IF operation \in {"create", "update"} THEN {} ELSE q)
       /\ \/ /\ \E a \in Answers(operation) :
                   /\ answers' = Append(answers, a)
                   /\ aReturnData' = aReturnData \o PushAnswer(i, a)
             /\ i' = i + 1
             /\ UNCHANGED astatus
          \/ /\ astatus' = "rejected"
             /\ UNCHANGED <<i, answers, aReturnData>>
    /\ UNCHANGED <<operation, params>>

\* The loop is over: returnJsonArray(returnData).
Finish ==
    /\ astatus = "running"
    /\ i > Len(params)
    /\ astatus' = "done"
    /\ UNCHANGED <<operation, params, i, qs, requests, answers, aReturnData>>

Ended ==
    /\ astatus \in {"done", "rejected"}
    /\ UNCHANGED vars

Next == Start \/ RunItem \/ Finish \/ Ended

Spec == Init /\ [][Next]_vars

-----------------------------------------------------------------------------
TypeOK ==
    /\ astatus \in {"idle", "running", "done", "rejected"}
    /\ operation \in Operation
    /\ params \in Seq(ItemParams) /\ Len(params) <= MaxItems
    /\ i \in 1..MaxItems + 1
    /\ qs \subseteq QueryParam
    /\ requests \in Seq(SUBSET QueryParam)
    /\ answers \in Seq(Answer)
    /\ aReturnData \in Seq(Element)

(***************************************************************************)
(* The node's output is the answers of its items in item order: every     *)
(* record of a list answer as an item of its own and any other answer as  *)
(* one item, nothing dropped, repeated or taken from another item.        *)
(***************************************************************************)
OutputConcatenatesAnswers ==
    LET before(x, y) == x.item < y.item \/ (x.item = y.item /\ x.record < y.record)
        expected == {[item |-> k, record |-> 0] : k \in {k \in DOMAIN answers : answers[k].kind = "object"}}
                    \cup UNION {{[item |-> k, record |-> r] : r \in 1..answers[k].n} :
                                k \in {k \in DOMAIN answers : answers[k].kind = "list"}}
    IN  astatus = "done" =>
           /\ Range(aReturnData) = expected
           /\ \A x, y \in 1..Len(aReturnData) : x < y => before(aReturnData[x], aReturnData[y])

=============================================================================
