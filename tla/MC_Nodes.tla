------------------------------ MODULE MC_Nodes ------------------------------
(***************************************************************************)
(* The node helpers, deepCopy and the graph store checked together: each *)
(* behaviour picks one of them and runs it, the others' variables stay at their initial   *)
(* values.                                                                 *)
(***************************************************************************)
EXTENDS Naturals, Sequences, TLC

CONSTANTS w1, w2, projA, projB, r1, r2, r3, b1, b2, NoBinary, v1, v2, NoCode, c1, c2, e1, e2, wA, wB,
          g1, g2, g3

VARIABLES
    node,
    zstatus, returnAll, limit, pages, uri, page, returnData, result, apiFailed,
    fstatus, items, continueOnFail, itemIndex, fReturnData,
    rstatus, opts, response,
    call, outcome,
    astatus, operation, params, i, qs, requests, answers, aReturnData,
    cstatus, source, copy,
    zaStatus, resource, fields, input, payload, products, lineItems,
    hstatus, body, matchOn, updateBody, matchFields, matches, cases, before, updated,
    xstatus, sharing, roles, stored, running, endpoint, target, ids, reached,
    created, baseUrl, restEndpoint, urlBaseWebhook, urlBaseEditor, endpoints, lastSet, timezone,
    globalTimezone,
    graphNodes, graphConnections, reconnectOption

zohoVars == <<zstatus, returnAll, limit, pages, uri, page, returnData, result, apiFailed>>
functionItemVars == <<fstatus, items, continueOnFail, itemIndex, fReturnData>>
respondVars == <<rstatus, opts, response>>
policyVars == <<call, outcome>>
affinityVars == <<astatus, operation, params, i, qs, requests, answers, aReturnData>>
deepCopyVars == <<cstatus, source, copy>>
adjustVars == <<zaStatus, resource, fields, input, payload, products, lineItems>>
theHiveVars == <<hstatus, body, matchOn, updateBody, matchFields, matches, cases, before, updated>>
executionsVars == <<xstatus, sharing, roles, stored, running, endpoint, target, ids, reached>>
rootVars == <<created, baseUrl, restEndpoint, urlBaseWebhook, urlBaseEditor, endpoints, lastSet, timezone,
              globalTimezone>>
graphVars == <<graphNodes, graphConnections, reconnectOption>>

\* listings: none, one page of one or two records, two pages
MC_Listings == {<<>>, <<<<r1>>>>, <<<<r1, r2>>>>, <<<<r1>>, <<r2, r3>>>>}

\* header names in the spellings a user may type, and their lower case
MC_HeaderName == {"Content-Type", "content-type", "Location", "X-Id"}
MC_ToLower(n) ==
    CASE n = "Content-Type" -> "content-type"
      [] n = "Location" -> "location"
      [] n = "X-Id" -> "x-id"
      [] OTHER -> n

R == INSTANCE RespondToWebhook WITH HeaderName <- MC_HeaderName, ToLower <- MC_ToLower,
                                    HeaderValue <- {v1, v2}, Code <- {302}, MaxEntries <- 2

P == INSTANCE SubworkflowPolicy WITH WorkflowId <- {w1, w2}, Project <- {projA, projB},
                                     MaxPieces <- 2

Z == INSTANCE Zoho WITH Listings <- MC_Listings, MaxLimit <- 2

F == INSTANCE FunctionItem WITH MaxItems <- 2, Binary <- {b1, b2}, returnData <- fReturnData

A == INSTANCE Affinity WITH MaxItems <- 2, MaxRecords <- 2

\* Three values of up to two entries; a depth of 8 exceeds every recursion
\* an argument of three values without an array cycle needs.
D == INSTANCE DeepCopy WITH MaxNodes <- 3, MaxKids <- 2, MaxDepth <- 8

ZA == INSTANCE ZohoAdjust

TH == INSTANCE TheHiveUpdate WITH CaseId <- {c1, c2}, Value <- {v1, v2}

\* two workflows with one execution each
X == INSTANCE Executions WITH Workflow <- {wA, wB}, Execution <- {e1, e2},
                              WorkflowOf <- (e1 :> wA) @@ (e2 :> wB)

\* one host, one endpoint path and one timezone: the URL properties are
\* about the '/' at the joint, not the names
RS == INSTANCE RootStore WITH Host <- {"h1"}, Path <- {"p"}, Value <- {"tz1"}

\* three nodes with two outputs and two inputs each, so that a removal can
\* meet fan-in, fan-out, self-loops and both port indices; four connections
\* give the two-by-two cross product
GS == INSTANCE GraphStore WITH Node <- {g1, g2, g3}, Output <- {0, 1}, Input <- {0, 1},
                               MaxConnections <- 4, nodes <- graphNodes,
                               connections <- graphConnections

\* Only the graph store uses the node identities g1, g2, g3.
MC_Symmetry == Permutations({g1, g2, g3})

Nodes == {"zoho", "functionItem", "respondToWebhook", "subworkflowPolicy", "affinity",
          "deepCopy", "zohoAdjust", "theHive",
          "executions", "rootStore", "graphStore"}

Init ==
    /\ node \in Nodes
    /\ Z!Init
    /\ F!Init
    /\ R!Init
    /\ A!Init
    /\ D!Init
    /\ ZA!Init
    /\ TH!Init
    /\ X!Init
    /\ RS!Init
    /\ GS!Init
    /\ IF node = "subworkflowPolicy" THEN P!Init
       ELSE /\ call = (CHOOSE c \in P!Call : TRUE)
            /\ outcome = "pending"

Next ==
    \/ node = "zoho" /\ Z!Next /\ UNCHANGED <<node, functionItemVars, respondVars, policyVars, affinityVars, deepCopyVars, adjustVars, theHiveVars, executionsVars, rootVars, graphVars>>
    \/ node = "functionItem" /\ F!Next /\ UNCHANGED <<node, zohoVars, respondVars, policyVars, affinityVars, deepCopyVars, adjustVars, theHiveVars, executionsVars, rootVars, graphVars>>
    \/ node = "respondToWebhook" /\ R!Next /\ UNCHANGED <<node, zohoVars, functionItemVars, policyVars, affinityVars, deepCopyVars, adjustVars, theHiveVars, executionsVars, rootVars, graphVars>>
    \/ node = "subworkflowPolicy" /\ P!Next
       /\ UNCHANGED <<node, zohoVars, functionItemVars, respondVars, affinityVars, deepCopyVars, adjustVars, theHiveVars, executionsVars, rootVars, graphVars>>
    \/ node = "affinity" /\ A!Next
       /\ UNCHANGED <<node, zohoVars, functionItemVars, respondVars, policyVars, deepCopyVars, adjustVars, theHiveVars, executionsVars, rootVars, graphVars>>
    \/ node = "deepCopy" /\ D!Next
       /\ UNCHANGED <<node, zohoVars, functionItemVars, respondVars, policyVars, affinityVars, adjustVars, theHiveVars, executionsVars, rootVars, graphVars>>
    \/ node = "zohoAdjust" /\ ZA!Next
       /\ UNCHANGED <<node, zohoVars, functionItemVars, respondVars, policyVars, affinityVars, deepCopyVars, theHiveVars, executionsVars, rootVars, graphVars>>

    \/ node = "theHive" /\ TH!Next
       /\ UNCHANGED <<node, zohoVars, functionItemVars, respondVars, policyVars, affinityVars,
                      deepCopyVars, adjustVars, executionsVars, rootVars, graphVars>>
    \/ node = "executions" /\ X!Next
       /\ UNCHANGED <<node, zohoVars, functionItemVars, respondVars, policyVars, affinityVars,
                      deepCopyVars, adjustVars, theHiveVars, rootVars, graphVars>>

    \/ node = "rootStore" /\ RS!Next
       /\ UNCHANGED <<node, zohoVars, functionItemVars, respondVars, policyVars, affinityVars,
                      deepCopyVars, adjustVars, theHiveVars, executionsVars, graphVars>>
    \/ node = "graphStore" /\ GS!Next
       /\ UNCHANGED <<node, zohoVars, functionItemVars, respondVars, policyVars, affinityVars,
                      deepCopyVars, adjustVars, theHiveVars, executionsVars, rootVars>>

Spec == Init /\ [][Next]_<<node, zohoVars, functionItemVars, respondVars, policyVars, affinityVars,
                             deepCopyVars, adjustVars, theHiveVars, executionsVars, rootVars, graphVars>>

\* Each node's variables keep the types its module gives them.
TypeOK == Z!TypeOK /\ F!TypeOK /\ R!TypeOK /\ P!TypeOK /\ A!TypeOK /\ D!TypeOK /\ ZA!TypeOK /\ TH!TypeOK /\ X!TypeOK /\ RS!TypeOK /\ GS!TypeOK

\* Zoho: a returned listing holds all records, or exactly the first `limit`.
ReturnedListingIsComplete == Z!ReturnedListingIsComplete

\* Zoho: a listing fails only when a request to Zoho failed, as the doc
\* comment's "return all items" promises.
ListingFailsOnlyOnApiError == Z!ListingFailsOnlyOnApiError

\* Function Item: the k-th output item is the result of the k-th input item.
OutputFollowsInput == F!OutputFollowsInput

\* Respond to Webhook: the sent headers are the user's, matched without
\* regard to case, except those the mode sets itself.
HeadersFollowOptions == R!HeadersFollowOptions

\* Subworkflow policy: a call is allowed exactly when the subworkflow's
\* settings and the license permit its parent.
CheckFollowsPolicy == P!CheckFollowsPolicy

\* Affinity: the output is every item's answer, in item order, a list
\* answer spread into its records.
OutputConcatenatesAnswers == A!OutputConcatenatesAnswers

\* deepCopy: it returns unless an array contains itself through arrays.
DeepCopyReturns == D!DeepCopyReturns

\* deepCopy: the copy equals the argument and copies each object once.
DeepCopyIsFaithful == D!DeepCopyIsFaithful

\* Zoho: an adjusted payload is what the resource's field adjusters promise.
AdjustedPayloadMatches == ZA!AdjustedPayloadMatches

\* TheHive: an update matching on fields other than id reaches exactly the
\* matching cases and leaves the values it matched on unchanged.
UpdateLeavesMatchFields == TH!UpdateLeavesMatchFields


\* Graph store: removeNode keeps, between the remaining nodes, every path
\* from an output to an input when it reconnects, and exactly the paths
\* that avoided the node when it does not.
RemovalKeepsPortPaths == GS!RemovalKeepsPortPaths

\* Graph store: getChildren returns exactly the nodes reachable in one or
\* more hops.
GetChildrenIsReachability == GS!GetChildrenIsReachability

=============================================================================
