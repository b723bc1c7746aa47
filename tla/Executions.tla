----------------------------- MODULE Executions -----------------------------
(***************************************************************************)
(* ExecutionsController (packages/cli/src/executions/executions.controller *)
(* .ts).  Every endpoint first awaits the ids of the workflows the user may *)
(* reach: those the user owns, or, with the sharing license, also those    *)
(* shared with the user.  All but GET /active answer an empty list with    *)
(* an empty page or NotFound; then the execution services run the request  *)
(* restricted to those ids.  POST /active/:id/stop awaits findOne before   *)
(* it stops the execution it found.                                        *)
(*                                                                         *)
(* The sharing and execution services are outside the repository; they    *)
(* are given the behaviour the controller relies on: the shared workflow   *)
(* ids by role, and queries that keep to the ids they are given.  Other    *)
(* requests may change the user's roles, and executions finish, at any     *)
(* await of the request.                                                   *)
(***************************************************************************)
EXTENDS FiniteSets

CONSTANTS
    Workflow,     \* workflow ids
    Execution,    \* execution ids
    WorkflowOf    \* the workflow of each execution

Endpoint == {"getMany", "getOne", "retry", "delete", "getActive", "stop"}

Role == {"none", "owner", "editor"}

VARIABLES
    xstatus,   \* "idle" | "started" | "checked" | "found" | "done" | "notFound"
    sharing,   \* license.isSharingEnabled()
    roles,     \* the user's role on each workflow, now
    stored,    \* executions in the database
    running,   \* active executions
    endpoint,  \* the request's endpoint
    target,    \* the execution id of the request (getOne, retry, delete, stop)
    ids,       \* the workflow ids the request read
    reached    \* executions the request returned, retried, deleted or stopped

vars == <<xstatus, sharing, roles, stored, running, endpoint, target, ids, reached>>

Init ==
    /\ xstatus = "idle"
    /\ sharing = FALSE
    /\ roles = [w \in Workflow |-> "none"]
    /\ stored = {}
    /\ running = {}
    /\ endpoint = "getMany"
    /\ target = CHOOSE e \in Execution : TRUE
    /\ ids = {}
    /\ reached = {}

\* A request arrives; the instance's license, the user's roles and the
\* executions are what they are at that moment.
Start ==
    /\ xstatus = "idle"
    /\ xstatus' = "started"
    /\ \E s \in BOOLEAN, r \in [Workflow -> Role], st \in SUBSET Execution, a \in SUBSET Execution,
          ep \in Endpoint, t \in Execution :
          /\ a \subseteq st
          /\ sharing' = s /\ roles' = r /\ stored' = st /\ running' = a
          /\ endpoint' = ep /\ target' = t
    /\ UNCHANGED <<ids, reached>>

\* getAccessibleWorkflowIds: getSharedWorkflowIds(user), or with ['owner']
\* when sharing is not licensed.
GetAccessibleWorkflowIds(s, r) ==
    IF s THEN {w \in Workflow : r[w] # "none"} ELSE {w \in Workflow : r[w] = "owner"}

\* The executions of the workflows in ws, among those of set es.
InWorkflows(es, ws) == {e \in es : WorkflowOf[e] \in ws}

\* await getAccessibleWorkflowIds, then the empty-list early exits.
ReadIds ==
    /\ xstatus = "started"
    /\ LET ws == GetAccessibleWorkflowIds(sharing, roles)
       IN  /\ ids' = ws
           /\ xstatus' = CASE ws # {} \/ endpoint = "getActive" -> "checked"
                           [] endpoint = "getMany" -> "done"   \* { count: 0, results: [] }
                           [] OTHER -> "notFound"
    /\ UNCHANGED <<sharing, roles, stored, running, endpoint, target, reached>>

\* The service call of the endpoint, restricted to the ids read.
Serve ==
    /\ xstatus = "checked"
    /\ LET mine == InWorkflows(stored, ids)
       IN  CASE endpoint = "getMany" ->
                  xstatus' = "done" /\ reached' = mine /\ UNCHANGED <<stored, running>>
             [] endpoint \in {"getOne", "retry"} ->
                  /\ xstatus' = IF target \in mine THEN "done" ELSE "notFound"
                  /\ reached' = {target} \cap mine
                  /\ UNCHANGED <<stored, running>>
             [] endpoint = "delete" ->
                  /\ xstatus' = "done" /\ reached' = {target} \cap mine
                  /\ stored' = stored \ ({target} \cap mine)
                  /\ running' = running \ ({target} \cap mine)
             [] endpoint = "getActive" ->
                  xstatus' = "done" /\ reached' = InWorkflows(running, ids) /\ UNCHANGED <<stored, running>>
             [] OTHER ->   \* stop: await findOne(id, workflowIds); none is NotFound
                  /\ xstatus' = IF target \in InWorkflows(running, ids) THEN "found" ELSE "notFound"
                  /\ UNCHANGED <<reached, stored, running>>
    /\ UNCHANGED <<sharing, roles, endpoint, target, ids>>

\* stop: stopExecutionIn{Queue,Regular}Mode(execution) on the one found.
StopFound ==
    /\ xstatus = "found"
    /\ xstatus' = "done"
    /\ reached' = {target}
    /\ running' = running \ {target}
    /\ UNCHANGED <<sharing, roles, stored, endpoint, target, ids>>

\* Another request changes the user's role on a workflow.
ChangeRole ==
    /\ xstatus \in {"started", "checked", "found"}
    /\ \E w \in Workflow, r \in Role : roles' = [roles EXCEPT ![w] = r]
    /\ UNCHANGED <<xstatus, sharing, stored, running, endpoint, target, ids, reached>>

\* An active execution finishes.
Finish ==
    /\ xstatus \in {"started", "checked", "found"}
    /\ \E e \in running : running' = running \ {e}
    /\ UNCHANGED <<xstatus, sharing, roles, stored, endpoint, target, ids, reached>>

Answered ==
    /\ xstatus \in {"done", "notFound"}
    /\ UNCHANGED vars

Next == Start \/ ReadIds \/ Serve \/ StopFound \/ ChangeRole \/ Finish \/ Answered

Spec == Init /\ [][Next]_vars

-----------------------------------------------------------------------------
TypeOK ==
    /\ xstatus \in {"idle", "started", "checked", "found", "done", "notFound"}
    /\ roles \in [Workflow -> Role]
    /\ running \subseteq stored
    /\ endpoint \in Endpoint
    /\ reached \subseteq Execution

====
