------------------------- MODULE SubworkflowPolicy -------------------------
(***************************************************************************)
(* SubworkflowPolicyChecker.check (packages/cli/src/subworkflows/          *)
(* subworkflow-policy-checker.service.ts): may the parent workflow call   *)
(* the subworkflow?  A subworkflow without an id is always allowed; else   *)
(* the projects of both workflows are looked up (cached, through the       *)
(* ownership service, which rejects when a workflow has no project), the   *)
(* caller policy is found (workflowsFromSameOwner without the sharing      *)
(* license, else the subworkflow's setting or the configured default) and  *)
(* the call is denied by 'none', by an allow list that does not name the   *)
(* parent, or by another owning project under workflowsFromSameOwner.     *)
(*                                                                         *)
(* The allow list is the callerIds setting, a comma-separated string.  It  *)
(* is modelled as its comma-separated pieces, each an id or empty, with or *)
(* without surrounding blanks; no pieces stands for an unset callerIds.    *)
(***************************************************************************)
EXTENDS Naturals, Sequences, SequencesExt

CONSTANTS
    WorkflowId,   \* ids of saved workflows
    Project,      \* projects that own workflows
    MaxPieces     \* comma-separated pieces of callerIds

Policy == {"any", "none", "workflowsFromAList", "workflowsFromSameOwner"}

\* One piece of callerIds.split(','): an id or nothing, maybe padded.
Piece == [id: WorkflowId \cup {""}, padded: BOOLEAN]

Call == [subworkflowId: WorkflowId \cup {""},
         parentWorkflowId: WorkflowId,
         parentProject: Project \cup {"none"},   \* "none": the lookup rejects
         subworkflowProject: Project \cup {"none"},
         sharing: BOOLEAN,                       \* license.isSharingEnabled()
         callerPolicy: Policy \cup {"undefined"},
         defaultPolicy: Policy,                  \* workflows.callerPolicyDefaultOption
         callerIds: UNION {[1..n -> Piece] : n \in 0..MaxPieces}]

VARIABLES
    call,      \* the arguments of the check and what the services answer
    outcome    \* "pending" | "allowed" | "denied" | "lookupFailed"

vars == <<call, outcome>>

Init ==
    /\ call \in Call
    /\ outcome = "pending"

\* findPolicy
FindPolicy(c) ==
    IF ~c.sharing THEN "workflowsFromSameOwner"
    ELSE IF c.callerPolicy = "undefined" THEN c.defaultPolicy ELSE c.callerPolicy

\* String.prototype.trim on a piece.
Trim(p) == p.id

\* findCallerIds: split(','), map(trim), filter(id !== '') (?? [] when unset).
FindCallerIds(c) ==
    SelectSeq([i \in DOMAIN c.callerIds |-> Trim(c.callerIds[i])], LAMBDA id : id # "")

\* Fault model: the allow list compared without trimming the pieces.
IncludesCallerUntrimmed(c) ==
    \E i \in DOMAIN c.callerIds :
        /\ ~c.callerIds[i].padded
        /\ c.callerIds[i].id = c.parentWorkflowId

\* findCallerIds(subworkflow).includes(parentWorkflowId)
IncludesCaller(c) == c.parentWorkflowId \in Range(FindCallerIds(c))

\* findProjects: both getWorkflowProjectCached lookups under Promise.all,
\* which rejects if either does; `same` is areOwnedBySameProject.
FindProjects(c) ==
    [found |-> "none" \notin {c.parentProject, c.subworkflowProject},
     same |-> c.parentProject = c.subworkflowProject]

\* The whole of check(): the id test, the awaited lookups, the three denials.
Check ==
    /\ outcome = "pending"
    /\ outcome' =
         LET policy == FindPolicy(call)
             same == FindProjects(call).same
         IN  CASE call.subworkflowId = "" -> "allowed"
               [] ~FindProjects(call).found -> "lookupFailed"
               [] policy = "none" -> "denied"
               [] policy = "workflowsFromAList" /\ ~IncludesCaller(call) -> "denied"
               [] policy = "workflowsFromSameOwner" /\ ~same -> "denied"
               [] OTHER -> "allowed"
    /\ UNCHANGED call

Checked ==
    /\ outcome # "pending"
    /\ UNCHANGED vars

Next == Check \/ Checked

Spec == Init /\ [][Next]_vars

-----------------------------------------------------------------------------
TypeOK ==
    /\ call \in Call
    /\ outcome \in {"pending", "allowed", "denied", "lookupFailed"}

\* The workflows that may call a subworkflow, read off its settings.
Permitted(c) ==
    LET listed == {c.callerIds[i].id : i \in DOMAIN c.callerIds} \ {""}
    IN  {w \in WorkflowId :
           \/ ~c.sharing /\ c.parentProject = c.subworkflowProject
           \/ /\ c.sharing
              /\ LET p == IF c.callerPolicy = "undefined" THEN c.defaultPolicy ELSE c.callerPolicy
                 IN  \/ p = "any"
                     \/ p = "workflowsFromAList" /\ w \in listed
                     \/ p = "workflowsFromSameOwner" /\ c.parentProject = c.subworkflowProject}

(***************************************************************************)
(* A stored subworkflow is called exactly by the workflows its settings    *)
(* permit: without the sharing license only workflows of its own project,  *)
(* otherwise its caller policy (the instance default when it has none),    *)
(* an allow list naming the parent by id, blanks and empty entries aside.  *)
(***************************************************************************)
CheckFollowsPolicy ==
    /\ outcome = "allowed" /\ call.subworkflowId # "" =>
          call.parentWorkflowId \in Permitted(call)
    /\ outcome = "denied" => call.parentWorkflowId \notin Permitted(call)

=============================================================================
