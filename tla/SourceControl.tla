---------------------------- MODULE SourceControl ----------------------------
(***************************************************************************)
(* POST /preferences, PATCH /preferences, POST /disconnect and POST        *)
(* /push-workfolder of the source-control controller                       *)
(* (packages/cli/src/environments/sourceControl/sourceControl.controller.  *)
(* ee.ts) and of its predecessor, the version-control controller           *)
(* (environments/versionControl/versionControl.controller.ee.ts).          *)
(*                                                                         *)
(* setPreferences refuses to run while the instance is connected, then     *)
(* awaits validation, stores the preferences, initialises the repository   *)
(* and marks the instance connected.  Requests are handled concurrently by *)
(* the event loop and interleave at every await.  updatePreferences reads  *)
(* the stored branch before it awaits validation; pushWorkfolder checks    *)
(* the read-only flag before it awaits the git calls.                      *)
(*                                                                         *)
(* The preferences and git services are not in this repository; the model *)
(* gives them the smallest behaviour the controllers rely on:              *)
(*   setPreferences(p)   stores the fields p defines, keeps the others;    *)
(*   initializeRepository(p)  sets up the repository of p's URL, or throws;*)
(*   disconnect()        clears `connected` and the branch and removes the *)
(*                       repository (the cleanup the comment at line 82    *)
(*                       relies on).                                       *)
(*   setBranch(b)        switches the stored branch to b;                  *)
(*   pushWorkfolder()    pushes to the stored branch, or throws.           *)
(* Validation and service init() are awaited but change nothing modelled.  *)
(***************************************************************************)
EXTENDS FiniteSets

CONSTANTS
    Request,        \* concurrent POST /preferences requests
    Url,            \* repository URLs
    Branch,         \* non-empty branch names
    NoUrl,          \* no repository URL stored / no repository on disk
    ReadOnlyChoice, \* the branchReadOnly values bodies carry: "undefined" (absent), "true", "false"
    ControllerChoice, \* the controllers checked
    PatchRequest,   \* concurrent PATCH /preferences requests
    PushRequest     \* concurrent POST /push-workfolder requests

Controller == {"sourceControl", "versionControl"}

ASSUME ControllerChoice \subseteq Controller

Payload == [url: Url, branch: Branch \cup {""}, readOnly: ReadOnlyChoice, initRepo: BOOLEAN]

\* A PATCH body: repositoryUrl, connected and publicKey are dropped from it,
\* branchColor is not told apart from branchReadOnly by any property.
PatchBody == [branch: Branch \cup {""}, readOnly: ReadOnlyChoice]

\* The stored branchReadOnly after a body with value v was stored.
StoreReadOnly(old, v) == IF v = "undefined" THEN old ELSE v = "true"

VARIABLES
    controller,  \* which of the two controllers serves the requests
    payload,     \* per request: its body
    pc,          \* per request: where setPreferences is
    captured,    \* per request: the URL setPreferences returned to it
    prefs,       \* the preferences service: [url, branch, connected]
    repo,        \* the repository initialised on disk
    discPc,      \* the POST /disconnect request: "idle" until it runs
    patchBody,   \* per PATCH request: its body
    patchPc,     \* per PATCH request: where updatePreferences is
    current,     \* per PATCH request: the branch getPreferences() returned before the await
    pushPc,      \* per push request: where pushWorkfolder is
    pushedRO     \* per push request: the branch was read-only when the push ran

vars == <<controller, payload, pc, captured, prefs, repo, discPc, patchBody, patchPc, current, pushPc, pushedRO>>
patchVars == <<patchBody, patchPc, current, pushPc, pushedRO>>

PC == {"start", "validate", "set", "initRepo", "connect", "init", "cleanup",
       "done", "rejected", "failed"}

Init ==
    /\ controller \in ControllerChoice
    /\ payload \in [Request -> Payload]
    /\ pc = [r \in Request |-> "start"]
    /\ captured = [r \in Request |-> NoUrl]
    /\ prefs = [url |-> NoUrl, branch |-> "", connected |-> FALSE, readOnly |-> FALSE]
    /\ repo = NoUrl
    /\ discPc = "idle"
    /\ patchBody \in [PatchRequest -> PatchBody]
    /\ patchPc = [r \in PatchRequest |-> "start"]
    /\ current = [r \in PatchRequest |-> ""]
    /\ pushPc = [r \in PushRequest |-> "start"]
    /\ pushedRO = [r \in PushRequest |-> FALSE]

Goto(r, from, to) ==
    /\ pc[r] = from
    /\ pc' = [pc EXCEPT ![r] = to]

-----------------------------------------------------------------------------
\* sourceControl: the connected check, skipped for bodies with branchReadOnly.
StartSource(r) ==
    /\ controller = "sourceControl"
    /\ Goto(r, "start", IF payload[r].readOnly = "undefined" /\ prefs.connected
                        THEN "rejected" ELSE "validate")
    /\ UNCHANGED <<controller, payload, captured, prefs, repo, discPc, patchVars>>

\* versionControl: the connected check.
StartVersion(r) ==
    /\ controller = "versionControl"
    /\ Goto(r, "start", IF prefs.connected THEN "rejected" ELSE "validate")
    /\ UNCHANGED <<controller, payload, captured, prefs, repo, discPc, patchVars>>

\* await validate...Preferences(sanitizedPreferences)
Validate(r) ==
    /\ Goto(r, "validate", "set")
    /\ UNCHANGED <<controller, payload, captured, prefs, repo, discPc, patchVars>>

\* await setPreferences({...body, initRepo: body.initRepo ?? true,
\* connected: undefined}): URL and branch are stored, `connected` kept.
SetPreferences(r) ==
    /\ Goto(r, "set", IF payload[r].initRepo THEN "initRepo" ELSE "init")
    /\ prefs' = [prefs EXCEPT !.url = payload[r].url, !.branch = payload[r].branch,
                              !.readOnly = StoreReadOnly(@, payload[r].readOnly)]
    /\ captured' = [captured EXCEPT ![r] = payload[r].url]
    /\ UNCHANGED <<controller, payload, repo, discPc, patchVars>>

\* sourceControl: initializeRepository of the preferences returned earlier;
\* a failure goes to the cleanup.
InitRepoSource(r) ==
    /\ controller = "sourceControl"
    /\ \/ /\ Goto(r, "initRepo", "connect")
          /\ repo' = captured[r]
       \/ /\ Goto(r, "initRepo", "cleanup")
          /\ UNCHANGED repo
    /\ UNCHANGED <<controller, payload, captured, prefs, discPc, patchVars>>

\* sourceControl: `if (getPreferences().branchName !== '')` set connected.
ConnectSource(r) ==
    /\ controller = "sourceControl"
    /\ Goto(r, "connect", "init")
    /\ prefs' = IF prefs.branch # "" THEN [prefs EXCEPT !.connected = TRUE] ELSE prefs
    /\ UNCHANGED <<controller, payload, captured, repo, discPc, patchVars>>

\* sourceControl catch: disconnect({keepKeyPair: true}), then rethrow.
Cleanup(r) ==
    /\ Goto(r, "cleanup", "failed")
    /\ prefs' = [prefs EXCEPT !.connected = FALSE, !.branch = ""]
    /\ repo' = NoUrl
    /\ UNCHANGED <<controller, payload, captured, discPc, patchVars>>

\* versionControl: initializeRepository, no cleanup on failure.
InitRepoVersion(r) ==
    /\ controller = "versionControl"
    /\ \/ /\ Goto(r, "initRepo", "connect")
          /\ repo' = captured[r]
       \/ /\ Goto(r, "initRepo", "failed")
          /\ UNCHANGED repo
    /\ UNCHANGED <<controller, payload, captured, prefs, discPc, patchVars>>

\* versionControl: setPreferences({connected: true}).
ConnectVersion(r) ==
    /\ controller = "versionControl"
    /\ Goto(r, "connect", "init")
    /\ prefs' = [prefs EXCEPT !.connected = TRUE]
    /\ UNCHANGED <<controller, payload, captured, repo, discPc, patchVars>>

\* await sourceControlService.init(), then answer.
ServiceInit(r) ==
    /\ Goto(r, "init", "done")
    /\ UNCHANGED <<controller, payload, captured, prefs, repo, discPc, patchVars>>

\* POST /disconnect: sourceControlService.disconnect(body).
Disconnect ==
    /\ discPc = "idle"
    /\ discPc' = "done"
    /\ prefs' = [prefs EXCEPT !.connected = FALSE, !.branch = ""]
    /\ repo' = NoUrl
    /\ UNCHANGED <<controller, payload, pc, captured, patchVars>>

-----------------------------------------------------------------------------
(* PATCH /preferences (updatePreferences) and POST /push-workfolder.       *)
\* The other variables, for the PATCH and push steps.
PostVars == <<controller, payload, pc, captured, repo, discPc>>

PatchGoto(r, from, to) ==
    /\ patchPc[r] = from
    /\ patchPc' = [patchPc EXCEPT ![r] = to]

\* getPreferences() is read, then validation is awaited; it may reject.
PatchStart(r) ==
    /\ PatchGoto(r, "start", "validate")
    /\ current' = [current EXCEPT ![r] = prefs.branch]
    /\ UNCHANGED <<prefs, patchBody, pushPc, pushedRO>> /\ UNCHANGED PostVars

PatchValidate(r) ==
    /\ \/ PatchGoto(r, "validate", "setBranch")
       \/ PatchGoto(r, "validate", "failed")
    /\ UNCHANGED <<prefs, patchBody, current, pushPc, pushedRO>> /\ UNCHANGED PostVars

\* `if (branchName && branchName !== currentPreferences.branchName)` await
\* setBranch: the comparison is with the value read before the await.
PatchSetBranch(r) ==
    /\ PatchGoto(r, "setBranch", "setFlags")
    /\ prefs' = IF patchBody[r].branch # "" /\ patchBody[r].branch # current[r]
                THEN [prefs EXCEPT !.branch = patchBody[r].branch]
                ELSE prefs
    /\ UNCHANGED <<patchBody, current, pushPc, pushedRO>> /\ UNCHANGED PostVars

\* await setPreferences({branchColor, branchReadOnly}, true), then await
\* init(); the answer is the preferences as they are then.
PatchSetFlags(r) ==
    /\ PatchGoto(r, "setFlags", "done")
    /\ prefs' = [prefs EXCEPT !.readOnly = StoreReadOnly(@, patchBody[r].readOnly)]
    /\ UNCHANGED <<patchBody, current, pushPc, pushedRO>> /\ UNCHANGED PostVars

PushGoto(r, from, to) ==
    /\ pushPc[r] = from
    /\ pushPc' = [pushPc EXCEPT ![r] = to]

\* sourceControlLicensedAndEnabledMiddleware (not in this repository) lets
\* only a connected instance through; then `if (isBranchReadOnly()) throw`,
\* then await setGitUserDetails.
PushCheck(r) ==
    /\ PushGoto(r, "start", IF ~prefs.connected \/ prefs.readOnly THEN "rejected" ELSE "gitUser")
    /\ UNCHANGED <<prefs, patchBody, patchPc, current, pushedRO>> /\ UNCHANGED PostVars

\* await pushWorkfolder(body): the commits go to the remote branch (200), or
\* the diff is answered (409), or it throws.
PushWorkfolder(r) ==
    /\ \/ PushGoto(r, "gitUser", "done")
          /\ pushedRO' = [pushedRO EXCEPT ![r] = prefs.readOnly]
       \/ PushGoto(r, "gitUser", "failed")
          /\ UNCHANGED pushedRO
    /\ UNCHANGED <<prefs, patchBody, patchPc, current>> /\ UNCHANGED PostVars

Next ==
    \/ Disconnect
    \/ \E r \in PatchRequest : PatchStart(r) \/ PatchValidate(r) \/ PatchSetBranch(r) \/ PatchSetFlags(r)
    \/ \E r \in PushRequest : PushCheck(r) \/ PushWorkfolder(r)
    \/ \E r \in Request :
          \/ StartSource(r) \/ StartVersion(r) \/ Validate(r) \/ SetPreferences(r)
          \/ InitRepoSource(r) \/ ConnectSource(r) \/ Cleanup(r)
          \/ InitRepoVersion(r) \/ ConnectVersion(r) \/ ServiceInit(r)

Spec == Init /\ [][Next]_vars

-----------------------------------------------------------------------------
TypeOK ==
    /\ controller \in Controller
    /\ payload \in [Request -> Payload]
    /\ pc \in [Request -> PC]
    /\ captured \in [Request -> Url \cup {NoUrl}]
    /\ prefs \in [url: Url \cup {NoUrl}, branch: Branch \cup {""}, connected: BOOLEAN, readOnly: BOOLEAN]
    /\ patchPc \in [PatchRequest -> {"start", "validate", "setBranch", "setFlags", "done", "failed"}]
    /\ pushPc \in [PushRequest -> {"start", "gitUser", "done", "rejected", "failed"}]
    /\ repo \in Url \cup {NoUrl}
    /\ discPc \in {"idle", "done"}

(***************************************************************************)
(* Both controllers refuse to "change preferences while connected": so     *)
(* whenever the instance is connected, the repository on disk is the one   *)
(* of the stored repository URL.                                           *)
(***************************************************************************)
RepositoryMatchesPreferences == prefs.connected => repo = prefs.url

(***************************************************************************)
(* pushWorkfolder refuses with "Cannot push onto read-only branch.": so no *)
(* push request's push runs while the branch is read-only, whatever PATCH  *)
(* /preferences requests do meanwhile.                                     *)
(***************************************************************************)
NoPushOntoReadOnly == \A r \in PushRequest : ~pushedRO[r]

=============================================================================
