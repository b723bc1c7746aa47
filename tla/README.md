# TLA+ models of the n8n subset in `src/`

This directory holds TLA+ models of the parts of this repository that a model checker can explore, together with:

- MC modules and TLC configurations that instantiate the models;
- `PROJECT.json`, which names the source lines every definition models, the runs, the mutants and the hazards.

`spec.md` describes the partial-execution engine of `packages/core`. The rest of `src/` is a slice of the n8n CLI, nodes and editor.

## The system and its parts

| Part | Source | Module(s) | Actors that interleave |
|---|---|---|---|
| Graph store | `core/.../DirectedGraph.ts` (not in `src/`) | `DirectedGraph`, `GraphStore`, `MC_Nodes` (spec_modelled) | none: one caller owns a graph (spec.md §5); findStartNodes reads it |
| findStartNodes and isDirty | `core/src/PartialExecutionUtils/findStartNodes.ts` | `FindStartNodes`, `MC_FindStartNodes` | none (synchronous recursion) |
| Queue worker | `cli/src/commands/worker.ts` | `Worker`, `QueueErrorHandler`, `MC_Services`, `MC_Worker` (violation runs) | start-up, Bull job callbacks, the `global:progress` listener, SIGTERM/SIGINT and `stopProcess` with its timers, the queue `error` listener |
| User-management mailer | `cli/src/UserManagement/email/UserManagementMailer.ts` | `UserManagementMailer` | calls sharing the template cache |
| Owner setup | `cli/src/controllers/owner.controller.ts` | `OwnerSetup`, `MC_OwnerSetup`, `MC_Services` | concurrent HTTP requests |
| Source / version control preferences | `cli/src/environments/{sourceControl,versionControl}/*.controller.ee.ts` | `SourceControl`, `MC_SourceControl` | concurrent HTTP requests |
| Azure Key Vault provider | `cli/src/ExternalSecrets/providers/azure-key-vault/azure-key-vault.ts` | `AzureKeyVault`, `MC_Services` | concurrent `getSecret` fetches; the vault, changed by others |
| Postgres trigger | `nodes-base/nodes/Postgres/PostgresTrigger.node.ts` | `PostgresTrigger` | the un-awaited connect chain, notifications, deactivation |
| Sub-workflow policy | `cli/src/subworkflows/subworkflow-policy-checker.service.ts` | `SubworkflowPolicy` | none |
| Executions controller | `cli/src/executions/executions.controller.ts` | `Executions` | role changes and executions finishing during a request |
| Node helpers | Zoho, Affinity, TheHive, RespondToWebhook, FunctionItem nodes | `Zoho`, `ZohoAdjust`, `Affinity`, `TheHiveUpdate`, `RespondToWebhook`, `FunctionItem` | none (one execute() at a time) |
| deepCopy | `workflow/src/utils.ts` | `DeepCopy` | none |
| Editor root store | `editor-ui/src/stores/n8nRoot.store.ts` | `RootStore` | none (single-threaded editor) |

The sequential components share one composite model, `MC_Nodes`. A variable `node` picks one component per behaviour, that component runs, and the others' variables stay at their initial values. This lets one run check all their properties.

The queue worker, its Redis `error` listener, the owner-setup controller and the Key Vault provider have passing properties about concurrent requests, timed events and shutdown. They share a second composite of the same shape, `MC_Services`. The worker's fairness conditions there apply only to the worker's own steps (`WorkerStep`), so they constrain nothing in a behaviour that runs another service. The worker's violation runs use `MC_Worker`.

## Modules and how they follow the code

A general rule applies throughout: every `await` in a handler is a step boundary. Code between two awaits is one action. The event loop can run any other ready callback at an await.

- **`DirectedGraph`** (spec_modelled): a graph is `[nodes, connections]`. It provides `GetDirectChildren` and the operators findStartNodes uses, following spec.md §4.1.
- **`GraphStore`** (spec_modelled): the store's mutations on one graph, one call per step. They follow spec.md §4.1 and the removeNode cases of `DirectedGraph.test.ts`.
  - `AddNodes` is `addNodes`.
  - `AddConnections` is `addConnections`, between nodes already added.
  - `RemoveNode(n, reconnect)` is `removeNode`. It drops the node and its connections. With `reconnectConnections` it adds the cross product that `Reconnect` builds: the output index comes from the inbound connection and the input index from the outbound one.
  - `reconnectOption` records the option of the last removal. It is a history variable for `RemovalKeepsPortPaths`.
  - Removing a node that has a self-loop, with reconnection, keeps a connection that refers to the removed node. This follows from the algorithm of §4.1 and conflicts with the invariant of §3 that every connection's endpoints are registered. A later `addNodes` of that node revives the connection. No run checks the §3 invariant, because the code that decides this, `DirectedGraph.ts`, is not in `src/`.
- **`FindStartNodes`**: the recursion is an explicit call stack of frames `[node, source, seen, pending]`.
  - Actions: `RecordStartNode` (dirty/destination branch, lines 75-109), `StopAtCycle`, `EnterLoop` (line 118), `SkipConnection` (no data, lines 119-135), `Recurse` (pushes a frame with a copied seen set), `Return`, `Finish` (the collection loop).
  - Children are visited in any order, since the graph's insertion order is not fixed.
  - Run data per node is abstracted to `NoRun` or the set of outputs whose first run produced items: the run index is always 0, and the comment at line 123 says the front end sends one run per node.
- **`Worker`**: per job, a phase between the awaits of `runJob`:
  - `PickUp`, `FetchExecution`, `GetOwner`, `LoadWorkflow`, `GetBase`, `CheckPermission`, `AfterHook`, `Settle`, `Resume`;
  - `Cancel` is the `global:progress` listener;
  - `Stop`, `StopHooksDone`, `StopHooksFail`, `DrainExit` and `Timeout` are `stopProcess`. `Stop` is the once-listener of SIGTERM/SIGINT, so `Kill` (a second signal) ends the process at once. Each kind has its own listener, so a SIGINT after a SIGTERM really calls `stopProcess` again and repeats the pause and the stop hooks. The model does not tell the two kinds apart.
  - Start-up (`run()`): `BootQueue` is the awaited initialisation up to `jobQueue.process` (line 301), `BootReady` the awaits up to the `global:progress` listener (line 317), `BootFail` the catch that exits with a crash, `HealthPortInUse` the EADDRINUSE exit of the health server. Jobs are taken from `BootQueue` on; a cancel before `BootReady` has no listener (`CancelUnheard`); a signal before `BootQueue` finds `Worker.jobQueue` undefined (`StopDuringBoot`).
  - What the database answers for each job is chosen in `Init`. A started workflow may resolve or reject.
- **`QueueErrorHandler`**: the queue `error` listener with a clock in seconds. It covers the 30 s reset window, the threshold sum, exit code 1 and 2, and rethrow.
- **`UserManagementMailer`**: the constructor's `isEmailSetUp` choice, the template cache, invite, password reset and the two share notifications. Each call is one step.
- **`OwnerSetup`**: `promoteOwner` with every await as a step, `skip-setup`, and database calls that may fail.
- **`SourceControl`**: `setPreferences` of both controllers, `updatePreferences` (PATCH, which reads the stored branch before its awaits), `disconnect` and `pushWorkfolder` (the read-only check, then the awaited git calls), over concurrent requests. The preferences and git services get the smallest behaviour the controllers rely on.
- **`AzureKeyVault`**: `init`, `connect` and `update` (listing, one action per concurrent fetch, `Promise.all` settle). The vault may change between the listing and each fetch.
- **`PostgresTrigger`**: activations, the un-awaited `connect().then(...)` chain, LISTEN, notifications delivered one at a time, and the empty `closeFunction`.
- **`SubworkflowPolicy`**: `check()` as one step over all bounded inputs: the id test, the project lookups (which may fail), the policy, and the allow list parsed from its comma-separated string.
- **`Zoho`**: `handleListing` and `zohoApiRequestAllItems`, one loop iteration per action.
- **`ZohoAdjust`**: the payload adjusters as a `FoldLeft` of location, date and id adjusters, resource by resource, plus `adjustProductDetails`. A date adjuster mutates the caller's object while no earlier adjuster has made a new one.
- **`Affinity`**: one loop iteration per action, with the `qs` object shared across items.
- **`TheHiveUpdate`**: the key loop that splits the body into match fields and update body, then the id path (PATCH by id) or the query path (query, bulk PATCH). Any request may fail.
- **`RespondToWebhook`** and **`FunctionItem`**: `execute()` of each node. Respond to Webhook runs as one step, since it has no await before `sendResponse`. Function Item runs one item per action, under `continueOnFail`.
- **`DeepCopy`**: the recursion over a value graph, RECURSIVE over nodes.
  - The `hash` WeakMap registers plain objects but not arrays.
  - `toJSON` values become strings.
  - A stack bound turns too-deep recursion into a RangeError.
- **`Executions`**: each endpoint awaits `getAccessibleWorkflowIds` (owned workflows, or all shared ones with the sharing license), then:
  - takes the empty-list exits;
  - runs the service call restricted to those ids;
  - for stop, runs `findOne` and then stops the execution.

  Other requests may change roles, and executions may finish, at every await. No property is checked beyond the type invariant: the controller checks access once per request, and nothing promises more (hazard at `executions.controller.ts:83`).
- **`RootStore`**: the store's creation from the page globals, `setUrlBaseWebhook`/`setUrlBaseEditor` (which add a trailing `/` when there is none), the endpoint setters, `setTimezone` (which also sets the global default timezone) and the plain setters.
  - A URL is abstracted to the number of `/` at the joint of base and endpoint (`Joint`). An endpoint setter takes a value with or without a leading `/`.
  - No property is checked beyond the type invariant. A property about the joint of every getter fails in the state right after creation, because `urlBaseEditor` starts without a trailing slash. No comment or test of the store states the joint, so no run asserts it (hazard at `n8nRoot.store.ts:31`).

Code outside `src/` is modelled from spec.md and marked `spec_modelled` in `PROJECT.json`. That covers `DirectedGraph.ts`, `getIncomingData.ts`, WorkflowExecute, the services the controllers call, and remote APIs. Such code is given only the behaviour the code under `src/` relies on, and every outcome it may have (a failure, a reply) is a nondeterministic choice.

## Runs

| Run | cfg | Expect | What it shows |
|---|---|---|---|
| findstartnodes_paths | MC_FindStartNodes.cfg | pass | `StartNodesMatchStartPaths`: the start nodes are exactly the ends of the simple data-carrying paths from the trigger, grouped by connection. `RecursionDepthBounded`: the copied seen-set bounds the recursion despite cycles. |
| findstartnodes_frontier | MC_FindStartNodes_frontier.cfg | violation | `StartNodesLeadToDestination` fails on a whole graph (finding 1). |
| worker_cancel_lost | MC_Worker_cancel.cfg | violation | `CancelIsHonoured` fails: a cancel published before the `global:progress` listener is registered is never heard (finding 2). |
| worker_drain_cut | MC_Worker_drain.cfg | violation | `DrainWaitsForActiveJobs` fails: the worker exits as drained while a job is still in its lookups (finding 8). |
| mailer_share | MC_UserManagementMailer_share.cfg | violation | `ShareNotifiesSharees` fails: share notifications are never sent (finding 3). |
| services_requests | MC_Services.cfg | pass | Worker: `RunsOnlyPermittedWorkflows`, a workflow starts only after every lookup and the permission check passed. `ShutdownTerminates` (liveness): `stopProcess` always ends the process, even when a rejected run leaves its `runningJobs` entry behind. Owner setup: `FlagsFollowDatabase`, and `OwnerRowFromValidShellRequest` (the stored owner credentials come from a shell request that passed every check), under two concurrent setups, a skip and failing database calls. Key Vault: `CacheHoldsVaultValues`, the cache serves only defined values the vault held under a name the pattern accepts. Queue errors: `ExitIffOutageExceedsLimit`, exit code 1 exactly when the current Redis outage exceeds the threshold. |
| owner_double_setup | MC_OwnerSetup_final.cfg | violation | `SetupIsFinal` fails: a second concurrent setup overwrites the owner (finding 4). |
| pgtrigger_close | MC_PostgresTrigger_close.cfg | violation | `ClosedTriggerStaysSilent` fails: a deactivated trigger keeps emitting (finding 5). |
| sourcecontrol_race | MC_SourceControl_race.cfg | violation | `RepositoryMatchesPreferences` fails: the repository and the stored preferences drift apart through two concurrent `POST /preferences`, a POST with `branchReadOnly` that skips the connected check, or a version-control connect after a disconnect (finding 6). |
| sourcecontrol_push_readonly | MC_SourceControl_push.cfg | violation | `NoPushOntoReadOnly` fails: a push that passed the read-only check completes after a PATCH made the branch read-only (finding 7). |
| nodes_helpers | MC_Nodes.cfg | pass | Each helper checked against a reference definition over all bounded inputs, listed below. |
| zoho_more_records | MC_Nodes_zoho.cfg | violation | `ListingFailsOnlyOnApiError` fails: a listing of two pages throws although Zoho answered every request (finding 9). |

The nodes_helpers run checks these properties:

- `ReturnedListingIsComplete` (Zoho).
- `OutputFollowsInput` (Function Item).
- `HeadersFollowOptions` (Respond to Webhook).
- `CheckFollowsPolicy` (sub-workflow policy).
- `OutputConcatenatesAnswers` (Affinity).
- deepCopy:
  - `DeepCopyReturns`: it overflows exactly when an array reaches itself through arrays;
  - `DeepCopyIsFaithful`: the copy equals the argument, and each object is copied once.
- `AdjustedPayloadMatches`: the Zoho adjusters together give the payload their parts promise.
- `UpdateLeavesMatchFields`: TheHive's query path updates exactly the matching cases and never a matched value.
- `GetChildrenIsReachability` (graph store): `getChildren` returns exactly the nodes reachable in one or more hops, the start node included when a cycle returns to it. The reference is the closure of the connections.
- `RemovalKeepsPortPaths` (graph store, an action property): a removal with reconnection keeps every path from an output to an input between the remaining nodes, at the same port indices, and adds none. A removal without reconnection keeps exactly the paths that avoided the node.

Every property of a passing run has a mutant in `PROJECT.json`. A mutant is a fault model defined just before the definition it replaces: a dropped guard, a missing reset, a wrong spread order, a missing registration in the WeakMap, and so on. TLC finds each one violating its property under the run's own cfg.

## Findings

1. **findStartNodes explores the whole graph** (spec gap, `findStartNodes.ts:118`). Every child with data is followed. A dirty dead-end next to the destination becomes a start node unless the caller first cuts the graph down to the destination's upstream part, which spec.md does not require.
2. **Lost cancel** (code bug, `worker.ts:317`). `jobQueue.process` hands jobs to runJob from line 301, but the `global:progress` listener is registered only at line 317, after three more awaits. TLC's shortest trace (9 states) cancels a job picked up in that window (`CancelUnheard`): nobody hears the cancel, and the workflow starts and resolves. The same property also fails once the listener exists, by the gap at `worker.ts:240`: a job enters `runningJobs` only after four awaited lookups, so `Cancel` finds no entry and the workflow runs to completion. This was checked by taking `CancelUnheard` out of `Next`, which gives a trace one state longer through `BootReady`.
3. **Share notifications never sent** (code bug, `UserManagementMailer.ts:107`, `:152`). The `isEmailSetUp` guard is inverted.
4. **Double owner setup** (code bug, `owner.controller.ts:39`). The in-memory check and the flag update are separated by four awaits.
5. **Postgres trigger never closes** (code bug, `PostgresTrigger.node.ts:231`). `closeFunction` is empty, so the connection keeps listening after deactivation.
6. **Source-control preferences race** (code bug, `sourceControl.controller.ee.ts:44`). The connected check precedes the awaited writes. A body with `branchReadOnly` set skips the check altogether (`:43`), and the version-control controller sets the instance connected after its awaits even when a disconnect ran in between (`versionControl.controller.ee.ts:55`).
7. **Push onto a read-only branch** (code bug, `sourceControl.controller.ee.ts:174`). `isBranchReadOnly()` is checked before the awaited `setGitUserDetails` and `pushWorkfolder`; a concurrent `PATCH /preferences` with `branchReadOnly: true` does not stop a push already past the check.
8. **Drain cuts off jobs in preparation** (code bug, `worker.ts:97`). `stopProcess` says it waits for active executions, but it polls only `runningJobs`. A job still in runJob's lookups is not there yet, so the worker exits as drained while Bull holds the job as active.
9. **Zoho listings stop after one page** (code bug, `Zoho/GenericFunctions.ts:98`). `zohoApiRequestAllItems` sets `uri = responseData.info.more_records`, a boolean. `zohoApiRequest` then sends the next request to `uri ?? <endpoint>`, which is the URI `true`. A listing of more than 200 records therefore fails with NodeApiError, although the doc comment says the function returns all items. `Zoho.Request` splits a failure of Zoho from the rejected URI. The history variable `apiFailed` records the former.

`PROJECT.json` lists further hazards met while modelling that no run refutes. Among them:

- The Zoho date adjuster mutates the caller's fields.
- TheHive overwrites `customFields.<name>` keys with the `customFields` object.
- TheHive's id path patches the matching columns too.
- The executions controller uses a stale list of accessible ids.
- `PATCH /preferences` compares the requested branch with one read before its awaits.
- A SIGTERM during the worker's start-up is lost (the handler throws on the undefined `Worker.jobQueue`).
- `urlBaseEditor` starts without a trailing slash.

## Bounds and why they suffice

- **FindStartNodes**:
  - 3 nodes and 2 outputs.
  - Up to 3 connections, which covers self-loops, 2- and 3-cycles, fan-out and fan-in.
  - Every run/pin state, trigger and destination.
  - Depth 5 is above the 4 levels the recursion can reach.
  - Symmetry over the nodes.
- **Worker**: 2 jobs at concurrency 2, so both jobs can be at any phase when a cancel and a shutdown arrive. Every database outcome per job is enumerated.
- **QueueErrorHandler** (in `MC_Services`): the real 30 s window and 10 s threshold, delays of 0..31 s and a clock up to 110 s. Both sides of the window and of the threshold are reached.
- **Mailer, OwnerSetup, SourceControl**: 2 users, requests or URLs. The push run has one POST that connects the instance, one PATCH and one push, with every branch and `branchReadOnly` value. The race run has both controllers and bodies with `branchReadOnly` unset, true and false. Two is what a race needs. Symmetry is used where the values are interchangeable.
- **AzureKeyVault**: 2 valid names and 1 that the pattern rejects, 2 values and up to 2 vault changes during an update.
- **PostgresTrigger**: 2 activations and 2 notifications: a deactivation, a reactivation, and a notification for each.
- **MC_Nodes**:
  - Zoho listings of 0-3 records over up to 2 pages.
  - Up to 2 items for Function Item and Affinity.
  - deepCopy graphs of 3 values with up to 2 entries each, which covers all cycle shapes through arrays and objects. The depth bound of 8 is above what any acyclic argument of 3 values needs.
  - Every payload of every Zoho resource.
  - TheHive bodies in both key orders with 2 cases.
  - 2 workflows and 2 executions with every role assignment.
  - Graph store: 3 nodes (with symmetry), outputs and inputs 0 and 1, and up to 4 added connections. This covers the 2-by-2 cross product of the test, self-loops, 2- and 3-cycles, both port indices, and a node removed and added again.
  - One host and path for the root store: only the slash count at the joint matters (0 or 1 trailing slash on a base, a leading slash or none on an endpoint). A base ending in `//` is not tried.

## Fairness

The only liveness property is `ShutdownTerminates`, checked under weak fairness on what the Node.js event loop guarantees once the process is shutting down:

- the stop hooks' promise settles;
- the polling loop acts on an empty `runningJobs`;
- an armed timer fires.

Jobs, signals and workflow runs get no fairness, because a workflow may never settle. The other components have no liveness property. Their runs check deadlock only where the system does not legitimately stop: the cfgs with `CHECK_DEADLOCK FALSE` model request handlers or event listeners that are simply idle after their last event.

## Not modelled, and why

- Node and credential descriptions, form templates, the editor theme, the language package, config schemas and the role service are declarative data or a single query.
- Tests and the build script are not part of the running system.
- The worker's `/healthz` handler only reads the database and Redis connections and answers; it changes no state. The start-up's other awaits (config, database, settings loading) change nothing the properties read.
- The other source- and version-control endpoints each await one service call and turn its error into a BadRequestError; the services are not in `src/`.
- The Splunk `search get` operation makes one GET request and formats the answer with `formatSearch`, which is not in `src/`. Merge's `getResolveClashOptions` builds a list of options from a number. Neither changes any state, and neither has a promise a property could check.

## Open work

1. The code bugs that `PROJECT.json` lists as hazards without a violation run. These are the Affinity `qs` shared across items, TheHive's id path and its `customFields` overwrite, and the SIGTERM lost during the worker's start-up. Each needs a run of its own.
2. The executions services' stop path, to decide the stop-after-finish hazard.
3. A violation run for the root store's unslashed `urlBaseEditor` default; the property is given in the hazard's note.
4. An abstract specification of the worker's job handling with content of its own (what a cancel and a drain promise), refined by `Worker`. The earlier `JobQueue` refinement only restated Bull's guards, so it was dropped.
