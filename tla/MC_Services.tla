----------------------------- MODULE MC_Services -----------------------------
(***************************************************************************)
(* The request and event handlers whose runs pass, checked together: the   *)
(* queue worker's jobs, start-up and shutdown, its Redis error listener,   *)
(* the owner setup controller and the Azure Key Vault secrets provider.    *)
(* Each behaviour picks one of them and runs it; the others' variables    *)
(* stay at their initial values.  Each is idle once its last request or    *)
(* event has been handled, and the worker stops at its exit, so deadlock   *)
(* is not checked.                                                          *)
(***************************************************************************)
EXTENDS TLC

CONSTANTS r1, r2, c1, c2, NoCred, s1, s2, badName, v1, v2, Absent, Disabled, j1, j2

VARIABLES
    service,
    oPayload, oPc, ownerCred, dbSetUp, configSetUp, dbSkip, configSkip, skipPc,
    state, settings, client, cache, vault, vaultHistory, changes, upd,
    now, lastTimer, cumulativeTimeout, exitCode, outageStart, lastRefused,
    jobData, phase, runOutcome, runningJobs, cancelled, paused, proc,
    timerArmed, exitReason, boot, signalled

ownerVars == <<oPayload, oPc, ownerCred, dbSetUp, configSetUp, dbSkip, configSkip, skipPc>>
vaultVars == <<state, settings, client, cache, vault, vaultHistory, changes, upd>>
queueVars == <<now, lastTimer, cumulativeTimeout, exitCode, outageStart, lastRefused>>
workerVars == <<jobData, phase, runOutcome, runningJobs, cancelled, paused, proc,
                timerArmed, exitReason, boot, signalled>>
allVars == <<service, ownerVars, vaultVars, queueVars, workerVars>>

\* two jobs at concurrency 2: both can be anywhere in runJob at a shutdown
W == INSTANCE Worker WITH Job <- {j1, j2}, Concurrency <- 2

\* two concurrent POST /owner requests with two payloads
O == INSTANCE OwnerSetup WITH Request <- {r1, r2}, Cred <- {c1, c2}, payload <- oPayload, pc <- oPc

\* two names the pattern accepts and one it rejects; two vault changes
K == INSTANCE AzureKeyVault WITH Name <- {s1, s2, badName}, ValidName <- {s1, s2},
                                 Value <- {v1, v2}, MaxVaultChanges <- 2

\* worker.ts's 30000 ms window and the default timeoutThreshold of 10000 ms,
\* in seconds; delays reach just past the window.
Q == INSTANCE QueueErrorHandler WITH Gap <- 30, Limit <- 10, MaxDelay <- 31, MaxTime <- 110

\* The initial state a service keeps when it is not picked.
IdleJobData == [j \in {j1, j2} |-> CHOOSE d \in W!JobRecord : TRUE]
IdlePayload == [r \in {r1, r2} |-> CHOOSE p \in O!Payload : TRUE]
IdleVault == [n \in {s1, s2, badName} |-> Absent]

Init ==
    /\ service \in {"worker", "ownerSetup", "keyVault", "queueErrors"}
    /\ W!Init
    /\ service # "worker" => jobData = IdleJobData
    /\ O!Init
    /\ service # "ownerSetup" => oPayload = IdlePayload
    /\ K!Init
    /\ service # "keyVault" => vault = IdleVault
    /\ Q!Init

\* A step of the worker; the other services stand still.
WorkerStep(A) == service = "worker" /\ A /\ UNCHANGED <<service, ownerVars, vaultVars, queueVars>>

Next ==
    \/ WorkerStep(W!Next)
    \/ service = "ownerSetup" /\ O!Next /\ UNCHANGED <<service, vaultVars, queueVars, workerVars>>
    \/ service = "keyVault" /\ K!Next /\ UNCHANGED <<service, ownerVars, queueVars, workerVars>>
    \/ service = "queueErrors" /\ Q!Next /\ UNCHANGED <<service, ownerVars, vaultVars, workerVars>>

\* The worker's fairness (the event loop settles the stop hooks, runs an
\* armed timer and acts on an empty poll), on the worker's steps.
Spec ==
    /\ Init /\ [][Next]_allVars
    /\ WF_allVars(WorkerStep(W!StopHooksDone \/ W!StopHooksFail))
    /\ WF_allVars(WorkerStep(W!DrainExit))
    /\ WF_allVars(WorkerStep(W!Timeout))

\* Each service's variables keep the types its module gives them.
TypeOK == W!TypeOK /\ O!TypeOK /\ K!TypeOK /\ Q!TypeOK

\* Worker: a workflow starts only after every lookup of runJob and the
\* permission check passed.
RunsOnlyPermittedWorkflows == W!RunsOnlyPermittedWorkflows

\* Worker: once stopProcess has begun, the process exits.
ShutdownTerminates == W!ShutdownTerminates

\* Owner setup: the in-memory flags follow the settings table, and the
\* table says set up only once an owner row has been saved.
FlagsFollowDatabase == O!FlagsFollowDatabase

\* Owner setup: the owner row holds the credentials of a shell request
\* that passed every check before its save.
OwnerRowFromValidShellRequest == O!OwnerRowFromValidShellRequest

\* Key Vault: every cached secret is a defined value the vault held under
\* that name, and the name passes the pattern.
CacheHoldsVaultValues == K!CacheHoldsVaultValues

\* Queue error listener: the worker exits with code 1 exactly when the
\* current run of refused connections has lasted longer than the threshold.
ExitIffOutageExceedsLimit == Q!ExitIffOutageExceedsLimit

=============================================================================
