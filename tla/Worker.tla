------------------------------- MODULE Worker -------------------------------
(***************************************************************************)
(* The queue worker (packages/cli/src/commands/worker.ts): Bull hands jobs *)
(* to runJob up to `concurrency` at a time; runJob awaits the database a   *)
(* few times, starts the workflow and records its cancelable promise in    *)
(* Worker.runningJobs; a global:progress event with -1 cancels a recorded  *)
(* run; SIGTERM/SIGINT call stopProcess, which pauses the queue, runs the  *)
(* stop hooks, arms a hard-exit timer and polls runningJobs until empty.   *)
(*                                                                         *)
(* Every await is a step of its own, so the event loop may interleave any  *)
(* other callback there.  What the database returns for a job is fixed per *)
(* behaviour (jobData); how a started workflow settles is free, because    *)
(* WorkflowExecute is not part of this repository.                         *)
(***************************************************************************)
EXTENDS Naturals, FiniteSets

CONSTANTS
    Job,          \* ids of the jobs in the queue
    Concurrency   \* the --concurrency flag handed to jobQueue.process

ASSUME Concurrency \in Nat \ {0}

VARIABLES
    jobData,      \* what the database holds for each job
    phase,        \* where runJob of each job is
    runOutcome,   \* the workflow promise: "none" before start, then pending/resolved/rejected
    runningJobs,  \* the keys of Worker.runningJobs
    cancelled,    \* per job: "no" cancel yet, or whether the cancel came
                  \* "early" (workflow unsettled) or "late" (history)
    paused,       \* jobQueue.pause(true) was called
    proc,         \* "running", "stopping" (stop hooks), "draining", "exited"
    timerArmed,   \* the hard-exit setTimeout of stopProcess is set
    exitReason,   \* "none", "drained", "timeout", "crash", "killed"
    boot,         \* run(): "starting", "processing" (jobQueue.process called), "ready"
    signalled     \* the once-listeners of SIGTERM/SIGINT have been used

vars == <<jobData, phase, runOutcome, runningJobs, cancelled, paused, proc,
          timerArmed, exitReason, boot, signalled>>

JobRecord == [execution: BOOLEAN, loadStaticData: BOOLEAN,
              workflow: BOOLEAN, permitted: BOOLEAN]

\* Positions of runJob between its awaits; "waiting" is before Bull calls it.
ActivePhases == {"fetchExecution", "getOwner", "loadWorkflow", "getBase",
                 "checkPermission", "afterHook", "running"}
Phase == {"waiting", "succeeded", "failed"} \cup ActivePhases

Active == {j \in Job : phase[j] \in ActivePhases}

Alive == proc # "exited"

Init ==
    /\ jobData \in [Job -> JobRecord]
    /\ phase = [j \in Job |-> "waiting"]
    /\ runOutcome = [j \in Job |-> "none"]
    /\ runningJobs = {}
    /\ cancelled = [j \in Job |-> "no"]
    /\ paused = FALSE
    /\ proc = "running"
    /\ timerArmed = FALSE
    /\ exitReason = "none"
    /\ boot = "starting"
    /\ signalled = FALSE

JobStep(j, from, to) ==
    /\ Alive
    /\ phase[j] = from
    /\ phase' = [phase EXCEPT ![j] = to]

-----------------------------------------------------------------------------
(* runJob *)

\* Bull calls the process handler while the queue is not paused and fewer
\* than `concurrency` jobs are active.
PickUp(j) ==
    /\ boot # "starting"
    /\ ~paused
    /\ Cardinality(Active) < Concurrency
    /\ JobStep(j, "waiting", "fetchExecution")
    /\ UNCHANGED <<jobData, runOutcome, runningJobs, cancelled, paused, proc,
                   timerArmed, exitReason, boot, signalled>>

\* await Execution.findOneBy; a missing execution throws.
FetchExecution(j) ==
    /\ JobStep(j, "fetchExecution",
               IF jobData[j].execution THEN "getOwner" ELSE "failed")
    /\ UNCHANGED <<jobData, runOutcome, runningJobs, cancelled, paused, proc,
                   timerArmed, exitReason, boot, signalled>>

\* await getWorkflowOwner, then static data only when the job asks for it.
GetOwner(j) ==
    /\ JobStep(j, "getOwner",
               IF jobData[j].loadStaticData THEN "loadWorkflow" ELSE "getBase")
    /\ UNCHANGED <<jobData, runOutcome, runningJobs, cancelled, paused, proc,
                   timerArmed, exitReason, boot, signalled>>

\* Fault model: a workflow that is not found is not treated as an error.
LoadWorkflowIgnoringNull(j) ==
    /\ JobStep(j, "loadWorkflow", "getBase")
    /\ UNCHANGED <<jobData, runOutcome, runningJobs, cancelled, paused, proc,
                   timerArmed, exitReason, boot, signalled>>

\* await Workflow.findOne; a null workflow throws.
LoadWorkflow(j) ==
    /\ JobStep(j, "loadWorkflow",
               IF jobData[j].workflow THEN "getBase" ELSE "failed")
    /\ UNCHANGED <<jobData, runOutcome, runningJobs, cancelled, paused, proc,
                   timerArmed, exitReason, boot, signalled>>

\* Timeout computation, new Workflow, await getBase, hooks set up.
GetBase(j) ==
    /\ JobStep(j, "getBase", "checkPermission")
    /\ UNCHANGED <<jobData, runOutcome, runningJobs, cancelled, paused, proc,
                   timerArmed, exitReason, boot, signalled>>

\* Fault model: the result of the permission check is not looked at.
CheckPermissionIgnoringResult(j) ==
    /\ JobStep(j, "checkPermission", "running")
    /\ runOutcome' = [runOutcome EXCEPT ![j] = "pending"]
    /\ runningJobs' = runningJobs \cup {j}
    /\ UNCHANGED <<jobData, cancelled, paused, proc, timerArmed, exitReason, boot, signalled>>

\* await PermissionChecker.check: on failure the workflowExecuteAfter hook
\* is awaited and the job returns success; otherwise the workflow is started
\* and recorded in runningJobs in the same synchronous stretch.
CheckPermission(j) ==
    /\ JobStep(j, "checkPermission",
               IF jobData[j].permitted THEN "running" ELSE "afterHook")
    /\ IF jobData[j].permitted
         THEN /\ runOutcome' = [runOutcome EXCEPT ![j] = "pending"]
              /\ runningJobs' = runningJobs \cup {j}
         ELSE UNCHANGED <<runOutcome, runningJobs>>
    /\ UNCHANGED <<jobData, cancelled, paused, proc, timerArmed, exitReason, boot, signalled>>

AfterHook(j) ==
    /\ JobStep(j, "afterHook", "succeeded")
    /\ UNCHANGED <<jobData, runOutcome, runningJobs, cancelled, paused, proc,
                   timerArmed, exitReason, boot, signalled>>

\* The workflow promise settles on its own (WorkflowExecute is outside the
\* repository: it may resolve or reject).
Settle(j) ==
    /\ Alive
    /\ phase[j] = "running"
    /\ runOutcome[j] = "pending"
    /\ \E r \in {"resolved", "rejected"} : runOutcome' = [runOutcome EXCEPT ![j] = r]
    /\ UNCHANGED <<jobData, phase, runningJobs, cancelled, paused, proc,
                   timerArmed, exitReason, boot, signalled>>

\* `await workflowRun` resumes: on resolve the entry is deleted and the job
\* succeeds; on reject runJob throws before the delete.
Resume(j) ==
    /\ JobStep(j, "running",
               IF runOutcome[j] = "resolved" THEN "succeeded" ELSE "failed")
    /\ runOutcome[j] \in {"resolved", "rejected"}
    /\ runningJobs' = IF runOutcome[j] = "resolved" THEN runningJobs \ {j}
                      ELSE runningJobs
    /\ UNCHANGED <<jobData, runOutcome, cancelled, paused, proc, timerArmed,
                   exitReason, boot, signalled>>

-----------------------------------------------------------------------------
\* Fault model: the handler calls cancel() without checking that the job has
\* an entry; the TypeError escapes the event listener and ends the process.
CancelWithoutEntryCheck(j) ==
    /\ Alive
    /\ j \in Active
    /\ cancelled[j] = "no"
    /\ cancelled' = [cancelled EXCEPT ![j] =
                       IF runOutcome[j] \in {"none", "pending"} THEN "early" ELSE "late"]
    /\ IF j \in runningJobs
         THEN /\ runOutcome' = [runOutcome EXCEPT ![j] =
                                  IF @ = "pending" THEN "rejected" ELSE @]
              /\ runningJobs' = runningJobs \ {j}
              /\ UNCHANGED <<proc, exitReason>>
         ELSE /\ proc' = "exited"
              /\ exitReason' = "uncaughtTypeError"
              /\ UNCHANGED <<runOutcome, runningJobs>>
    /\ UNCHANGED <<jobData, phase, paused, timerArmed, boot, signalled>>

(* global:progress with progress -1, for a job Bull holds as active: a     *)
(* recorded run is canceled (its promise rejects if still pending) and its *)
(* entry deleted; a job without an entry is left alone.                    *)
Cancel(j) ==
    /\ Alive
    /\ boot = "ready"
    /\ j \in Active
    /\ cancelled[j] = "no"
    /\ cancelled' = [cancelled EXCEPT ![j] =
                       IF runOutcome[j] \in {"none", "pending"} THEN "early" ELSE "late"]
    /\ IF j \in runningJobs
         THEN /\ runOutcome' = [runOutcome EXCEPT ![j] =
                                  IF @ = "pending" THEN "rejected" ELSE @]
              /\ runningJobs' = runningJobs \ {j}
         ELSE UNCHANGED <<runOutcome, runningJobs>>
    /\ UNCHANGED <<jobData, phase, paused, proc, timerArmed, exitReason, boot, signalled>>

-----------------------------------------------------------------------------
(* run(): after the signal listeners, the awaited initialisation, then the *)
(* queue is created and jobQueue.process called, then three more awaits,   *)
(* then the global:progress and error listeners are put on the queue.      *)

\* Settings, node types, overwrites, hooks, the database and the queue are
\* ready; Bull may hand jobs to runJob from now on.
BootQueue ==
    /\ Alive
    /\ boot = "starting"
    /\ boot' = "processing"
    /\ UNCHANGED <<jobData, phase, runOutcome, runningJobs, cancelled, paused, proc,
                   timerArmed, exitReason, signalled>>

\* getInstanceId, InternalHooksManager.init and BinaryDataManager.init
\* resolved; the listeners are registered in the same synchronous stretch.
BootReady ==
    /\ Alive
    /\ boot = "processing"
    /\ boot' = "ready"
    /\ UNCHANGED <<jobData, phase, runOutcome, runningJobs, cancelled, paused, proc,
                   timerArmed, exitReason, signalled>>

\* An initialisation step rejects: exitWithCrash.
BootFail ==
    /\ proc = "running"
    /\ boot # "ready"
    /\ proc' = "exited"
    /\ exitReason' = "crash"
    /\ UNCHANGED <<jobData, phase, runOutcome, runningJobs, cancelled, paused,
                   timerArmed, boot, signalled>>

\* With queue.health.active, the health server's port is taken: its
\* 'error' listener exits with code 1 (other server errors are ignored).
HealthPortInUse ==
    /\ Alive
    /\ boot = "ready"
    /\ proc' = "exited"
    /\ exitReason' = "crash"
    /\ UNCHANGED <<jobData, phase, runOutcome, runningJobs, cancelled, paused,
                   timerArmed, boot, signalled>>

\* A cancel published before the global:progress listener exists reaches
\* no listener of this worker.
CancelUnheard(j) ==
    /\ Alive
    /\ boot = "processing"
    /\ j \in Active
    /\ cancelled[j] = "no"
    /\ cancelled' = [cancelled EXCEPT ![j] =
                       IF runOutcome[j] \in {"none", "pending"} THEN "early" ELSE "late"]
    /\ UNCHANGED <<jobData, phase, runOutcome, runningJobs, paused, proc, timerArmed,
                   exitReason, boot, signalled>>

-----------------------------------------------------------------------------
(* stopProcess *)

\* The first SIGTERM calls stopProcess, once the queue exists (the
\* listeners are registered with process.once before it is created).
Stop ==
    /\ proc = "running"
    /\ boot # "starting"
    /\ ~signalled
    /\ proc' = "stopping"
    /\ paused' = TRUE
    /\ signalled' = TRUE
    /\ UNCHANGED <<jobData, phase, runOutcome, runningJobs, cancelled,
                   timerArmed, exitReason, boot>>

\* SIGTERM while run() is still starting: Worker.jobQueue is undefined, so
\* pause(true) throws a TypeError and stopProcess's promise rejects with
\* nobody to catch it; whether an unhandled rejection ends the process
\* depends on the Node.js build and on handlers outside the repository.
StopDuringBoot ==
    /\ proc = "running"
    /\ boot = "starting"
    /\ ~signalled
    /\ signalled' = TRUE
    /\ \/ proc' = "exited" /\ exitReason' = "crash"
       \/ UNCHANGED <<proc, exitReason>>
    /\ UNCHANGED <<jobData, phase, runOutcome, runningJobs, cancelled, paused,
                   timerArmed, boot>>

\* A second signal of the kind already received finds no listener: the
\* default action ends the process.  Each kind has its own once-listener,
\* so a SIGINT after a SIGTERM instead calls stopProcess a second time,
\* repeating the pause and the stop hooks; the model does not tell the two
\* kinds apart and lets every later signal end the process.
Kill ==
    /\ Alive
    /\ signalled
    /\ proc' = "exited"
    /\ exitReason' = "killed"
    /\ UNCHANGED <<jobData, phase, runOutcome, runningJobs, cancelled, paused,
                   timerArmed, boot, signalled>>

\* Fault model: the hard-exit timer is never armed.
StopHooksDoneWithoutTimer ==
    /\ proc = "stopping"
    /\ proc' = "draining"
    /\ UNCHANGED <<jobData, phase, runOutcome, runningJobs, cancelled, paused,
                   timerArmed, exitReason, boot, signalled>>

\* The n8n.stop hooks resolved: arm the timer and start polling runningJobs.
StopHooksDone ==
    /\ proc = "stopping"
    /\ proc' = "draining"
    /\ timerArmed' = TRUE
    /\ UNCHANGED <<jobData, phase, runOutcome, runningJobs, cancelled, paused,
                   exitReason, boot, signalled>>

\* A stop hook threw: exitWithCrash.
StopHooksFail ==
    /\ proc = "stopping"
    /\ proc' = "exited"
    /\ exitReason' = "crash"
    /\ UNCHANGED <<jobData, phase, runOutcome, runningJobs, cancelled, paused,
                   timerArmed, boot, signalled>>

\* The polling loop finds runningJobs empty and exits.
DrainExit ==
    /\ proc = "draining"
    /\ runningJobs = {}
    /\ proc' = "exited"
    /\ exitReason' = "drained"
    /\ UNCHANGED <<jobData, phase, runOutcome, runningJobs, cancelled, paused,
                   timerArmed, boot, signalled>>

\* The hard-exit timer fires.
Timeout ==
    /\ proc = "draining"
    /\ timerArmed
    /\ proc' = "exited"
    /\ exitReason' = "timeout"
    /\ UNCHANGED <<jobData, phase, runOutcome, runningJobs, cancelled, paused,
                   timerArmed, boot, signalled>>

Next ==
    \/ \E j \in Job :
          \/ PickUp(j) \/ FetchExecution(j) \/ GetOwner(j) \/ LoadWorkflow(j)
          \/ GetBase(j) \/ CheckPermission(j) \/ AfterHook(j)
          \/ Settle(j) \/ Resume(j) \/ Cancel(j) \/ CancelUnheard(j)
    \/ BootQueue \/ BootReady \/ BootFail \/ HealthPortInUse
    \/ Stop \/ StopDuringBoot \/ Kill \/ StopHooksDone \/ StopHooksFail \/ DrainExit \/ Timeout

\* The event loop runs ready callbacks and timers: the stop hooks settle,
\* a fired timer and an empty poll are acted on.  Jobs, signals and
\* settling workflows get no fairness.
Spec ==
    /\ Init /\ [][Next]_vars
    /\ WF_vars(StopHooksDone \/ StopHooksFail)
    /\ WF_vars(DrainExit)
    /\ WF_vars(Timeout)

-----------------------------------------------------------------------------
TypeOK ==
    /\ jobData \in [Job -> JobRecord]
    /\ phase \in [Job -> Phase]
    /\ runOutcome \in [Job -> {"none", "pending", "resolved", "rejected"}]
    /\ runningJobs \subseteq Job
    /\ cancelled \in [Job -> {"no", "early", "late"}]
    /\ paused \in BOOLEAN
    /\ proc \in {"running", "stopping", "draining", "exited"}
    /\ timerArmed \in BOOLEAN
    /\ exitReason \in {"none", "drained", "timeout", "crash", "killed"}
    /\ boot \in {"starting", "processing", "ready"}

(***************************************************************************)
(* runJob starts a workflow only for an execution that exists, whose       *)
(* workflow could be loaded when static data was asked for, and whose      *)
(* owner passed the permission check, whatever the other jobs, cancels and *)
(* the shutdown do in between.                                             *)
(***************************************************************************)
RunsOnlyPermittedWorkflows ==
    \A j \in Job :
        runOutcome[j] # "none" =>
            /\ jobData[j].execution
            /\ jobData[j].loadStaticData => jobData[j].workflow
            /\ jobData[j].permitted

(***************************************************************************)
(* Once stopProcess has been entered the process eventually exits, even if *)
(* a rejected workflow left its entry in runningJobs forever: the hard-exit *)
(* timer armed after the stop hooks ends the polling loop.                 *)
(***************************************************************************)
ShutdownTerminates == (proc \in {"stopping", "draining"}) ~> (proc = "exited")

(***************************************************************************)
(* The global:progress handler is how a stop request reaches the worker    *)
(* ("used to communicate that a job got canceled"): a job cancelled while  *)
(* its workflow had not finished never completes that workflow.            *)
(***************************************************************************)
CancelIsHonoured ==
    \A j \in Job : cancelled[j] = "early" => runOutcome[j] # "resolved"

(***************************************************************************)
(* stopProcess "waits for active workflow executions to finish": when it   *)
(* exits through the empty drain loop, no job the queue handed to runJob   *)
(* is still in progress, whatever phase of runJob the pause found it in.   *)
(***************************************************************************)
DrainWaitsForActiveJobs == exitReason = "drained" => Active = {}

=============================================================================
