------------------------- MODULE QueueErrorHandler -------------------------
(***************************************************************************)
(* The 'error' listener the worker puts on its Bull queue                  *)
(* (packages/cli/src/commands/worker.ts, run()).  Connection-refused       *)
(* errors are tolerated while Redis comes back: the listener adds up the   *)
(* time between consecutive errors that are at most 30 s apart and exits   *)
(* with code 1 once that sum passes queue.bull.redis.timeoutThreshold; a   *)
(* longer quiet gap starts the sum again.  A Lua-script initialisation     *)
(* error exits with code 2; any other error is rethrown.                   *)
(*                                                                         *)
(* Time is Date.now() in seconds; each error arrives some seconds after    *)
(* the previous one.                                                       *)
(***************************************************************************)
EXTENDS Naturals

CONSTANTS
    Gap,        \* the 30000 ms "recovered" window, in seconds
    Limit,      \* redisConnectionTimeoutLimit, in seconds
    MaxDelay,   \* the longest wait between two errors that is enumerated
    MaxTime     \* bound on the clock

ASSUME Gap \in Nat /\ Limit \in Nat /\ MaxDelay > Gap /\ MaxTime > Gap

ErrorKind == {"ECONNREFUSED", "LuaInit", "Other"}

VARIABLES
    now,                \* Date.now()
    lastTimer,          \* the listener's lastTimer
    cumulativeTimeout,  \* the listener's cumulativeTimeout
    exitCode,           \* "none" while running, else the process exit code or "thrown"
    outageStart,        \* history: first error of the current run of refused errors
    lastRefused         \* history: time of the latest refused error

vars == <<now, lastTimer, cumulativeTimeout, exitCode, outageStart, lastRefused>>

\* The listener is installed long after the epoch, so the first error
\* always counts as "no timeout at all".
Init ==
    /\ now = Gap + 1
    /\ lastTimer = 0
    /\ cumulativeTimeout = 0
    /\ exitCode = "none"
    /\ outageStart = 0
    /\ lastRefused = 0

\* Fault model: the quiet-gap branch forgets to restart the sum.
OnRefusedWithoutReset(t) ==
    IF t - lastTimer > Gap
      THEN [lastTimer |-> t, cumulativeTimeout |-> cumulativeTimeout, exit |-> FALSE]
      ELSE LET c == cumulativeTimeout + (t - lastTimer)
           IN  [lastTimer |-> t, cumulativeTimeout |-> c, exit |-> c > Limit]

\* Fault model: the gap is subtracted the wrong way round.
OnRefusedSwappedGap(t) ==
    IF t - lastTimer > Gap
      THEN [lastTimer |-> t, cumulativeTimeout |-> 0, exit |-> FALSE]
      ELSE LET c == cumulativeTimeout + (lastTimer - t)
           IN  [lastTimer |-> t, cumulativeTimeout |-> c, exit |-> c > Limit]

\* The ECONNREFUSED branch at time t: the new lastTimer and cumulativeTimeout
\* and whether process.exit(1) is called.
OnRefused(t) ==
    IF t - lastTimer > Gap
      THEN [lastTimer |-> t, cumulativeTimeout |-> 0, exit |-> FALSE]
      ELSE LET c == cumulativeTimeout + (t - lastTimer)
           IN  [lastTimer |-> t, cumulativeTimeout |-> c, exit |-> c > Limit]

QueueError(kind, delay) ==
    /\ exitCode = "none"
    /\ now + delay <= MaxTime
    /\ now' = now + delay
    /\ \/ /\ kind = "ECONNREFUSED"
          /\ LET r == OnRefused(now')
             IN  /\ lastTimer' = r.lastTimer
                 /\ cumulativeTimeout' = r.cumulativeTimeout
                 /\ exitCode' = IF r.exit THEN "exit1" ELSE "none"
          /\ outageStart' = IF now' - lastRefused > Gap THEN now' ELSE outageStart
          /\ lastRefused' = now'
       \/ /\ kind = "LuaInit"
          /\ exitCode' = "exit2"
          /\ UNCHANGED <<lastTimer, cumulativeTimeout, outageStart, lastRefused>>
       \/ /\ kind = "Other"
          /\ exitCode' = "thrown"
          /\ UNCHANGED <<lastTimer, cumulativeTimeout, outageStart, lastRefused>>

Next == \E kind \in ErrorKind, delay \in 0..MaxDelay : QueueError(kind, delay)

Spec == Init /\ [][Next]_vars

-----------------------------------------------------------------------------
TypeOK ==
    /\ now \in Nat /\ lastTimer \in Nat /\ cumulativeTimeout \in Nat
    /\ exitCode \in {"none", "exit1", "exit2", "thrown"}

(***************************************************************************)
(* The worker gives up on Redis (exit code 1) exactly when the current     *)
(* outage -- refused errors each at most Gap after the previous one --     *)
(* has lasted longer than Limit; an outage that ended with a longer quiet  *)
(* period never counts towards the next one.                               *)
(***************************************************************************)
ExitIffOutageExceedsLimit ==
    lastRefused > 0 =>
        ((exitCode = "exit1") <=> (lastRefused - outageStart > Limit))

=============================================================================
