--------------------------- MODULE PostgresTrigger ---------------------------
(***************************************************************************)
(* The Postgres Trigger node (packages/nodes-base/nodes/Postgres/          *)
(* PostgresTrigger.node.ts) across successive activations of its workflow. *)
(*                                                                         *)
(* trigger() starts db.connect() without awaiting it and returns at once   *)
(* with an empty closeFunction.  When the connection resolves, its `then`  *)
(* callback registers the 'notification' handler and sends LISTEN; a       *)
(* rejection anywhere in that chain is caught and logged.  The server      *)
(* queues every NOTIFY on the channel to each connection whose LISTEN has  *)
(* completed, and the client hands them one at a time to the handler,      *)
(* which emits.                                                           *)
(*                                                                         *)
(* Activations are numbered in the order n8n makes them; it deactivates    *)
(* (calls closeFunction) before it activates again.                        *)
(***************************************************************************)
EXTENDS Naturals, FiniteSets

CONSTANTS
    MaxActivation,   \* activations 1..MaxActivation
    MaxNotify        \* NOTIFYs sent on the channel

Activation == 1..MaxActivation

VARIABLES
    phase,      \* per activation: where its connection is
    handler,    \* per activation: the 'notification' handler is registered
    inbox,      \* per activation: notifications queued at its connection
    closed,     \* per activation: closeFunction was called
    notifies,   \* NOTIFYs sent so far
    lateEmit    \* history: activations that emitted after being closed

vars == <<phase, handler, inbox, closed, notifies, lateEmit>>

Phase == {"inactive", "connecting", "listenSent", "listening", "failed"}

Init ==
    /\ phase = [a \in Activation |-> "inactive"]
    /\ handler = [a \in Activation |-> FALSE]
    /\ inbox = [a \in Activation |-> 0]
    /\ closed = [a \in Activation |-> FALSE]
    /\ notifies = 0
    /\ lateEmit = {}

SetPhase(a, from, to) ==
    /\ phase[a] = from
    /\ phase' = [phase EXCEPT ![a] = to]

\* trigger(): the next activation, once the previous one was closed; the
\* connect promise is left running and closeFunction is returned.
Activate(a) ==
    /\ IF a = 1 THEN TRUE ELSE closed[a - 1]
    /\ SetPhase(a, "inactive", "connecting")
    /\ UNCHANGED <<handler, inbox, closed, notifies, lateEmit>>

\* db.connect({direct: true}) resolves: register the handler, send LISTEN.
Connected(a) ==
    /\ SetPhase(a, "connecting", "listenSent")
    /\ handler' = [handler EXCEPT ![a] = TRUE]
    /\ UNCHANGED <<inbox, closed, notifies, lateEmit>>

\* The connection or the LISTEN rejects: `.catch` logs the error.
ConnectFailed(a) ==
    /\ phase[a] \in {"connecting", "listenSent"}
    /\ phase' = [phase EXCEPT ![a] = "failed"]
    /\ UNCHANGED <<handler, inbox, closed, notifies, lateEmit>>

\* LISTEN completes: from now on the server queues the channel's NOTIFYs.
ListenDone(a) ==
    /\ SetPhase(a, "listenSent", "listening")
    /\ UNCHANGED <<handler, inbox, closed, notifies, lateEmit>>

\* closeFunction: `async () => {}`.
Close(a) ==
    /\ phase[a] # "inactive"
    /\ ~closed[a]
    /\ closed' = [closed EXCEPT ![a] = TRUE]
    /\ UNCHANGED <<phase, handler, inbox, notifies, lateEmit>>

\* Someone runs NOTIFY on the channel: every listening connection gets it.
Notify ==
    /\ notifies < MaxNotify
    /\ notifies' = notifies + 1
    /\ inbox' = [a \in Activation |-> IF phase[a] = "listening" THEN inbox[a] + 1 ELSE inbox[a]]
    /\ UNCHANGED <<phase, handler, closed, lateEmit>>

\* The client hands one queued notification to its 'notification' listeners:
\* the handler emits it, whatever closeFunction did.
Deliver(a) ==
    /\ inbox[a] > 0
    /\ inbox' = [inbox EXCEPT ![a] = @ - 1]
    /\ lateEmit' = IF handler[a] /\ closed[a] THEN lateEmit \cup {a} ELSE lateEmit
    /\ UNCHANGED <<phase, handler, closed, notifies>>

Next ==
    \/ Notify
    \/ \E a \in Activation :
          \/ Activate(a) \/ Connected(a) \/ ConnectFailed(a) \/ ListenDone(a)
          \/ Close(a) \/ Deliver(a)

Spec == Init /\ [][Next]_vars

-----------------------------------------------------------------------------
TypeOK ==
    /\ phase \in [Activation -> Phase]
    /\ handler \in [Activation -> BOOLEAN]
    /\ inbox \in [Activation -> 0..MaxNotify]
    /\ closed \in [Activation -> BOOLEAN]
    /\ notifies \in 0..MaxNotify
    /\ lateEmit \subseteq Activation

(***************************************************************************)
(* The comment on closeFunction says n8n calls it on deactivation so the   *)
(* node can clean up: a closed activation never emits again.               *)
(***************************************************************************)
ClosedTriggerStaysSilent == lateEmit = {}

=============================================================================
