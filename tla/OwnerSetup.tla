----------------------------- MODULE OwnerSetup -----------------------------
(***************************************************************************)
(* Instance-owner setup (packages/cli/src/controllers/owner.controller.ts). *)
(* POST /owner promotes the owner shell: it checks the in-memory flag      *)
(* userManagement.isInstanceOwnerSetUp, validates the payload, loads the   *)
(* caller, hashes the password, validates and saves the user, writes the   *)
(* flag to the settings table and then to the in-memory config, and issues *)
(* a cookie.  POST /owner/skip-setup writes skipInstanceOwnerSetup the     *)
(* same way.                                                               *)
(*                                                                         *)
(* Requests are handled concurrently by the event loop and interleave at   *)
(* every await.  A request's payload and caller are fixed at its start;    *)
(* the database calls may fail (the request then ends in an error).        *)
(***************************************************************************)
EXTENDS FiniteSets

CONSTANTS
    Request,   \* concurrent HTTP requests to POST /owner
    Cred,      \* distinct email/name/password payloads
    NoCred     \* the shell's empty credentials

VARIABLES
    payload,       \* per request: [caller, cred, wellFormed, entityValid]
    pc,            \* per request: where promoteOwner is
    ownerCred,     \* the credentials stored on the owner row
    dbSetUp,       \* settings table: isInstanceOwnerSetUp
    configSetUp,   \* in-memory config: isInstanceOwnerSetUp
    dbSkip,        \* settings table: skipInstanceOwnerSetup
    configSkip,    \* in-memory config: skipInstanceOwnerSetup
    skipPc         \* where the skip-setup request is

vars == <<payload, pc, ownerCred, dbSetUp, configSetUp, dbSkip, configSkip, skipPc>>

\* The caller of a request: the owner shell, a user of another global role,
\* or an id with no row.
Caller == {"shell", "member", "missing"}

Payload == [caller: Caller, cred: Cred, wellFormed: BOOLEAN, entityValid: BOOLEAN]

\* Where a promoteOwner call is between its awaits.
PC == {"start", "findUser", "hash", "validate", "save", "updateSetting",
       "issueCookie", "done", "rejected", "failed"}

\* Phases a call has reached only after saving the owner row.
Saved == {"updateSetting", "issueCookie", "done"}

Init ==
    /\ payload \in [Request -> Payload]
    /\ pc = [r \in Request |-> "start"]
    /\ ownerCred = NoCred
    /\ dbSetUp = FALSE
    /\ configSetUp = FALSE
    /\ dbSkip = FALSE
    /\ configSkip = FALSE
    /\ skipPc = "start"

Goto(r, from, to) ==
    /\ pc[r] = from
    /\ pc' = [pc EXCEPT ![r] = to]

PromoteUnchanged == UNCHANGED <<payload, dbSkip, configSkip, skipPc>>

\* The synchronous start: owner already set up, bad email, or missing names
\* are rejected; otherwise the user lookup is awaited.
Start(r) ==
    /\ Goto(r, "start",
            IF configSetUp \/ ~payload[r].wellFormed THEN "rejected" ELSE "findUser")
    /\ UNCHANGED <<ownerCred, dbSetUp, configSetUp>> /\ PromoteUnchanged

\* Fault model: the role of the caller is not checked.
FindUserWithoutRoleCheck(r) ==
    /\ Goto(r, "findUser", IF payload[r].caller = "missing" THEN "rejected" ELSE "hash")
    /\ UNCHANGED <<ownerCred, dbSetUp, configSetUp>> /\ PromoteUnchanged

\* A missing user, or a global role other than owner, is rejected.
FindUser(r) ==
    /\ Goto(r, "findUser", IF payload[r].caller = "shell" THEN "hash" ELSE "rejected")
    /\ UNCHANGED <<ownerCred, dbSetUp, configSetUp>> /\ PromoteUnchanged

HashPassword(r) ==
    /\ Goto(r, "hash", "validate")
    /\ UNCHANGED <<ownerCred, dbSetUp, configSetUp>> /\ PromoteUnchanged

ValidateEntity(r) ==
    /\ Goto(r, "validate", IF payload[r].entityValid THEN "save" ELSE "failed")
    /\ UNCHANGED <<ownerCred, dbSetUp, configSetUp>> /\ PromoteUnchanged

\* Fault model: the whole request body is assigned to the row
\* (Object.assign(owner, req.body)) instead of the four picked fields.
SaveWholeBody(r) ==
    /\ \/ /\ Goto(r, "save", "updateSetting")
          /\ ownerCred' = payload[r]
       \/ /\ Goto(r, "save", "failed")
          /\ UNCHANGED ownerCred
    /\ UNCHANGED <<dbSetUp, configSetUp>> /\ PromoteUnchanged

\* userRepository.save: the row takes the payload, or the save throws.
Save(r) ==
    /\ \/ /\ Goto(r, "save", "updateSetting")
          /\ ownerCred' = payload[r].cred
       \/ /\ Goto(r, "save", "failed")
          /\ UNCHANGED ownerCred
    /\ UNCHANGED <<dbSetUp, configSetUp>> /\ PromoteUnchanged

\* Fault model: the in-memory flag is set before the settings update is
\* awaited, so it is set even when the update fails.
UpdateSettingConfigFirst(r) ==
    /\ configSetUp' = TRUE
    /\ \/ /\ Goto(r, "updateSetting", "issueCookie")
          /\ dbSetUp' = TRUE
       \/ /\ Goto(r, "updateSetting", "failed")
          /\ UNCHANGED dbSetUp
    /\ UNCHANGED ownerCred /\ PromoteUnchanged

\* settingsRepository.update, then config.set once it resolved.
UpdateSetting(r) ==
    /\ \/ /\ Goto(r, "updateSetting", "issueCookie")
          /\ dbSetUp' = TRUE
          /\ configSetUp' = TRUE
       \/ /\ Goto(r, "updateSetting", "failed")
          /\ UNCHANGED <<dbSetUp, configSetUp>>
    /\ UNCHANGED ownerCred /\ PromoteUnchanged

IssueCookie(r) ==
    /\ Goto(r, "issueCookie", "done")
    /\ UNCHANGED <<ownerCred, dbSetUp, configSetUp>> /\ PromoteUnchanged

\* skipSetup: await the settings update, then set the config.
SkipUpdate ==
    /\ skipPc = "start"
    /\ \/ /\ skipPc' = "done"
          /\ dbSkip' = TRUE
          /\ configSkip' = TRUE
       \/ /\ skipPc' = "failed"
          /\ UNCHANGED <<dbSkip, configSkip>>
    /\ UNCHANGED <<payload, pc, ownerCred, dbSetUp, configSetUp>>

Next ==
    \/ \E r \in Request :
          \/ Start(r) \/ FindUser(r) \/ HashPassword(r) \/ ValidateEntity(r)
          \/ Save(r) \/ UpdateSetting(r) \/ IssueCookie(r)
    \/ SkipUpdate

Spec == Init /\ [][Next]_vars

-----------------------------------------------------------------------------
TypeOK ==
    /\ payload \in [Request -> Payload]
    /\ pc \in [Request -> PC]
    /\ ownerCred \in Cred \cup {NoCred}
    /\ {dbSetUp, configSetUp, dbSkip, configSkip} \subseteq BOOLEAN
    /\ skipPc \in {"start", "done", "failed"}

(***************************************************************************)
(* The in-memory flags never run ahead of the settings table, and the      *)
(* table only says the owner is set up once an owner row has been saved,   *)
(* whatever fails and whatever the concurrent requests do in between.     *)
(***************************************************************************)
FlagsFollowDatabase ==
    /\ configSetUp => dbSetUp
    /\ dbSetUp => ownerCred # NoCred
    /\ configSkip => dbSkip

(***************************************************************************)
(* Only the owner shell can be promoted, and only with a valid entity: the *)
(* credentials on the owner row are those of a request of the shell that  *)
(* passed every check before its save, whatever other requests, failures  *)
(* and the skip did meanwhile.                                             *)
(***************************************************************************)
OwnerRowFromValidShellRequest ==
    ownerCred # NoCred =>
        \E r \in Request :
            /\ payload[r].caller = "shell" /\ payload[r].entityValid
            /\ payload[r].cred = ownerCred
            /\ pc[r] \notin {"start", "findUser", "hash", "validate", "save", "rejected"}

(***************************************************************************)
(* The check at the top of promoteOwner is meant to make setup happen      *)
(* once: a request that answered with the owner's cookie set up the owner  *)
(* that stays stored, and no later request replaces those credentials.    *)
(***************************************************************************)
SetupIsFinal ==
    \A r \in Request : pc[r] \in {"issueCookie", "done"} => ownerCred = payload[r].cred

=============================================================================
