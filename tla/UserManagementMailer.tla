------------------------ MODULE UserManagementMailer ------------------------
(***************************************************************************)
(* The user-management mailer (packages/cli/src/UserManagement/email/      *)
(* UserManagementMailer.ts): the email configuration decides once whether *)
(* mail is set up and a NodeMailer exists; invite and passwordReset send   *)
(* through `this.mailer?.`; the two share notifications look up the new   *)
(* sharees' addresses and send one mail to all of them.  Templates are     *)
(* compiled on first use and cached per name.                              *)
(*                                                                         *)
(* Each call is one step: the service keeps no state between its awaits   *)
(* but the template cache, and two calls racing on a cache miss both store *)
(* the same compiled file.  NodeMailer is outside the repository, so a     *)
(* send either delivers ({emailSent: true}) or throws.                     *)
(***************************************************************************)
EXTENDS FiniteSets

CONSTANTS
    User,       \* user ids that may be named in a call
    Host        \* a non-empty SMTP host

TemplateName == {"invite", "passwordReset", "workflowShared", "credentialsShared"}
Config == [mode: {"smtp", "sendmail"}, host: {"", Host}]

VARIABLES
    config,      \* userManagement.emails.* settings read by the constructor
    existing,    \* users the repository holds (getEmailsByIds finds these)
    templates,   \* names in the module-level templates cache
    outbox,      \* mails handed to NodeMailer and delivered: [template, to]
    telemetry,   \* onUserTransactionalEmail events: message types
    request      \* the last call: its kind, the users named, and its result

vars == <<config, existing, templates, outbox, telemetry, request>>

Result == {"emailSent", "notSent", "undefined", "thrown"}

\* constructor: smtp mode with a host; only then is a NodeMailer created.
IsEmailSetUp(c) == c.mode = "smtp" /\ c.host # ""

HasMailer == IsEmailSetUp(config)

Init ==
    /\ config \in Config
    /\ existing \in SUBSET User
    /\ templates = {}
    /\ outbox = {}
    /\ telemetry = {}
    /\ request = [kind |-> "none", users |-> {}, result |-> "undefined"]

\* getTemplate: compile and cache on a miss.
GetTemplate(name) == templates \cup {name}

\* `this.mailer?.sendMail(...)`: no mailer gives undefined, otherwise the
\* mail is delivered or the call throws.
SendOutcomes == IF HasMailer THEN {"emailSent", "thrown"} ELSE {"undefined"}

Deliver(name, to, outcome) ==
    IF outcome = "emailSent" THEN outbox \cup {[template |-> name, to |-> to]}
    ELSE outbox

\* invite / passwordReset: always load the template, send to one address,
\* and turn an undefined result into {emailSent: false}.
SendToOne(kind, u) ==
    /\ templates' = GetTemplate(kind)
    /\ \E outcome \in SendOutcomes :
          /\ outbox' = Deliver(kind, {u}, outcome)
          /\ request' = [kind |-> kind, users |-> {u},
                         result |-> IF outcome = "undefined" THEN "notSent" ELSE outcome]
    /\ UNCHANGED <<config, existing, telemetry>>

Invite(u) == SendToOne("invite", u)

PasswordReset(u) == SendToOne("passwordReset", u)

\* notifyWorkflowShared / notifyCredentialsShared, message type `event`.
Notify(kind, event, sharees) ==
    LET recipients == sharees \cap existing
        done == request' = [kind |-> kind, users |-> sharees, result |-> "undefined"]
    IN  /\ \/ /\ IsEmailSetUp(config)          \* `if (this.isEmailSetUp) return;`
              /\ done
              /\ UNCHANGED <<templates, outbox, telemetry>>
           \/ /\ ~IsEmailSetUp(config)
              /\ recipients = {}
              /\ done
              /\ UNCHANGED <<templates, outbox, telemetry>>
           \/ /\ ~IsEmailSetUp(config)
              /\ recipients # {}
              /\ templates' = GetTemplate(kind)
              /\ \E outcome \in SendOutcomes :
                    /\ outbox' = Deliver(kind, recipients, outcome)
                    /\ telemetry' = IF outcome = "emailSent" THEN telemetry \cup {event}
                                    ELSE telemetry
                    /\ request' = [kind |-> kind, users |-> sharees,
                                   result |-> IF outcome = "undefined" THEN "notSent"
                                              ELSE outcome]
        /\ UNCHANGED <<config, existing>>

NotifyWorkflowShared(sharees) == Notify("workflowShared", "Workflow shared", sharees)

NotifyCredentialsShared(sharees) == Notify("credentialsShared", "Credentials shared", sharees)

Next ==
    \/ \E u \in User : Invite(u) \/ PasswordReset(u)
    \/ \E sharees \in SUBSET User :
          NotifyWorkflowShared(sharees) \/ NotifyCredentialsShared(sharees)

Spec == Init /\ [][Next]_vars

-----------------------------------------------------------------------------
TypeOK ==
    /\ config \in Config
    /\ existing \subseteq User
    /\ templates \subseteq TemplateName
    /\ outbox \subseteq [template: TemplateName, to: SUBSET User]
    /\ telemetry \subseteq {"Workflow shared", "Credentials shared"}
    /\ request \in [kind: {"none"} \cup TemplateName, users: SUBSET User, result: Result]
    \* invite and passwordReset are typed Promise<SendEmailResult>
    /\ request.kind \in {"invite", "passwordReset"} => request.result # "undefined"

(***************************************************************************)
(* Sharing a workflow or a credential with users who have an address sends *)
(* them a notification whenever email is set up: the call reaches          *)
(* NodeMailer (which delivers or throws) instead of returning nothing.     *)
(***************************************************************************)
ShareNotifiesSharees ==
    (/\ request.kind \in {"workflowShared", "credentialsShared"}
     /\ IsEmailSetUp(config)
     /\ request.users \cap existing # {})
    => request.result \in {"emailSent", "thrown"}

=============================================================================
