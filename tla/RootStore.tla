----------------------------- MODULE RootStore -----------------------------
(***************************************************************************)
(* The editor's root store (packages/editor-ui/src/stores/n8nRoot.store.ts).*)
(* Its state is created from the page's globals (the API base URL, the REST *)
(* endpoint) and defaults; the settings loader then calls its setters.  The *)
(* URL getters concatenate a base URL and an endpoint; setUrlBaseWebhook    *)
(* and setUrlBaseEditor add a trailing '/' to a base that has none.        *)
(*                                                                         *)
(* A URL is modelled by what concatenation does to it: a base is a host    *)
(* and the number of '/' it ends with, an endpoint a path and whether it   *)
(* starts with '/', and a composed URL counts the '/' at the joint.  The   *)
(* setters run one at a time (the editor is single threaded).              *)
(***************************************************************************)
EXTENDS Naturals

CONSTANTS
    Host,        \* hosts of base URLs
    Path,        \* endpoint paths (config values such as 'webhook')
    Value        \* timezones

\* A base URL as given to a setter: its host and whether it ends with '/'.
Base == [host: Host, slashes: 0..1]
Endpoint == [path: Path, lead: BOOLEAN]

\* The endpoint settings, and the plain settings whose setters assign the
\* value given and nothing else.
EndpointName == {"form", "formTest", "formWaiting", "webhook", "webhookTest"}
Setting == {"executionTimeout", "maxExecutionTimeout", "versionCli", "instanceId",
            "oauthCallbackUrls", "n8nMetadata", "defaultLocale", "isNpmAvailable", "binaryDataMode"}

VARIABLES
    created,         \* defineStore's setup has run
    baseUrl,         \* state.baseUrl
    restEndpoint,    \* state.restEndpoint
    urlBaseWebhook,  \* state.urlBaseWebhook
    urlBaseEditor,   \* state.urlBaseEditor
    endpoints,       \* state.endpointForm ... state.endpointWebhookTest
    lastSet,         \* the plain setting written last, "none" before any
    timezone,        \* state.timezone
    globalTimezone   \* setGlobalState({ defaultTimezone })

vars == <<created, baseUrl, restEndpoint, urlBaseWebhook, urlBaseEditor, endpoints, lastSet,
          timezone, globalTimezone>>

Localhost == CHOOSE h \in Host : TRUE

Init ==
    /\ created = FALSE
    /\ baseUrl = [host |-> Localhost, slashes |-> 1]
    /\ restEndpoint = [path |-> "rest", lead |-> FALSE]
    /\ urlBaseWebhook = [host |-> Localhost, slashes |-> 1]
    /\ urlBaseEditor = [host |-> Localhost, slashes |-> 0]
    /\ endpoints = [n \in EndpointName |-> [path |-> n, lead |-> FALSE]]
    /\ lastSet = "none"
    /\ timezone = "default"
    /\ globalTimezone = "default"

\* The store's setup: baseUrl is VUE_APP_URL_BASE_API ?? window.BASE_PATH;
\* restEndpoint is 'rest' when window.REST_ENDPOINT is unset, empty or the
\* unreplaced template; the rest are the defaults of Init.
Create ==
    /\ ~created
    /\ created' = TRUE
    /\ \E apiSet \in BOOLEAN, api \in Base, basePath \in Base,
          restGiven \in {"undefined", "", "{{REST_ENDPOINT}}", "value"}, rest \in Endpoint :
          /\ baseUrl' = IF apiSet THEN api ELSE basePath
          /\ restEndpoint' = IF restGiven = "value" THEN rest ELSE [path |-> "rest", lead |-> FALSE]
    /\ UNCHANGED <<urlBaseWebhook, urlBaseEditor, endpoints, lastSet, timezone, globalTimezone>>

\* url.endsWith('/') ? url : `${url}/`
WithTrailingSlash(b) == IF b.slashes >= 1 THEN b ELSE [b EXCEPT !.slashes = 1]

SetUrlBaseWebhook ==
    /\ created
    /\ \E b \in Base : urlBaseWebhook' = WithTrailingSlash(b)
    /\ UNCHANGED <<created, baseUrl, restEndpoint, urlBaseEditor, endpoints, lastSet, timezone, globalTimezone>>

SetUrlBaseEditor ==
    /\ created
    /\ \E b \in Base : urlBaseEditor' = WithTrailingSlash(b)
    /\ UNCHANGED <<created, baseUrl, restEndpoint, urlBaseWebhook, endpoints, lastSet, timezone, globalTimezone>>

\* setEndpointForm ... setEndpointWebhookTest: the value as given, with or
\* without a leading '/'.
SetEndpoint ==
    /\ created
    /\ \E n \in EndpointName, e \in Endpoint : endpoints' = [endpoints EXCEPT ![n] = e]
    /\ UNCHANGED <<created, baseUrl, restEndpoint, urlBaseWebhook, urlBaseEditor, lastSet, timezone,
                   globalTimezone>>

\* setTimezone also sets the workflow package's global default timezone.
SetTimezone ==
    /\ created
    /\ \E v \in Value :
          /\ timezone' = v
          /\ globalTimezone' = v
    /\ UNCHANGED <<created, baseUrl, restEndpoint, urlBaseWebhook, urlBaseEditor, endpoints, lastSet>>

\* The other setters: one field of the state, as given; the values are
\* not told apart by any property, only which setter ran.
SetSetting ==
    /\ created
    /\ \E s \in Setting : lastSet' = s
    /\ UNCHANGED <<created, baseUrl, restEndpoint, urlBaseWebhook, urlBaseEditor, endpoints,
                   timezone, globalTimezone>>

Next == Create \/ SetUrlBaseWebhook \/ SetUrlBaseEditor \/ SetEndpoint \/ SetTimezone \/ SetSetting

Spec == Init /\ [][Next]_vars

-----------------------------------------------------------------------------
TypeOK ==
    /\ created \in BOOLEAN
    /\ urlBaseWebhook \in [host: Host, slashes: Nat] /\ urlBaseEditor \in [host: Host, slashes: Nat]
    /\ endpoints \in [EndpointName -> [path: Path \cup EndpointName, lead: BOOLEAN]]
    /\ lastSet \in Setting \cup {"none"}

\* The '/' between a base and an endpoint in `${base}${endpoint}`.
Joint(b, e) == b.slashes + (IF e.lead THEN 1 ELSE 0)

====
