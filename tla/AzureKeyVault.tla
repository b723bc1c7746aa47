---------------------------- MODULE AzureKeyVault ----------------------------
(***************************************************************************)
(* The Azure Key Vault secrets provider (packages/cli/src/ExternalSecrets/ *)
(* providers/azure-key-vault/azure-key-vault.ts) next to the vault it      *)
(* reads, which other parties change at any time.                          *)
(*                                                                         *)
(* init stores the settings; connect builds the credential and client      *)
(* (throwing constructors put the provider in state 'error'); update lists *)
(* the vault's secret names, fetches every name that matches the name      *)
(* pattern concurrently, waits for all of them (Promise.all) and copies    *)
(* the defined values into the cache, which getSecret/hasSecret/           *)
(* getSecretNames read.  Between the listing and each fetch the vault can  *)
(* change: a fetch of a deleted secret rejects, and so does the update.    *)
(***************************************************************************)
EXTENDS Naturals, FiniteSets

CONSTANTS
    Name,          \* secret names in the vault
    ValidName,     \* the names EXTERNAL_SECRETS_NAME_REGEX accepts
    Value,         \* secret values
    Absent,        \* no secret of that name / no cache entry
    Disabled,      \* a secret whose value comes back undefined
    MaxVaultChanges

ASSUME ValidName \subseteq Name

VARIABLES
    state,         \* 'initializing' | 'connected' | 'error'
    settings,      \* "none" before init, else whether the credential accepts them
    client,        \* a SecretClient was created
    cache,         \* cachedSecrets
    vault,         \* the vault: a value, Disabled or Absent per name
    vaultHistory,  \* history: the values each name has held in the vault
    changes,       \* vault changes made so far (bounded)
    upd            \* the running update: phase, listed names, fetched values

vars == <<state, settings, client, cache, vault, vaultHistory, changes, upd>>

VaultEntry == Value \cup {Disabled, Absent}
Pending == "pending"
NoUpdate == [phase |-> "idle", names |-> {}, got |-> [n \in Name |-> Pending]]

Init ==
    /\ state = "initializing"
    /\ settings = "none"
    /\ client = FALSE
    /\ cache = [n \in Name |-> Absent]
    /\ vault \in [Name -> VaultEntry]
    /\ vaultHistory = [n \in Name |-> {vault[n]} \cap Value]
    /\ changes = 0
    /\ upd = NoUpdate

ProviderUnchanged == UNCHANGED <<vault, vaultHistory, changes>>

\* init(context): keep the settings.
InitProvider ==
    /\ settings = "none"
    /\ \E s \in {"valid", "invalid"} : settings' = s
    /\ UNCHANGED <<state, client, cache, upd>> /\ ProviderUnchanged

\* connect(): the credential constructor throws for settings it rejects;
\* before init the destructuring of undefined settings throws out of connect.
Connect ==
    /\ state = "initializing"
    /\ settings # "none"
    /\ IF settings = "valid"
         THEN state' = "connected" /\ client' = TRUE
         ELSE state' = "error" /\ UNCHANGED client
    /\ UNCHANGED <<settings, cache, upd>> /\ ProviderUnchanged

\* Fault model: the name pattern is not applied.
UpdateListAllNames ==
    /\ client
    /\ upd.phase = "idle"
    /\ upd' = [phase |-> "fetching",
               names |-> {n \in Name : vault[n] # Absent},
               got |-> [n \in Name |-> Pending]]
    /\ UNCHANGED <<state, settings, client, cache>> /\ ProviderUnchanged

\* update(), first part: iterate listPropertiesOfSecrets; without a client
\* the call throws before anything happens.
UpdateList ==
    /\ client
    /\ upd.phase = "idle"
    /\ upd' = [phase |-> "fetching",
               names |-> {n \in Name : vault[n] # Absent} \cap ValidName,
               got |-> [n \in Name |-> Pending]]
    /\ UNCHANGED <<state, settings, client, cache>> /\ ProviderUnchanged

\* One getSecret(name) resolves with the vault's current value (undefined
\* for a disabled secret); a deleted secret makes it reject.
UpdateFetch(n) ==
    /\ upd.phase = "fetching"
    /\ n \in upd.names
    /\ upd.got[n] = Pending
    /\ upd' = [upd EXCEPT !.got[n] = vault[n]]
    /\ UNCHANGED <<state, settings, client, cache>> /\ ProviderUnchanged

Failed(u) == \E n \in u.names : u.got[n] = Absent
AllFetched(u) == \A n \in u.names : u.got[n] # Pending

\* Fault model: values that came back undefined are cached as well.
MergeDefinedKeepingUndefined(u) ==
    [n \in Name |-> IF n \in u.names THEN u.got[n] ELSE cache[n]]

\* Copy every fetched defined value; other entries stay as they were.
MergeDefined(u) ==
    [n \in Name |-> IF n \in u.names /\ u.got[n] \in Value THEN u.got[n] ELSE cache[n]]

\* Promise.all settles: it rejects as soon as one fetch rejected, otherwise
\* resolves once all are in and the values are merged into the cache.
UpdateSettle ==
    /\ upd.phase = "fetching"
    /\ Failed(upd) \/ AllFetched(upd)
    /\ cache' = IF Failed(upd) THEN cache ELSE MergeDefined(upd)
    /\ upd' = NoUpdate
    /\ UNCHANGED <<state, settings, client>> /\ ProviderUnchanged

\* Someone sets, disables or deletes a secret in the vault.
VaultChange(n, e) ==
    /\ changes < MaxVaultChanges
    /\ vault[n] # e
    /\ vault' = [vault EXCEPT ![n] = e]
    /\ vaultHistory' = [vaultHistory EXCEPT ![n] = @ \cup ({e} \cap Value)]
    /\ changes' = changes + 1
    /\ UNCHANGED <<state, settings, client, cache, upd>>

Next ==
    \/ InitProvider \/ Connect \/ UpdateList \/ UpdateSettle
    \/ \E n \in Name : UpdateFetch(n)
    \/ \E n \in Name, e \in VaultEntry : VaultChange(n, e)

Spec == Init /\ [][Next]_vars

-----------------------------------------------------------------------------
TypeOK ==
    /\ state \in {"initializing", "connected", "error"}
    /\ settings \in {"none", "valid", "invalid"}
    /\ client \in BOOLEAN
    /\ cache \in [Name -> Value \cup {Absent}]
    /\ vault \in [Name -> VaultEntry]
    /\ upd.phase \in {"idle", "fetching"} /\ upd.names \subseteq Name

(***************************************************************************)
(* Whatever the vault does while updates list and fetch, every secret the *)
(* provider serves is one the vault really held under that name, with a   *)
(* defined value, and its name passes EXTERNAL_SECRETS_NAME_REGEX.         *)
(***************************************************************************)
CacheHoldsVaultValues ==
    \A n \in Name :
        cache[n] # Absent => n \in ValidName /\ cache[n] \in vaultHistory[n]

=============================================================================
