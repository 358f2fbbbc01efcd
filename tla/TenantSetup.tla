---------------------------- MODULE TenantSetup ----------------------------
(***************************************************************************)
(* How a tenant comes to be: provisionTenant registers the client and its  *)
(* subscription in the master database and then fills the tenant database; *)
(* the HubSpot OAuth callback copies the master's config templates into    *)
(* it, with the default filters and the default field mappings; and the    *)
(* administrator and the sync runs add to the same collections meanwhile.  *)
(*                                                                         *)
(* One tenant with one HubSpot credential.  The default field mappings of  *)
(* an object type are represented by one row, whose key in the unique      *)
(* index is the object type; its target is the default one or another.     *)
(***************************************************************************)
EXTENDS Integers, Sequences, FiniteSets

CONSTANTS Provisioners,     \* calls of provisionTenant for the company
          Callbacks,        \* OAuth callbacks for the tenant
          FlavorOf,         \* provisioner -> the SAP flavor it asks for
          ConfigTemplates,        \* sequence of the master's templates: [name, flavor, object]
          AdminConfigs,     \* configs the administrator may create: [name, object, credential]
          AdminObjects,     \* object types the administrator may map
          MaxFailures,      \* bound on calls that fail or die at one of their steps
          MaxRows,          \* bound on rows the administrator maps
          MaxRuns           \* bound on sync runs

Flavors == {"B1", "S4"}

ASSUME SetupAssumption == FlavorOf \in [Provisioners -> Flavors] /\ "admin" \notin Callbacks

Objects == {"company", "contact", "product", "invoice"}

\* A config of which object type seeds which rows, in which order.
Defaults(flavor, object) ==
    CASE flavor = "B1" /\ object = "company" -> <<"company", "contact">>
      [] flavor = "B1" /\ object = "product" -> <<"product">>
      [] flavor = "S4" /\ object \in {"company", "contact"} -> <<object>>
      [] OTHER -> <<>>

\* What createClientConfig seeds: the same, and the invoices' row.
AllDefaults(flavor, object) ==
    IF object = "invoice" THEN <<"invoice">> ELSE Defaults(flavor, object)

VARIABLES client,          \* the SaaSClient: the flavor it was created with, or "none"
          subscribed,      \* its Subscription exists
          modes,           \* the tenant's IntegrationModes exist
          flavor,          \* the tenant's sapFlavor Configuration, or "none"
          filters,         \* sequence of the flavors of the replicated SapFilters
          connected,       \* the tenant has a HubSpot credential
          clientConfigs,         \* sequence of the tenant's ClientConfigs
          mappingRows,            \* set of FieldMappings: [object, target, config]
          provision,       \* provisioner -> its step
          callback,        \* callback -> [pc, flavor, names, seeds, config, rivals, early]
          admin,           \* the administrator's createClientConfig: [pc, seeds, config]
          attempt,         \* a run's ensureDefaultMappings: [pc, config, there, by]
          failures, mapped, attempts

tenantVars == <<client, subscribed, modes, flavor, filters, connected, clientConfigs, mappingRows>>
setupVars  == <<client, subscribed, modes, flavor, filters, connected, clientConfigs, mappingRows,
                provision, callback, admin, attempt, failures, mapped, attempts>>

IdleCallback == [pc |-> "idle", flavor |-> "B1", names |-> {},
                 seeds |-> <<>>, config |-> 0, rivals |-> {}, early |-> FALSE]
IdleAdmin    == [pc |-> "idle", seeds |-> <<>>, config |-> 0]
IdleAttempt  == [pc |-> "idle", config |-> 0, there |-> FALSE, by |-> "none"]

SetupInit ==
    /\ client = "none" /\ subscribed = FALSE
    /\ modes = FALSE /\ flavor = "none" /\ filters = <<>>
    /\ connected = FALSE /\ clientConfigs = <<>> /\ mappingRows = {}
    /\ provision = [p \in Provisioners |-> "client"]
    /\ callback = [k \in Callbacks |-> IdleCallback]
    /\ admin = IdleAdmin /\ attempt = IdleAttempt
    /\ failures = 0 /\ mapped = 0 /\ attempts = 0

ConfigNames == {clientConfigs[i].name : i \in 1..Len(clientConfigs)}

\* Mutant: the existing names are not read.
NoNames == {}

\* The names a callback reads before it copies anything.
ExistingClientNames == ConfigNames
RowOf(object) == {r \in mappingRows : r.object = object}

\* attachTenant and listActiveTenants: who may use the tenant.
Served == client # "none" /\ subscribed

\* Mutant: the flavor falls back to B1 whatever the key holds.
AlwaysB1 == "B1"

\* resolveSapFlavor: a tenant without the key counts as B1.
TenantFlavor == IF flavor = "none" THEN "B1" ELSE flavor

----------------------------------------------------------------------------
\* provisionTenant.

\* Mutant: a second call for the company takes the client over.
TakeClientOver(p) ==
    /\ provision[p] = "client"
    /\ client' = FlavorOf[p]
    /\ provision' = [provision EXCEPT ![p] = "subscribe"]
    /\ UNCHANGED <<subscribed, modes, flavor, filters, connected, clientConfigs, mappingRows,
                   callback, admin, attempt, failures, mapped, attempts>>

\* SaaSClient.create: tenantKey is unique, a second call for the company fails here.
CreateClient(p) ==
    /\ provision[p] = "client"
    /\ IF client = "none"
       THEN /\ client' = FlavorOf[p]
            /\ provision' = [provision EXCEPT ![p] = "subscribe"]
       ELSE /\ provision' = [provision EXCEPT ![p] = "failed"]
            /\ UNCHANGED client
    /\ UNCHANGED <<subscribed, modes, flavor, filters, connected, clientConfigs, mappingRows,
                   callback, admin, attempt, failures, mapped, attempts>>

Subscribe(p) ==
    /\ provision[p] = "subscribe"
    /\ subscribed' = TRUE
    /\ provision' = [provision EXCEPT ![p] = "modes"]
    /\ UNCHANGED <<client, modes, flavor, filters, connected, clientConfigs, mappingRows,
                   callback, admin, attempt, failures, mapped, attempts>>

EnsureModes(p) ==
    /\ provision[p] = "modes"
    /\ modes' = TRUE
    /\ provision' = [provision EXCEPT ![p] = "flavor"]
    /\ UNCHANGED <<client, subscribed, flavor, filters, connected, clientConfigs, mappingRows,
                   callback, admin, attempt, failures, mapped, attempts>>

\* ensureTenantConfigurations: $setOnInsert keeps a value that is there.
EnsureConfigurations(p) ==
    /\ provision[p] = "flavor"
    /\ flavor' = IF flavor = "none" THEN FlavorOf[p] ELSE flavor
    /\ provision' = [provision EXCEPT ![p] = "filters"]
    /\ UNCHANGED <<client, subscribed, modes, filters, connected, clientConfigs, mappingRows,
                   callback, admin, attempt, failures, mapped, attempts>>

\* replicateDefaultSapFilters: the master's filters the tenant does not have.
ReplicateFilters(p) ==
    /\ provision[p] = "filters"
    /\ filters' = IF \E i \in 1..Len(filters) : filters[i] = FlavorOf[p]
                  THEN filters ELSE Append(filters, FlavorOf[p])
    /\ provision' = [provision EXCEPT ![p] = "credential"]
    /\ UNCHANGED <<client, subscribed, modes, flavor, connected, clientConfigs, mappingRows,
                   callback, admin, attempt, failures, mapped, attempts>>

\* resolveHubspotCredential: a call with an access token stores a credential.
ResolveCredential(p) ==
    /\ provision[p] = "credential"
    /\ connected' \in {connected, TRUE}
    /\ provision' = [provision EXCEPT ![p] = "done"]
    /\ UNCHANGED <<client, subscribed, modes, flavor, filters, clientConfigs, mappingRows,
                   callback, admin, attempt, failures, mapped, attempts>>

\* A step throws: the failure is audited and rethrown, and nothing is undone.
FailProvision(p) ==
    /\ provision[p] \notin {"done", "failed"}
    /\ failures < MaxFailures
    /\ failures' = failures + 1
    /\ provision' = [provision EXCEPT ![p] = "failed"]
    /\ UNCHANGED <<tenantVars, callback, admin, attempt, mapped, attempts>>

----------------------------------------------------------------------------
\* HandleHubspotOAuthCallback and replicateMasterClientConfigs.

Running(k) == callback[k].pc \in {"create", "seed"}

Marked(f) == {n \in DOMAIN ConfigTemplates : ConfigTemplates[n].flavor = f}

\* The templates left to copy: those whose name was not there and that it has not copied.
Left(c) == {n \in Marked(c.flavor) : ConfigTemplates[n].name \notin c.names}

\* With none left the callback answers ok: the HubSpot seed that follows only logs its errors.
Advance(c) == IF Left(c) = {} THEN [c EXCEPT !.pc = "ok", !.names = {}, !.config = 0]
                              ELSE [c EXCEPT !.pc = "create", !.config = 0]

Abort(c) == [c EXCEPT !.pc = "failed", !.names = {}, !.seeds = <<>>, !.config = 0]

\* The exchange stores the credential; then the flavor, the templates of that flavor, the
\* mode and the names are read, once.
ReadTemplates(k) ==
    /\ callback[k].pc = "idle" /\ client # "none"
    /\ connected' = TRUE
    /\ LET c == [pc |-> "create", flavor |-> TenantFlavor, names |-> ExistingClientNames,
                 seeds |-> <<>>, config |-> 0,
                 rivals |-> {j \in Callbacks \ {k} : Running(j)},
                 early |-> \A p \in Provisioners : provision[p] # "done"]
       IN callback' = [callback EXCEPT ![k] = IF Marked(TenantFlavor) # {} /\ ~modes
                                              THEN Abort(c) ELSE Advance(c)]
    /\ UNCHANGED <<client, subscribed, modes, flavor, filters, clientConfigs, mappingRows,
                   provision, admin, attempt, failures, mapped, attempts>>

NewConfig(name, object, f, credential, by) ==
    [name |-> name, object |-> object, flavor |-> f, filters |-> filters,
     credential |-> credential, by |-> by]

\* The next template's config, switched off; its defaults are seeded next.
CreateReplica(k) ==
    /\ callback[k].pc = "create"
    /\ \E next \in Left(callback[k]) :
       LET c == callback[k]
           t == ConfigTemplates[next]
           n == [c EXCEPT !.pc = "seed", !.config = Len(clientConfigs) + 1,
                          !.names = @ \union {t.name}, !.seeds = Defaults(c.flavor, t.object)]
       IN /\ \A later \in Left(c) : next <= later
          /\ clientConfigs' = Append(clientConfigs, NewConfig(t.name, t.object, c.flavor, TRUE, k))
          /\ callback' = [callback EXCEPT ![k] = IF n.seeds = <<>> THEN Advance(n) ELSE n]
    /\ UNCHANGED <<client, subscribed, modes, flavor, filters, connected, mappingRows,
                   provision, admin, attempt, failures, mapped, attempts>>

\* Mutant: a refused row is passed over together with those after it.
SeedQuietly(k) ==
    /\ callback[k].pc = "seed"
    /\ LET c == callback[k]
           n == [c EXCEPT !.seeds = Tail(@)]
       IN IF RowOf(Head(c.seeds)) # {}
          THEN /\ callback' = [callback EXCEPT ![k] = Advance([c EXCEPT !.seeds = <<>>])]
               /\ UNCHANGED mappingRows
          ELSE /\ mappingRows' = mappingRows \union
                    {[object |-> Head(c.seeds), target |-> "default", config |-> c.config]}
               /\ callback' = [callback EXCEPT ![k] = IF n.seeds = <<>> THEN Advance(n) ELSE n]
    /\ UNCHANGED <<client, subscribed, modes, flavor, filters, connected, clientConfigs,
                   provision, admin, attempt, failures, mapped, attempts>>

\* ensureDefaultMappings looks for the row of this very config, which is new, so it
\* always creates one: the unique index refuses it when the key is taken.
SeedReplica(k) ==
    /\ callback[k].pc = "seed"
    /\ LET c == callback[k]
           n == [c EXCEPT !.seeds = Tail(@)]
       IN IF RowOf(Head(c.seeds)) # {}
          THEN /\ callback' = [callback EXCEPT ![k] = Abort(c)]
               /\ UNCHANGED mappingRows
          ELSE /\ mappingRows' = mappingRows \union
                    {[object |-> Head(c.seeds), target |-> "default", config |-> c.config]}
               /\ callback' = [callback EXCEPT ![k] = IF n.seeds = <<>> THEN Advance(n) ELSE n]
    /\ UNCHANGED <<client, subscribed, modes, flavor, filters, connected, clientConfigs,
                   provision, admin, attempt, failures, mapped, attempts>>

\* Mutant: failures are not counted against their bound.
FailAnyCallback(k) ==
    /\ callback[k].pc \in {"create", "seed"}
    /\ failures' = failures + 1
    /\ callback' = [callback EXCEPT ![k] = Abort(@)]
    /\ UNCHANGED <<tenantVars, provision, admin, attempt, mapped, attempts>>

FailCallback(k) ==
    /\ callback[k].pc \in {"create", "seed"}
    /\ failures < MaxFailures
    /\ failures' = failures + 1
    /\ callback' = [callback EXCEPT ![k] = Abort(@)]
    /\ UNCHANGED <<tenantVars, provision, admin, attempt, mapped, attempts>>

----------------------------------------------------------------------------
\* The administrator: ManageClientConfigs and ManageFieldMappings.

\* createClientConfig: the config is stored before its defaults are seeded.
CreateClientConfig(a) ==
    /\ Served /\ modes /\ admin.pc = "idle"
    /\ a.credential => connected
    /\ clientConfigs' = Append(clientConfigs,
                  NewConfig(a.name, a.object, TenantFlavor, a.credential, "admin"))
    /\ LET seeds == IF a.credential THEN AllDefaults(TenantFlavor, a.object) ELSE <<>>
       IN admin' = [pc |-> IF seeds = <<>> THEN "ok" ELSE "seed",
                    seeds |-> seeds, config |-> Len(clientConfigs) + 1]
    /\ UNCHANGED <<client, subscribed, modes, flavor, filters, connected, mappingRows,
                   provision, callback, attempt, failures, mapped, attempts>>

\* A refused row answers 500, and the config stays.
SeedClientConfig ==
    /\ admin.pc = "seed"
    /\ LET key  == Head(admin.seeds)
           left == Tail(admin.seeds)
       IN IF RowOf(key) # {}
          THEN admin' = [admin EXCEPT !.pc = "failed", !.seeds = <<>>] /\ UNCHANGED mappingRows
          ELSE /\ mappingRows' = mappingRows \union
                    {[object |-> key, target |-> "default", config |-> admin.config]}
               /\ admin' = [admin EXCEPT !.pc = IF left = <<>> THEN "ok" ELSE "seed",
                                         !.seeds = left]
    /\ UNCHANGED <<client, subscribed, modes, flavor, filters, connected, clientConfigs,
                   provision, callback, attempt, failures, mapped, attempts>>

\* createAdminMapping: any row whose key is free, for any stored config.
CreateAdminMapping(object) ==
    /\ Served /\ connected /\ mapped < MaxRows
    /\ RowOf(object) = {}
    /\ mapped' = mapped + 1
    /\ mappingRows' = mappingRows \union {[object |-> object, target |-> "other", config |-> 0]}
    /\ UNCHANGED <<client, subscribed, modes, flavor, filters, connected, clientConfigs,
                   provision, callback, admin, attempt, failures, attempts>>

\* createTenantMapping needs an active config of the object type with a credential; a
\* config is switched on and off by patchClientConfig at any time, so any may be.
CreateTenantMapping(object) ==
    /\ \E i \in 1..Len(clientConfigs) : clientConfigs[i].object = object /\ clientConfigs[i].credential
    /\ CreateAdminMapping(object)

----------------------------------------------------------------------------
\* MappingSyncRepository.ensureDefaultMappings, at the start of a product or invoice run.

\* Mutant: the lookup asks for the row of the run's own config.
FoundOwn(i) == {r \in RowOf(clientConfigs[i].object) : r.target = "default" /\ r.config = i}

\* The lookup asks for the default's target and leaves the config out.
FoundDefault(i) == {r \in RowOf(clientConfigs[i].object) : r.target = "default"}

StartEnsure(i) ==
    /\ Served /\ attempt.pc # "create" /\ attempts < MaxRuns
    /\ clientConfigs[i].credential
    /\ clientConfigs[i].object \in {"product", "invoice"}
    /\ attempts' = attempts + 1
    /\ attempt' = [pc |-> IF \/ clientConfigs[i].object = "product" /\ TenantFlavor = "S4"
                             \/ FoundDefault(i) # {}
                          THEN "ready" ELSE "create",
                   config |-> i, there |-> RowOf(clientConfigs[i].object) # {}, by |-> "none"]
    /\ UNCHANGED <<tenantVars, provision, callback, admin, failures, mapped>>

FinishEnsure ==
    /\ attempt.pc = "create"
    /\ LET object == clientConfigs[attempt.config].object IN
       IF RowOf(object) # {}
       THEN /\ attempt' = [attempt EXCEPT
                 !.pc = "refused",
                 !.by = IF \E r \in RowOf(object) : r.target = "default"
                        THEN "default" ELSE "other"]
            /\ UNCHANGED mappingRows
       ELSE /\ mappingRows' = mappingRows \union
                 {[object |-> object, target |-> "default", config |-> attempt.config]}
            /\ attempt' = [attempt EXCEPT !.pc = "ready"]
    /\ UNCHANGED <<client, subscribed, modes, flavor, filters, connected, clientConfigs,
                   provision, callback, admin, failures, mapped, attempts>>

----------------------------------------------------------------------------
ProvisionStep(p) == \/ CreateClient(p) \/ Subscribe(p) \/ EnsureModes(p)
                    \/ EnsureConfigurations(p) \/ ReplicateFilters(p)
                    \/ ResolveCredential(p) \/ FailProvision(p)
CallbackStep(k)  == \/ ReadTemplates(k) \/ CreateReplica(k)
                    \/ SeedReplica(k) \/ FailCallback(k)

SetupNext ==
    \/ \E p \in Provisioners : ProvisionStep(p)
    \/ \E k \in Callbacks : CallbackStep(k)
    \/ \E a \in AdminConfigs : CreateClientConfig(a)
    \/ SeedClientConfig
    \/ \E o \in AdminObjects : CreateAdminMapping(o) \/ CreateTenantMapping(o)
    \/ \E i \in 1..Len(clientConfigs) : StartEnsure(i)
    \/ FinishEnsure

SetupSpec == SetupInit /\ [][SetupNext]_setupVars

----------------------------------------------------------------------------
SetupTypeOK ==
    /\ client \in Flavors \union {"none"} /\ flavor \in Flavors \union {"none"}
    /\ {subscribed, modes, connected} \subseteq BOOLEAN
    /\ filters \in Seq(Flavors)
    /\ \A r \in mappingRows : /\ r.object \in Objects /\ r.target \in {"default", "other"}
                       /\ r.config \in 0..Len(clientConfigs)
    /\ \A p \in Provisioners : provision[p] \in
         {"client", "subscribe", "modes", "flavor", "filters", "credential", "done", "failed"}
    /\ \A k \in Callbacks : callback[k].pc \in {"idle", "create", "seed", "ok", "failed"}
    /\ failures \in 0..MaxFailures /\ mapped \in 0..MaxRows /\ attempts \in 0..MaxRuns

\* A provisioning that answered success left the tenant as it was asked for: its flavor in
\* the client and in the tenant, its modes, and its default filters exactly once, whatever
\* a second call for the same company did meanwhile (tenantProvisioning.js, provisionTenant).
DoneIsAsAsked ==
    \A p \in Provisioners : provision[p] = "done" =>
        /\ Served /\ modes
        /\ client = FlavorOf[p] /\ flavor = FlavorOf[p] /\ filters = <<FlavorOf[p]>>

\* A config a callback replicated has the tenant's flavor and its default filters, unless
\* the callback read the tenant before a provisioning of it had finished
\* (replicateMasterClientConfigs.js: the flavor and the filters are read where it runs).
ReplicasAreOfTheTenant ==
    \A i \in 1..Len(clientConfigs) :
        \/ clientConfigs[i].by \notin Callbacks
        \/ clientConfigs[i].flavor = client /\ clientConfigs[i].filters = <<client>>
        \/ callback[clientConfigs[i].by].early

\* Two replicas of one template come only from callbacks one of which read the existing
\* names while the other was replicating (clientName has no unique index).
TwinsExplained ==
    \A i, j \in 1..Len(clientConfigs) :
        LET a == clientConfigs[i].by
            b == clientConfigs[j].by
        IN i # j /\ {a, b} \subseteq Callbacks /\ clientConfigs[i].name = clientConfigs[j].name
           => a # b /\ (a \in callback[b].rivals \/ b \in callback[a].rivals)

\* A callback that answered ok leaves every template of the flavor it read with a config of
\* its name, and every default row of the configs it created mapped
\* (replicateMasterClientConfigs.js: an error in between leaves the loop and the answer).
OkReplicatesAll ==
    \A k \in Callbacks : callback[k].pc = "ok" =>
        /\ \A n \in 1..Len(ConfigTemplates) :
             ConfigTemplates[n].flavor = callback[k].flavor => ConfigTemplates[n].name \in ConfigNames
        /\ \A i \in 1..Len(clientConfigs) : clientConfigs[i].by = k =>
             LET seeds == Defaults(clientConfigs[i].flavor, clientConfigs[i].object)
             IN \A n \in 1..Len(seeds) :
                  [object |-> seeds[n], target |-> "default", config |-> i] \in mappingRows

\* A run is refused its default mappings only where the source field is mapped to another
\* target, or where the row was added between its lookup and its write
\* (MappingSyncRepository.js, ensureDefaultMappings; the unique index has no target).
RefusalsExplained ==
    attempt.pc = "refused" => attempt.by = "other" \/ ~attempt.there
============================================================================
