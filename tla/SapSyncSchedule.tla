---------------------------- MODULE SapSyncSchedule ----------------------------
(***************************************************************************)
(* The BullMQ job schedulers of the ClientConfigs: what an API request     *)
(* that changes a config registers, what the bootstrap at the start of the *)
(* API (and the resync endpoint) registers again, and what its sweep       *)
(* removes as orphaned. Database and Redis share no transaction: a config  *)
(* is read, saved, and its schedulers listed, removed and added one by one,*)
(* while other requests and the bootstrap do the same.                     *)
(*                                                                         *)
(* A scheduler is the set of minutes of the day its pattern fires at, none *)
(* if it is not registered. Abstracted: execution days, the md5 keys of    *)
(* BullMQ's former API, payloads, and configs created (they are patched    *)
(* from inactive). Bootstrapping without upsert has no caller.             *)
(***************************************************************************)
EXTENDS SapSyncWindow, FiniteSets

CONSTANTS
    Config, Tenant,
    TenantOf,       \* the tenant of each config
    Requester,      \* API requests that may be under way at once
    Setting,        \* what a config may be set to
    PatchSetting,   \* bound: those a request sets
    MaxTimes,       \* MAX_EXECUTION_TIMES
    MaxFaults       \* bound: failed calls and crashes

Plain == -1

Name == Plain..(MaxTimes - 1)

Boot == "boot"

Nothing == [nothing |-> TRUE]

Actor == Requester \union {Boot}

AnySetting ==
    [mode : {"FULL"}, times : {T \in SUBSET Minutes : Cardinality(T) <= MaxTimes}]
    \union [mode : {"WINDOW"}, window : Window]
    \union [mode : {"EVERY"}, interval : Nat \ {0}]

ASSUME ScheduleAssumption ==
    /\ TenantOf \in [Config -> Tenant]
    /\ Boot \notin Requester
    /\ Setting \subseteq AnySetting
    /\ PatchSetting \subseteq Setting
    /\ MaxTimes \in Nat \ {0} /\ MaxFaults \in Nat

VARIABLES
    tenants,        \* those with an active, paid subscription
    saved,          \* ClientConfig documents: active, setting
    jobs,           \* registered schedulers: [Config -> [Name -> minutes]]
    pc, target,     \* each actor: what it does, to which config
    doc,            \* the document it holds in memory, or Nothing
    left,           \* scheduler names it has left to remove, or to add
    todo, configs,  \* bootstrap: tenants, and the current one's configs as read
    expected, orphans,      \* expectedJobKeys, and what is left of the sweep
    faults,
    overlapped,     \* ghost: <<actor, config>> another actor worked on meanwhile
    repaired,       \* ghost: configs this bootstrap has registered without error
    settled         \* ghost: configs whose last registration ran undisturbed

dataVars == <<tenants, saved, jobs>>
actorVars == <<pc, target, doc, left>>
bootVars == <<todo, configs, expected, orphans>>
ghosts == <<overlapped, repaired, settled>>
vars == <<dataVars, actorVars, bootVars, faults, ghosts>>
-----------------------------------------------------------------------------
(* resolveSchedulePlan                                                     *)

NoJobs == [n \in Name |-> {}]

\* Execution times are sorted; the i-th has slot i.
SlotIndex(t, times) == Cardinality({u \in times : u < t})

Every(i) == {m \in Minutes : m % i = 0}

Pattern(s) ==
    CASE s.mode = "WINDOW" -> IF HasPattern(s.window)
                              THEN {m \in Minutes : FiresAt(s.window, m)} ELSE {}
      [] s.mode = "EVERY"  -> Every(s.interval)
      [] OTHER             -> {}

Plan(s) ==
    IF s.mode = "FULL"
    THEN [n \in Name |-> {t \in s.times : SlotIndex(t, s.times) = n}]
    ELSE [NoJobs EXCEPT ![Plain] = Pattern(s)]

PlanNames(s) == {n \in Name : Plan(s)[n] # {}}

AlwaysPlan(s) == TRUE

HasPlan(s) == PlanNames(s) # {}

ShouldSchedule(v) == v.active /\ HasPlan(v.setting)

\* What a registration of document v leaves behind.
Scheduled(v) == IF ShouldSchedule(v) THEN Plan(v.setting) ELSE NoJobs

Names(j) == {n \in Name : j[n] # {}}

\* The list of names to remove is fixed, not derived from the plan.
NamesInPlan(v) == PlanNames(v.setting)

RemovalNames(v) == Name
-----------------------------------------------------------------------------
Value == [active : BOOLEAN, setting : Setting]

NoConfigs == [c \in {} |-> Nothing]

Busy(a, c) == pc[a] # "idle" /\ (a = Boot \/ target[a] = c)

\* Actor a begins its work on the configs C: all who work on them overlap.
Begin(a, C) ==
    LET shared == {c \in C : \E b \in Actor \ {a} : Busy(b, c)}
    IN  /\ overlapped' = (overlapped \ ({a} \X Config))
                         \union {p \in Actor \X shared : p[1] = a \/ Busy(p[1], p[2])}
        /\ settled' = settled \ C

\* Something else happens to the configs C.
Disturb(C) ==
    /\ overlapped' = overlapped \union {p \in Actor \X C : Busy(p[1], p[2])}
    /\ settled' = settled \ C

Undisturbed(a, C) == {c \in C : <<a, c>> \notin overlapped}
-----------------------------------------------------------------------------
(* A request: patchClientConfig, setConfigActiveState, syncSingleConfig-   *)
(* Schedule. Mongoose saves the changed field only; the registration uses  *)
(* the whole document as it was read.                                      *)

\* The panel of a tenant asks for an active subscription; who switches a config on or
\* off needs the internal key alone.
FindConfig(r, c) ==
    /\ pc[r] = "idle"
    /\ \/ TenantOf[c] \in tenants /\ pc' = [pc EXCEPT ![r] = "found"]
       \/ pc' = [pc EXCEPT ![r] = "keyed"]
    /\ target' = [target EXCEPT ![r] = c]
    /\ doc' = [doc EXCEPT ![r] = saved[c]]
    /\ Begin(r, {c})
    /\ UNCHANGED <<dataVars, left, bootVars, faults, repaired>>

Save(r, v) ==
    /\ pc' = [pc EXCEPT ![r] = "list"]
    /\ doc' = [doc EXCEPT ![r] = v]
    /\ UNCHANGED <<tenants, jobs, target, left, bootVars, faults, ghosts>>

SaveActive(r) ==
    /\ pc[r] \in {"found", "keyed"}
    /\ Save(r, [doc[r] EXCEPT !.active = ~@])
    /\ saved' = [saved EXCEPT ![target[r]].active = ~doc[r].active]

SaveSetting(r) ==
    /\ pc[r] = "found"
    /\ \E s \in PatchSetting \ {doc[r].setting} :
        /\ Save(r, [doc[r] EXCEPT !.setting = s])
        /\ saved' = [saved EXCEPT ![target[r]].setting = s]

SaveNothing(r) ==
    /\ pc[r] \in {"found", "keyed"}
    /\ Save(r, doc[r])
    /\ UNCHANGED saved
-----------------------------------------------------------------------------
(* syncScheduledJob: registerScheduledJob or removeScheduledJob            *)

\* The registration of a ends: a request answers, the bootstrap goes on.
Registered(a) ==
    LET c == target[a]
    IN  /\ doc' = [doc EXCEPT ![a] = Nothing]
        /\ IF a = Boot
           THEN /\ pc' = [pc EXCEPT ![a] = "next"]
                /\ repaired' = repaired \union {c}
                /\ UNCHANGED <<overlapped, settled>>
           ELSE /\ pc' = [pc EXCEPT ![a] = "idle"]
                /\ settled' = settled \union Undisturbed(a, {c})
                /\ UNCHANGED <<overlapped, repaired>>

ListKnown(a) ==
    /\ pc[a] = "list"
    /\ left' = [left EXCEPT ![a] = Names(jobs[target[a]]) \intersect RemovalNames(doc[a])]
    /\ pc' = [pc EXCEPT ![a] = "remove"]
    /\ UNCHANGED <<dataVars, target, doc, bootVars, faults, ghosts>>

Without(j, N) == [n \in Name |-> IF n \in N THEN {} ELSE j[n]]

RemoveKnown(a) ==
    /\ pc[a] = "remove"
    /\ jobs' = [jobs EXCEPT ![target[a]] = Without(@, left[a])]
    /\ IF ShouldSchedule(doc[a])
       THEN /\ pc' = [pc EXCEPT ![a] = "add"]
            /\ left' = [left EXCEPT ![a] = PlanNames(doc[a].setting)]
            /\ UNCHANGED <<doc, ghosts>>
       ELSE /\ left' = [left EXCEPT ![a] = {}]
            /\ Registered(a)
    /\ UNCHANGED <<tenants, saved, target, bootVars, faults>>

\* upsertJobScheduler, slot by slot.
AddSlot(a) ==
    /\ pc[a] = "add"
    /\ \E n \in left[a] :
        /\ \A k \in left[a] : n <= k
        /\ jobs' = [jobs EXCEPT ![target[a]][n] = Plan(doc[a].setting)[n]]
        /\ left' = [left EXCEPT ![a] = @ \ {n}]
        /\ IF left[a] = {n} THEN Registered(a) ELSE UNCHANGED <<pc, doc, ghosts>>
    /\ UNCHANGED <<tenants, saved, target, bootVars, faults>>

\* A call to Redis fails, or the process dies, between two steps. The error
\* of a request is logged or answered; the bootstrap leaves out the rest of
\* the tenant. Of parallel removals any may have been made.
SyncFails(a) ==
    /\ pc[a] \in {"list", "remove", "add"} /\ faults < MaxFaults
    /\ faults' = faults + 1
    /\ \E N \in SUBSET left[a] :
        /\ N # {} => pc[a] = "remove"
        /\ jobs' = [jobs EXCEPT ![target[a]] = Without(@, N)]
    /\ left' = [left EXCEPT ![a] = {}]
    /\ pc' = [pc EXCEPT ![a] = IF a = Boot THEN "load" ELSE "idle"]
    /\ doc' = [doc EXCEPT ![a] = Nothing]
    /\ configs' = IF a = Boot THEN NoConfigs ELSE configs
    /\ UNCHANGED <<tenants, saved, target, todo, expected, orphans, ghosts>>
-----------------------------------------------------------------------------
(* bootstrapScheduledJobs, with upsertExisting                             *)

StartBoot ==
    /\ pc[Boot] = "idle" /\ tenants # {}
    /\ pc' = [pc EXCEPT ![Boot] = "load"]
    /\ todo' = tenants
    /\ expected' = {} /\ repaired' = {}
    /\ Begin(Boot, Config)
    /\ UNCHANGED <<dataVars, target, doc, left, configs, orphans, faults>>

LoadTenant(t) ==
    /\ pc[Boot] = "load" /\ t \in todo
    /\ todo' = todo \ {t}
    /\ configs' = [c \in {c \in Config : TenantOf[c] = t} |-> saved[c]]
    /\ pc' = [pc EXCEPT ![Boot] = "next"]
    /\ UNCHANGED <<dataVars, target, doc, left, expected, orphans, faults, ghosts>>

\* The tenant's database does not answer: logged, the next tenant.
LoadFails(t) ==
    /\ pc[Boot] = "load" /\ t \in todo /\ faults < MaxFaults
    /\ faults' = faults + 1
    /\ todo' = todo \ {t}
    /\ UNCHANGED <<dataVars, actorVars, configs, expected, orphans, ghosts>>

NextConfig(c) ==
    /\ pc[Boot] = "next" /\ c \in DOMAIN configs
    /\ configs' = [d \in DOMAIN configs \ {c} |-> configs[d]]
    /\ target' = [target EXCEPT ![Boot] = c]
    /\ doc' = [doc EXCEPT ![Boot] = configs[c]]
    /\ expected' = expected \union ({c} \X Names(Scheduled(configs[c])))
    /\ pc' = [pc EXCEPT ![Boot] = "list"]
    /\ UNCHANGED <<dataVars, left, todo, orphans, faults, ghosts>>

TenantDone ==
    /\ pc[Boot] = "next" /\ configs = NoConfigs
    /\ pc' = [pc EXCEPT ![Boot] = "load"]
    /\ UNCHANGED <<dataVars, target, doc, left, bootVars, faults, ghosts>>

ListOrphans ==
    /\ pc[Boot] = "load" /\ todo = {}
    /\ orphans' = {p \in Config \X Name : jobs[p[1]][p[2]] # {}} \ expected
    /\ pc' = [pc EXCEPT ![Boot] = "sweep"]
    /\ UNCHANGED <<dataVars, target, doc, left, todo, configs, expected, faults, ghosts>>

RemoveOrphan ==
    /\ pc[Boot] = "sweep"
    /\ \E p \in orphans :
        /\ orphans' = orphans \ {p}
        /\ jobs' = [jobs EXCEPT ![p[1]] = Without(@, {p[2]})]
    /\ UNCHANGED <<tenants, saved, actorVars, todo, configs, expected, faults, ghosts>>

\* The configs of tenants that are not active have lost their schedulers.
EndBoot ==
    /\ pc[Boot] = "sweep" /\ orphans = {}
    /\ pc' = [pc EXCEPT ![Boot] = "idle"]
    /\ settled' = settled \union
          Undisturbed(Boot, repaired \union {c \in Config : TenantOf[c] \notin tenants})
    /\ expected' = {} /\ repaired' = {}
    /\ UNCHANGED <<dataVars, target, doc, left, todo, configs, orphans, faults, overlapped>>

\* The sweep fails, or the process dies at any point of the bootstrap.
BootFails ==
    /\ pc[Boot] # "idle" /\ faults < MaxFaults
    /\ faults' = faults + 1
    /\ pc' = [pc EXCEPT ![Boot] = "idle"]
    /\ left' = [left EXCEPT ![Boot] = {}]
    /\ doc' = [doc EXCEPT ![Boot] = Nothing]
    /\ todo' = {} /\ configs' = NoConfigs /\ orphans' = {}
    /\ expected' = {} /\ repaired' = {}
    /\ UNCHANGED <<dataVars, target, overlapped, settled>>
-----------------------------------------------------------------------------
\* A subscription begins or ends.
ToggleTenant(t) ==
    /\ tenants' = IF t \in tenants THEN tenants \ {t} ELSE tenants \union {t}
    /\ Disturb({c \in Config : TenantOf[c] = t})
    /\ UNCHANGED <<saved, jobs, actorVars, bootVars, faults, repaired>>

\* purgeTenantJobs
Purge(t) ==
    LET C == {c \in Config : TenantOf[c] = t}
    IN  /\ jobs' = [c \in Config |-> IF c \in C THEN NoJobs ELSE jobs[c]]
        /\ Disturb(C)
    /\ UNCHANGED <<tenants, saved, actorVars, bootVars, faults, repaired>>
-----------------------------------------------------------------------------
\* The API starts over configs and schedulers of earlier times: registered
\* as their config is now, or under the plain name only (all there was before
\* FULL configs had several times), or not at all.
LegacyJobs(v) == [NoJobs EXCEPT ![Plain] = UNION {Scheduled(v)[n] : n \in Name}]

Init ==
    /\ tenants = Tenant
    /\ saved \in [Config -> Value]
    /\ jobs \in [Config -> UNION {{NoJobs, Scheduled(v), LegacyJobs(v)} : v \in Value}]
    /\ \A c \in Config : jobs[c] \in {NoJobs, Scheduled(saved[c]), LegacyJobs(saved[c])}
    /\ pc = [a \in Actor |-> "idle"]
    /\ target \in [Actor -> Config] /\ \A a, b \in Actor : target[a] = target[b]
    /\ doc = [a \in Actor |-> Nothing]
    /\ left = [a \in Actor |-> {}]
    /\ todo = {} /\ configs = NoConfigs
    /\ expected = {} /\ orphans = {} /\ faults = 0
    /\ overlapped = {} /\ repaired = {} /\ settled = {}

Request(r) ==
    \/ \E c \in Config : FindConfig(r, c)
    \/ SaveActive(r) \/ SaveSetting(r) \/ SaveNothing(r)

Sync(a) == ListKnown(a) \/ RemoveKnown(a) \/ AddSlot(a) \/ SyncFails(a)

Bootstrap ==
    \/ StartBoot \/ TenantDone \/ ListOrphans \/ RemoveOrphan \/ EndBoot \/ BootFails
    \/ \E t \in Tenant : LoadTenant(t) \/ LoadFails(t)
    \/ \E c \in Config : NextConfig(c)

Next ==
    \/ \E r \in Requester : Request(r)
    \/ \E a \in Actor : Sync(a)
    \/ Bootstrap
    \/ \E t \in Tenant : ToggleTenant(t) \/ Purge(t)

Spec == Init /\ [][Next]_vars
-----------------------------------------------------------------------------
TypeOK ==
    /\ tenants \subseteq Tenant
    /\ saved \in [Config -> Value]
    /\ jobs \in [Config -> [Name -> SUBSET Minutes]]
    /\ pc \in [Actor -> {"idle", "found", "keyed", "list", "remove", "add", "load", "next", "sweep"}]
    /\ target \in [Actor -> Config]
    /\ doc \in [Actor -> Value \union {Nothing}]
    /\ left \in [Actor -> SUBSET Name]
    /\ todo \subseteq Tenant /\ DOMAIN configs \subseteq Config
    /\ \A c \in DOMAIN configs : configs[c] \in Value
    /\ expected \subseteq Config \X Name /\ orphans \subseteq Config \X Name
    /\ faults \in 0..MaxFaults
    /\ overlapped \subseteq Actor \X Config
    /\ repaired \subseteq Config /\ settled \subseteq Config
    /\ \A a \in Actor : pc[a] = "add" => left[a] # {}

\* The schedulers of config c are those of the saved document; the sweep of the bootstrap
\* leaves none to a tenant that is not active.
AsSaved(c) ==
    \/ jobs[c] = Scheduled(saved[c])
    \/ TenantOf[c] \notin tenants /\ jobs[c] = NoJobs

\* One registration that nobody else works on the config during, by a request
\* or by the bootstrap, leaves exactly the schedulers of the saved document:
\* whatever earlier failures, overlaps and older versions had left behind.
SettledIsScheduled == \A c \in settled : AsSaved(c)

\* Scheduler, Redis and job together: an active config with an exact window is
\* executed at every due minute and at no other.
WindowServed ==
    \A c \in settled :
        (/\ TenantOf[c] \in tenants /\ saved[c].active
         /\ saved[c].setting.mode = "WINDOW" /\ Exact(saved[c].setting.window))
        => \A m \in Minutes :
            Due(saved[c].setting.window, m)
                <=> /\ \E n \in Name : m \in jobs[c][n]
                    /\ RunsAt(saved[c].setting.window, m)

\* The bootstrap's sweep logs what it removes as orphaned: it is no scheduler
\* of a config that is active, of an active tenant.
SweptIsOrphan ==
    \A p \in orphans : TenantOf[p[1]] \in tenants => Scheduled(saved[p[1]])[p[2]] = {}
=============================================================================
