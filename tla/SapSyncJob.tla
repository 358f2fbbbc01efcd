------------------------------ MODULE SapSyncJob ------------------------------
(***************************************************************************)
(* The BullMQ jobs that synchronise one tenant from SAP, and the Redis     *)
(* lock that serialises them (lock:sap-sync:<tenant>): acquired with NX    *)
(* and a time to live, extended by a timer while the job executes,         *)
(* released by token. A job that finds it taken fails and is tried again   *)
(* by BullMQ with an exponential backoff.                                  *)
(*                                                                         *)
(* Time advances in ticks of one backoff delay (15 s); the day is cyclic.  *)
(* Abstracted: the synchronisation itself (it takes any time and succeeds  *)
(* or fails), job metadata and logs, and the other tenants.                *)
(***************************************************************************)
EXTENDS SapSyncWindow, FiniteSets

CONSTANTS
    Job,            \* jobs of one tenant
    Scheduled,      \* those fired by a job scheduler, of incremental configs
    Attempts,       \* SAP_SYNC_JOB_ATTEMPTS
    Backoff,        \* ticks BullMQ waits after the n-th attempt
    TTL,            \* SAP_SYNC_TENANT_LOCK_TTL_MS, in ticks
    MinRenew,       \* the least renewal period of the code, in ticks
    MaxMissed,      \* bound: renewals of one lock that may fail in a row
    MaxCrashes,     \* bound: worker deaths
    TicksPerMinute,
    SyncWindow      \* the window of the scheduled configs

ASSUME SapSyncJobAssumption ==
    /\ Scheduled \subseteq Job /\ "nobody" \notin Job
    /\ Attempts \in Nat \ {0} /\ Backoff \in [1..Attempts -> Nat]
    /\ TTL \in Nat \ {0} /\ MinRenew \in Nat \ {0}
    /\ MaxMissed \in Nat /\ MaxCrashes \in Nat
    /\ TicksPerMinute \in Nat \ {0} /\ SyncWindow \in Window

\* BullMQ's exponential backoff: 15 s, 30 s, 60 s...
ExponentialBackoff == [n \in 1..Attempts |-> 2 ^ (n - 1)]

\* The window of the runs: the last minute of the day.
LastMinute == [start |-> Day - 1, end |-> Day - 1, interval |-> 1]

VARIABLES
    now,            \* tick of the day
    active,         \* ClientConfig.active, which a user may toggle
    state,          \* each job: see JobState
    tried,          \* attempts made (attemptsMade of BullMQ)
    wakeIn,         \* ticks until a delayed job is tried again
    outcome,        \* what a job that is releasing its lock will end as
    owner, ttl,     \* the lock key: whose token, for how long
    renewIn,        \* ticks until a running job's renewal timer fires
    missed,         \* its renewals that failed in a row
    crashes,
    expired,        \* ghost: running jobs whose lock ran out under them
    contended       \* ghost: jobs that were due and found the lock taken

JobState == {"idle", "waiting", "checked", "running", "releasing", "delayed",
             "done", "failed", "inactive", "outside"}

jobVars == <<state, tried, wakeIn, outcome>>
lockVars == <<owner, ttl>>
timerVars == <<renewIn, missed>>
ghosts == <<expired, contended>>
vars == <<now, active, jobVars, lockVars, timerVars, crashes, ghosts>>
-----------------------------------------------------------------------------
Minute(t) == t \div TicksPerMinute

TicksPerDay == Day * TicksPerMinute

\* The renewal timer: a third of the time to live, but not under 10 s.
RenewAtExpiry == TTL

RenewEvery == IF TTL \div 3 > MinRenew THEN TTL \div 3 ELSE MinRenew

Running == {j \in Job : state[j] = "running"}
-----------------------------------------------------------------------------
(* Time.                                                                   *)

\* A due timer runs before time passes; a delayed job may wake late.
Tick ==
    /\ \A j \in Running : renewIn[j] > 0
    /\ now' = (now + 1) % TicksPerDay
    /\ wakeIn' = [j \in Job |-> IF wakeIn[j] > 0 THEN wakeIn[j] - 1 ELSE 0]
    /\ renewIn' = [j \in Job |-> IF j \in Running THEN renewIn[j] - 1 ELSE renewIn[j]]
    /\ ttl' = IF ttl > 0 THEN ttl - 1 ELSE ttl
    /\ owner' = IF ttl = 1 THEN "nobody" ELSE owner
    /\ expired' = IF ttl = 1 /\ owner \in Running THEN expired \union {owner} ELSE expired
    /\ UNCHANGED <<active, state, tried, outcome, missed, crashes, contended>>

\* setConfigActiveState, at any moment.
ToggleActive ==
    /\ active' = ~active
    /\ UNCHANGED <<now, jobVars, lockVars, timerVars, crashes, ghosts>>
-----------------------------------------------------------------------------
(* The queue.                                                              *)

\* A scheduler fires on the minute, when its pattern says; a manual job is
\* added at any moment.
Enqueue(j) ==
    /\ state[j] = "idle"
    /\ j \in Scheduled =>
        now % TicksPerMinute = 0 /\ FiresAt(SyncWindow, Minute(now))
    /\ state' = [state EXCEPT ![j] = "waiting"]
    /\ UNCHANGED <<now, active, tried, wakeIn, outcome, lockVars, timerVars, crashes, ghosts>>

Wake(j) ==
    /\ state[j] = "delayed" /\ wakeIn[j] = 0
    /\ state' = [state EXCEPT ![j] = "waiting"]
    /\ UNCHANGED <<now, active, tried, wakeIn, outcome, lockVars, timerVars, crashes, ghosts>>

AttemptsLeft(j) == tried[j] + 1 < Attempts

\* The attempt of j ends with an error: tried again later, or failed.
AttemptFails(j) ==
    /\ tried' = [tried EXCEPT ![j] = @ + 1]
    /\ IF AttemptsLeft(j)
       THEN /\ state' = [state EXCEPT ![j] = "delayed"]
            /\ wakeIn' = [wakeIn EXCEPT ![j] = Backoff[tried[j] + 1]]
       ELSE /\ state' = [state EXCEPT ![j] = "failed"]
            /\ UNCHANGED wakeIn
-----------------------------------------------------------------------------
(* processSapSyncJob                                                       *)

\* Every attempt checks the config and the clock again, a retry included.
CheckConfig(j) ==
    /\ state[j] = "waiting"
    /\ state' = [state EXCEPT ![j] =
                    IF j \in Scheduled /\ ~active THEN "inactive"
                    ELSE IF j \in Scheduled /\ ~RunsAt(SyncWindow, Minute(now)) THEN "outside"
                    ELSE "checked"]
    /\ UNCHANGED <<now, active, tried, wakeIn, outcome, lockVars, timerVars, crashes, ghosts>>

\* loadConfig throws, or the config is gone.
CheckFails(j) ==
    /\ state[j] = "waiting"
    /\ AttemptFails(j)
    /\ UNCHANGED <<now, active, outcome, lockVars, timerVars, crashes, ghosts>>

Free == owner = "nobody"

\* SET key token PX ttl NX. (Redis shows a key without expiry as -1.)
NoExpiry == -1

TimeToLive == TTL

AcquireLock(j) ==
    /\ state[j] = "checked" /\ Free
    /\ owner' = j /\ ttl' = TimeToLive
    /\ state' = [state EXCEPT ![j] = "running"]
    /\ renewIn' = [renewIn EXCEPT ![j] = RenewEvery]
    /\ missed' = [missed EXCEPT ![j] = 0]
    /\ expired' = expired \ {j}
    /\ UNCHANGED <<now, active, tried, wakeIn, outcome, crashes, contended>>

\* TenantLockedError
LockTaken(j) ==
    /\ state[j] = "checked" /\ ~Free
    /\ AttemptFails(j)
    /\ contended' = contended \union {j}
    /\ UNCHANGED <<now, active, outcome, lockVars, timerVars, crashes, expired>>

\* extendTenantSapSyncLock by token: a lost lock is only logged.
Renew(j) ==
    /\ j \in Running /\ renewIn[j] = 0
    /\ ttl' = IF owner = j THEN TTL ELSE ttl
    /\ renewIn' = [renewIn EXCEPT ![j] = RenewEvery]
    /\ missed' = [missed EXCEPT ![j] = 0]
    /\ UNCHANGED <<now, active, jobVars, owner, crashes, ghosts>>

\* Redis fails or the event loop is blocked past the timer: logged.
RenewFails(j) ==
    /\ j \in Running /\ renewIn[j] = 0 /\ missed[j] < MaxMissed
    /\ renewIn' = [renewIn EXCEPT ![j] = RenewEvery]
    /\ missed' = [missed EXCEPT ![j] = @ + 1]
    /\ UNCHANGED <<now, active, jobVars, lockVars, crashes, ghosts>>

StopTimer(j) ==
    /\ renewIn' = [renewIn EXCEPT ![j] = 0]
    /\ missed' = [missed EXCEPT ![j] = 0]

\* The synchronisation ends; the timer is cleared before the release.
EndSync(j) ==
    /\ j \in Running
    /\ state' = [state EXCEPT ![j] = "releasing"]
    /\ \E o \in {"done", "failed"} : outcome' = [outcome EXCEPT ![j] = o]
    /\ StopTimer(j)
    /\ UNCHANGED <<now, active, tried, wakeIn, lockVars, crashes, ghosts>>

\* releaseTenantSapSyncLock compares the token.
AnyToken(j) == TRUE

HoldsToken(j) == owner = j

ReleaseLock(j) ==
    /\ state[j] = "releasing"
    /\ IF HoldsToken(j) THEN owner' = "nobody" /\ ttl' = 0 ELSE UNCHANGED lockVars
    /\ IF outcome[j] = "done"
       THEN state' = [state EXCEPT ![j] = "done"] /\ UNCHANGED <<tried, wakeIn>>
       ELSE AttemptFails(j)
    /\ outcome' = [outcome EXCEPT ![j] = "failed"]
    /\ UNCHANGED <<now, active, timerVars, crashes, ghosts>>

\* The release throws in the finally block: the attempt has failed, even
\* if the synchronisation succeeded, and the lock stays for its ttl.
ReleaseThrows(j) ==
    /\ state[j] = "releasing"
    /\ AttemptFails(j)
    /\ outcome' = [outcome EXCEPT ![j] = "failed"]
    /\ UNCHANGED <<now, active, lockVars, timerVars, crashes, ghosts>>

\* The worker dies; BullMQ's stalled check puts the job back.
WorkerDies(j) ==
    /\ state[j] \in {"checked", "running", "releasing"} /\ crashes < MaxCrashes
    /\ crashes' = crashes + 1
    /\ state' = [state EXCEPT ![j] = "waiting"]
    /\ StopTimer(j)
    /\ UNCHANGED <<now, active, tried, wakeIn, outcome, lockVars, ghosts>>
-----------------------------------------------------------------------------
Init ==
    /\ now = 0 /\ active = TRUE
    /\ state = [j \in Job |-> "idle"]
    /\ tried = [j \in Job |-> 0]
    /\ wakeIn = [j \in Job |-> 0]
    /\ outcome = [j \in Job |-> "failed"]
    /\ owner = "nobody" /\ ttl = 0
    /\ renewIn = [j \in Job |-> 0]
    /\ missed = [j \in Job |-> 0]
    /\ crashes = 0
    /\ expired = {} /\ contended = {}

\* A job that was taken goes on.
JobStep(j) ==
    \/ CheckConfig(j) \/ CheckFails(j) \/ AcquireLock(j) \/ LockTaken(j)
    \/ Renew(j) \/ RenewFails(j) \/ ReleaseLock(j) \/ ReleaseThrows(j)

Next ==
    \/ Tick \/ ToggleActive
    \/ \E j \in Job : Enqueue(j) \/ Wake(j) \/ JobStep(j) \/ EndSync(j) \/ WorkerDies(j)

Spec == Init /\ [][Next]_vars

\* Time passes, the worker goes on with the jobs it took, a delayed job is
\* moved back to the queue, and a synchronisation ends some time.
FairSpec ==
    /\ Spec
    /\ WF_vars(Tick)
    /\ \A j \in Job : WF_vars(Wake(j)) /\ WF_vars(JobStep(j)) /\ WF_vars(EndSync(j))
-----------------------------------------------------------------------------
TypeOK ==
    /\ now \in 0..(TicksPerDay - 1)
    /\ active \in BOOLEAN
    /\ state \in [Job -> JobState]
    /\ tried \in [Job -> 0..Attempts]
    /\ wakeIn \in [Job -> Nat]
    /\ outcome \in [Job -> {"done", "failed"}]
    /\ owner \in Job \union {"nobody"}
    /\ ttl \in Nat
    /\ renewIn \in [Job -> 0..RenewEvery]
    /\ missed \in [Job -> 0..MaxMissed]
    /\ crashes \in 0..MaxCrashes
    /\ expired \subseteq Job /\ contended \subseteq Job

\* README section 19: the lock keeps two synchronisations of a tenant from
\* executing at once. It does as long as no lock runs out: see MaxMissed.
SingleExecution == \A j, k \in Running : j = k

\* A job that executes has its lock until it runs out: neither a late release
\* nor a renewal of a job that lost the lock takes it from the next holder.
LostOnlyByExpiry == \A j \in Running : owner = j \/ j \in expired

\* A job that was due and found the tenant busy is tried again, and not put
\* off as outside its window when the backoff has passed.
LockedJobIsRetried == \A j \in contended : state[j] # "outside"

\* The lock of a dead worker does not block the tenant for ever.
LockIsFreed == \A j \in Job : owner = j /\ j \notin Running ~> owner # j \/ j \in Running
=============================================================================
