----------------------------- MODULE WebhookQueue -----------------------------
(***************************************************************************)
(* How a stored webhook event gets a run: one tenant's job in the BullMQ   *)
(* queue webhook-events. The job id is the tenant, so adding a job while   *)
(* one is waiting or active is a no-op, and a finished job has to be       *)
(* removed before the next can be added.                                   *)
(*                                                                         *)
(* Adders are the HTTP requests (one per event, after its insert) and the  *)
(* cron dispatcher, which is off by default; runners are the slots of the  *)
(* BullMQ worker, and the manual endpoint, which runs without a job. What  *)
(* a run does to an event is WebhookEvents, here one step per outcome.     *)
(***************************************************************************)
EXTENDS Naturals, FiniteSets

CONSTANTS
    Event,          \* webhook events of the tenant
    Worker,         \* slots of the BullMQ worker
    Manual,         \* runs of the manual endpoint
    CronEnabled,    \* WEBHOOK_PROCESSOR_CRON_ENABLED
    BatchSize,      \* WEBHOOK_EVENT_BATCH_SIZE
    MaxRetries,     \* maxRetries stored in the event
    MaxFaults,      \* bound: enqueues and claim loops that fail
    MaxStalls       \* bound: runs whose job lock expires under them

ASSUME QueueAssumption ==
    /\ IsFiniteSet(Worker)
    /\ "cron" \notin Event
    /\ Worker \intersect Manual = {} /\ "nobody" \notin Worker
    /\ CronEnabled \in BOOLEAN
    /\ BatchSize \in Nat \ {0} /\ MaxRetries \in Nat \ {0}
    /\ MaxFaults \in Nat /\ MaxStalls \in Nat

Adder == Event \union {"cron"}
Runner == Worker \union Manual

VARIABLES
    event,          \* each event: absent, waiting, inprocess or closed
    tries,          \* its failed attempts
    adder,          \* where each addWebhookTenantJob call is
    job,            \* the tenant's job in Redis
    lock,           \* the worker slot whose job lock is alive
    run, batch,     \* each runner's phase and claimed events
    faults, stalls

eventVars == <<event, tries>>
slotVars == <<job, lock>>
runVars == <<run, batch>>
queueVars == <<eventVars, adder, slotVars, runVars, faults, stalls>>
-----------------------------------------------------------------------------
(* addWebhookTenantJob: look the job up, remove it if it is over, add.     *)

\* A request stores its event before it enqueues. (A repeated request finds
\* the event stored, answers "duplicated" and never reaches the queue.)
StoreEvent(e) ==
    /\ adder[e] = "idle" /\ event[e] = "absent"
    /\ event' = [event EXCEPT ![e] = "waiting"]
    /\ adder' = [adder EXCEPT ![e] = "lookup"]
    /\ UNCHANGED <<tries, slotVars, runVars, faults, stalls>>

CronTick ==
    /\ CronEnabled /\ adder["cron"] = "idle"
    /\ adder' = [adder EXCEPT !["cron"] = "lookup"]
    /\ UNCHANGED <<eventVars, slotVars, runVars, faults, stalls>>

\* REPLACEABLE_JOB_STATES
OnlyCompleted == {"completed"}

Replaceable == {"completed", "failed"}

LookUpJob(a) ==
    /\ adder[a] = "lookup"
    /\ adder' = [adder EXCEPT ![a] = IF job \in Replaceable THEN "remove" ELSE "add"]
    /\ UNCHANGED <<eventVars, slotVars, runVars, faults, stalls>>

\* job.remove() throws on a locked job (the error is swallowed). The state
\* was read earlier: by now the job may be one that somebody else added.
RemovesLocked == TRUE

Removable == lock = "nobody"

RemoveJob(a) ==
    /\ adder[a] = "remove"
    /\ adder' = [adder EXCEPT ![a] = "add"]
    /\ job' = IF Removable THEN "none" ELSE job
    /\ UNCHANGED <<eventVars, lock, runVars, faults, stalls>>

AddJob(a) ==
    /\ adder[a] = "add"
    /\ adder' = [adder EXCEPT ![a] = "idle"]
    /\ job' = IF job = "none" THEN "waiting" ELSE job
    /\ UNCHANGED <<eventVars, lock, runVars, faults, stalls>>

\* Redis refuses, or the process dies: the event stays stored.
AddFails(a) ==
    /\ adder[a] # "idle" /\ faults < MaxFaults
    /\ faults' = faults + 1
    /\ adder' = [adder EXCEPT ![a] = "idle"]
    /\ UNCHANGED <<eventVars, slotVars, runVars, stalls>>

\* removeOnComplete and removeOnFail: old jobs are dropped by BullMQ.
ForgetJob ==
    /\ job \in {"completed", "failed"}
    /\ job' = "none"
    /\ UNCHANGED <<eventVars, adder, lock, runVars, faults, stalls>>
-----------------------------------------------------------------------------
(* The worker: processWebhookTenant, or the manual endpoint without a job. *)

TakeJob(w) ==
    /\ job = "waiting" /\ run[w] = "idle"
    /\ job' = "active" /\ lock' = w
    /\ run' = [run EXCEPT ![w] = "claim"]
    /\ UNCHANGED <<eventVars, adder, batch, faults, stalls>>

StartManual(m) ==
    /\ run[m] = "idle"
    /\ run' = [run EXCEPT ![m] = "claim"]
    /\ UNCHANGED <<eventVars, adder, slotVars, batch, faults, stalls>>

ClaimEvent(r) ==
    /\ run[r] = "claim" /\ Cardinality(batch[r]) < BatchSize
    /\ \E e \in Event :
         /\ event[e] = "waiting"
         /\ event' = [event EXCEPT ![e] = "inprocess"]
         /\ batch' = [batch EXCEPT ![r] = @ \union {e}]
    /\ UNCHANGED <<tries, adder, slotVars, run, faults, stalls>>

ClaimDone(r) ==
    /\ run[r] = "claim"
    /\ \/ Cardinality(batch[r]) >= BatchSize
       \/ \A e \in Event : event[e] # "waiting"
    /\ run' = [run EXCEPT ![r] = "work"]
    /\ UNCHANGED <<eventVars, adder, slotVars, batch, faults, stalls>>

CloseEvent(r) ==
    /\ run[r] = "work"
    /\ \E e \in batch[r] :
         /\ event' = [event EXCEPT ![e] = "closed"]
         /\ batch' = [batch EXCEPT ![r] = @ \ {e}]
    /\ UNCHANGED <<tries, adder, slotVars, run, faults, stalls>>

RetryableOnceMore(e) == tries[e] + 1 <= MaxRetries

Retryable(e) == tries[e] + 1 < MaxRetries

\* A failed event goes back to waiting until its retries are spent. Nothing
\* enqueues a job for it.
RetryEvent(r) ==
    /\ run[r] = "work"
    /\ \E e \in batch[r] :
         /\ tries' = [tries EXCEPT ![e] = @ + 1]
         /\ event' = [event EXCEPT ![e] = IF Retryable(e) THEN "waiting" ELSE "closed"]
         /\ batch' = [batch EXCEPT ![r] = @ \ {e}]
    /\ UNCHANGED <<adder, slotVars, run, faults, stalls>>

\* The job ends with r, unless r lost the job's lock while it ran.
Leave(r, outcome) ==
    /\ run' = [run EXCEPT ![r] = "idle"]
    /\ batch' = [batch EXCEPT ![r] = {}]
    /\ IF lock = r
       THEN job' = outcome /\ lock' = "nobody"
       ELSE UNCHANGED slotVars
    /\ UNCHANGED <<eventVars, adder, stalls>>

EndRun(r) ==
    /\ run[r] = "work" /\ batch[r] = {}
    /\ Leave(r, "completed")
    /\ UNCHANGED faults

\* The claim loop throws (attempts is 1: the job is not tried again).
RunFails(r) ==
    /\ run[r] = "claim" /\ faults < MaxFaults
    /\ faults' = faults + 1
    /\ Leave(r, "failed")

\* The worker process dies; BullMQ's stalled check gives the job back, or
\* fails it the second time. The claimed events stay inprocess.
SlotDies(w) ==
    /\ run[w] # "idle" /\ faults < MaxFaults
    /\ faults' = faults + 1
    /\ \E outcome \in {"waiting", "failed"} : Leave(w, outcome)

\* The job's lock is not renewed in time but the run goes on.
JobStalls(w) ==
    /\ lock = w /\ stalls < MaxStalls
    /\ stalls' = stalls + 1
    /\ lock' = "nobody"
    /\ job' \in {"waiting", "failed"}
    /\ UNCHANGED <<eventVars, adder, runVars, faults>>
-----------------------------------------------------------------------------
QueueInit ==
    /\ event = [e \in Event |-> "absent"]
    /\ tries = [e \in Event |-> 0]
    /\ adder = [a \in Adder |-> "idle"]
    /\ job = "none" /\ lock = "nobody"
    /\ run = [r \in Runner |-> "idle"]
    /\ batch = [r \in Runner |-> {}]
    /\ faults = 0 /\ stalls = 0

AdderStep(a) == LookUpJob(a) \/ RemoveJob(a) \/ AddJob(a)

Work(r) == ClaimEvent(r) \/ ClaimDone(r) \/ CloseEvent(r) \/ RetryEvent(r) \/ EndRun(r)

QueueNext ==
    \/ \E e \in Event : StoreEvent(e)
    \/ CronTick \/ ForgetJob
    \/ \E a \in Adder : AdderStep(a) \/ AddFails(a)
    \/ \E w \in Worker : TakeJob(w) \/ SlotDies(w) \/ JobStalls(w)
    \/ \E m \in Manual : StartManual(m)
    \/ \E r \in Runner : Work(r) \/ RunFails(r)

QueueSpec == QueueInit /\ [][QueueNext]_queueVars

\* The cron ticks every minute, calls to Redis return, the worker takes the
\* jobs it is offered and a run goes on. Nobody is obliged to call the
\* manual endpoint or to send a webhook.
FairQueueSpec ==
    /\ QueueSpec
    /\ WF_queueVars(CronTick)
    /\ \A a \in Adder : WF_queueVars(AdderStep(a))
    /\ WF_queueVars(\E w \in Worker : TakeJob(w))
    /\ \A r \in Runner : WF_queueVars(Work(r))
-----------------------------------------------------------------------------
QueueTypeOK ==
    /\ event \in [Event -> {"absent", "waiting", "inprocess", "closed"}]
    /\ tries \in [Event -> 0..MaxRetries]
    /\ adder \in [Adder -> {"idle", "lookup", "remove", "add"}]
    /\ job \in {"none", "waiting", "active", "completed", "failed"}
    /\ lock \in Worker \union {"nobody"}
    /\ run \in [Runner -> {"idle", "claim", "work"}]
    /\ batch \in [Runner -> SUBSET Event]
    /\ faults \in 0..MaxFaults
    /\ stalls \in 0..MaxStalls

\* Processing stays coalesced: however requests, cron and removals of finished
\* jobs interleave, a tenant's job is run by one worker slot; every further
\* slot is a run that lost its lock.
Coalesced ==
    Cardinality({w \in Worker : run[w] # "idle"}) <= 1 + stalls

\* A stored event is eventually claimed by a run (in real time, says the
\* README of the webhook intake).
WaitingIsClaimed ==
    \A e \in Event : event[e] = "waiting" ~> event[e] # "waiting"
=============================================================================
