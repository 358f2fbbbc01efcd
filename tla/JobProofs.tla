------------------------------- MODULE JobProofs -------------------------------
(* Theorems about the two kinds of BullMQ jobs a tenant has: the one that       *)
(* claims its webhook events (WebhookQueue) and the SAP sync jobs under the     *)
(* tenant's lock (SapSyncJob).                                                  *)
EXTENDS WebhookQueue, SapSyncJob, FiniteSetTheorems, TLAPS

-------------------------------------------------------------------------------
(* WebhookQueue.  The worker slots that are running split into the holder of    *)
(* the job's lock, at most one, and the runs that lost it, of which every stall *)
(* makes one.                                                                   *)

Slots == {w \in Worker : run[w] # "idle"}

Zombies == {w \in Worker : run[w] # "idle" /\ lock # w}

LockOK ==
    /\ job = "active" <=> lock # "nobody"
    /\ \A w \in Worker : lock = w => run[w] # "idle"

\* A claimed event is held by one run, and has a try left until it is closed.
ClaimOK ==
    /\ \A r \in Runner : \A e \in batch[r] : event[e] = "inprocess"
    /\ \A r, q \in Runner : r # q => batch[r] \intersect batch[q] = {}
    /\ \A e \in Event : event[e] # "closed" => tries[e] < MaxRetries

QueueInv == QueueTypeOK /\ LockOK /\ ClaimOK /\ Cardinality(Zombies) <= stalls

\* A set of workers is finite, and one that holds no more than another is no
\* larger: the cardinality facts the steps need.
LEMMA ZombiesShrink ==
    ASSUME QueueTypeOK, NEW S, S \subseteq Zombies
    PROVE  IsFiniteSet(S) /\ Cardinality(S) <= Cardinality(Zombies)
           /\ Cardinality(Zombies) \in Nat
<1>1. IsFiniteSet(Zombies)
  BY FS_Subset, QueueAssumption DEF Zombies
<1> QED  BY <1>1, FS_Subset, FS_CardinalityType

\* Init: nobody runs.
LEMMA QueueStarts == QueueInit => QueueInv
<1> SUFFICES ASSUME QueueInit PROVE QueueInv  OBVIOUS
<1>1. QueueTypeOK /\ LockOK  BY QueueAssumption DEF QueueInit, QueueTypeOK, LockOK, Runner
<1>3. ClaimOK  BY QueueAssumption DEF QueueInit, ClaimOK
<1>2. Zombies = {}  BY DEF QueueInit, Zombies, Runner
<1> QED  BY <1>1, <1>2, <1>3, FS_EmptySet DEF QueueInv, QueueInit

\* A step that adds no zombie keeps the bound.
LEMMA NoNewZombie ==
    ASSUME QueueInv, QueueTypeOK', LockOK', ClaimOK', stalls' = stalls, Zombies' \subseteq Zombies
    PROVE  QueueInv'
<1>1. Cardinality(Zombies') <= Cardinality(Zombies) /\ Cardinality(Zombies') \in Nat
  <2>1. IsFiniteSet(Zombies')  BY ZombiesShrink DEF QueueInv
  <2> QED  BY <2>1, ZombiesShrink, FS_CardinalityType DEF QueueInv
<1>2. Cardinality(Zombies) \in Nat  BY ZombiesShrink DEF QueueInv
<1>3. stalls \in Nat  BY QueueAssumption DEF QueueInv, QueueTypeOK
<1> QED  BY <1>1, <1>2, <1>3 DEF QueueInv

LEMMA AdderStepKeeps ==
    ASSUME QueueInv, NEW a \in Adder, AdderStep(a) \/ AddFails(a)
    PROVE  QueueInv'
<1> USE DEF QueueInv, QueueTypeOK, LockOK, slotVars, runVars, eventVars
<1>1. CASE LookUpJob(a)
  <2>1. QueueTypeOK' /\ LockOK'  BY <1>1 DEF LookUpJob
  <2>3. ClaimOK'  BY <1>1 DEF ClaimOK, LookUpJob
  <2>2. Zombies' \subseteq Zombies /\ stalls' = stalls  BY <1>1 DEF LookUpJob, Zombies
  <2> QED  BY <2>1, <2>2, <2>3, NoNewZombie
<1>2. CASE RemoveJob(a)
  <2>1. QueueTypeOK' /\ LockOK'  BY <1>2 DEF RemoveJob, Removable
  <2>3. ClaimOK'  BY <1>2 DEF ClaimOK, RemoveJob, Removable
  <2>2. Zombies' \subseteq Zombies /\ stalls' = stalls  BY <1>2 DEF RemoveJob, Zombies
  <2> QED  BY <2>1, <2>2, <2>3, NoNewZombie
<1>3. CASE AddJob(a)
  <2>1. QueueTypeOK' /\ LockOK'  BY <1>3 DEF AddJob
  <2>3. ClaimOK'  BY <1>3 DEF ClaimOK, AddJob
  <2>2. Zombies' \subseteq Zombies /\ stalls' = stalls  BY <1>3 DEF AddJob, Zombies
  <2> QED  BY <2>1, <2>2, <2>3, NoNewZombie
<1>4. CASE AddFails(a)
  <2>1. QueueTypeOK' /\ LockOK'  BY <1>4, QueueAssumption DEF AddFails
  <2>3. ClaimOK'  BY <1>4, QueueAssumption DEF ClaimOK, AddFails
  <2>2. Zombies' \subseteq Zombies /\ stalls' = stalls  BY <1>4 DEF AddFails, Zombies
  <2> QED  BY <2>1, <2>2, <2>3, NoNewZombie
<1> QED  BY <1>1, <1>2, <1>3, <1>4 DEF AdderStep

\* The steps outside the enqueue and the runs.
LEMMA OutsideStep ==
    ASSUME QueueInv, (\E e \in Event : StoreEvent(e)) \/ CronTick \/ ForgetJob
    PROVE  QueueInv'
<1> USE DEF QueueInv, QueueTypeOK, LockOK, slotVars, runVars, eventVars
<1>1. CASE \E e \in Event : StoreEvent(e)
  <2> PICK e \in Event : StoreEvent(e)  BY <1>1
  <2>1. QueueTypeOK' /\ LockOK'  BY DEF StoreEvent, Adder
  <2>4. /\ event' = [event EXCEPT ![e] = "waiting"] /\ event[e] = "absent"
        /\ batch' = batch /\ tries' = tries
    BY DEF StoreEvent
  <2>3. ClaimOK'  BY <2>4 DEF ClaimOK
  <2>2. Zombies' \subseteq Zombies /\ stalls' = stalls  BY DEF StoreEvent, Zombies
  <2> QED  BY <2>1, <2>2, <2>3, NoNewZombie
<1>2. CASE CronTick
  <2>1. QueueTypeOK' /\ LockOK'  BY <1>2 DEF CronTick, Adder
  <2>3. ClaimOK'  BY <1>2 DEF ClaimOK, CronTick, Adder
  <2>2. Zombies' \subseteq Zombies /\ stalls' = stalls  BY <1>2 DEF CronTick, Zombies
  <2> QED  BY <2>1, <2>2, <2>3, NoNewZombie
<1>3. CASE ForgetJob
  <2>1. QueueTypeOK' /\ LockOK'  BY <1>3 DEF ForgetJob
  <2>3. ClaimOK'  BY <1>3 DEF ClaimOK, ForgetJob
  <2>2. Zombies' \subseteq Zombies /\ stalls' = stalls  BY <1>3 DEF ForgetJob, Zombies
  <2> QED  BY <2>1, <2>2, <2>3, NoNewZombie
<1> QED  BY <1>1, <1>2, <1>3

\* A runner that leaves takes the job's lock with it, if it still had it.
LEMMA LeaveStep ==
    ASSUME QueueInv, NEW r \in Runner, NEW ending \in {"completed", "failed", "waiting"},
           run[r] # "idle", Leave(r, ending), faults' \in 0..MaxFaults
    PROVE  QueueInv'
<1> USE DEF QueueInv, QueueTypeOK, LockOK, slotVars, eventVars
<1>1. QueueTypeOK'  BY DEF Leave
<1>4. ClaimOK'  BY DEF Leave, ClaimOK
<1>2. LockOK'  BY QueueAssumption DEF Leave, Runner
<1>3. Zombies' \subseteq Zombies /\ stalls' = stalls  BY DEF Leave, Zombies, Runner
<1> QED  BY <1>1, <1>2, <1>3, <1>4, NoNewZombie

LEMMA RunStep ==
    ASSUME QueueInv, NEW r \in Runner,
           Work(r) \/ RunFails(r) \/ (r \in Worker /\ (TakeJob(r) \/ SlotDies(r)))
             \/ (r \in Manual /\ StartManual(r))
    PROVE  QueueInv'
<1> USE DEF QueueInv, QueueTypeOK, LockOK, slotVars, runVars, eventVars
<1>1. CASE ClaimEvent(r)
  <2>1. QueueTypeOK' /\ LockOK'  BY <1>1 DEF ClaimEvent, Runner
  <2>3. ClaimOK'  BY <1>1 DEF ClaimOK, ClaimEvent, Runner
  <2>2. Zombies' \subseteq Zombies /\ stalls' = stalls  BY <1>1 DEF ClaimEvent, Zombies
  <2> QED  BY <2>1, <2>2, <2>3, NoNewZombie
<1>2. CASE ClaimDone(r)
  <2>1. QueueTypeOK' /\ LockOK'  BY <1>2 DEF ClaimDone, Runner
  <2>3. ClaimOK'  BY <1>2 DEF ClaimOK, ClaimDone, Runner
  <2>2. Zombies' \subseteq Zombies /\ stalls' = stalls
    BY <1>2 DEF ClaimDone, Zombies, Runner
  <2> QED  BY <2>1, <2>2, <2>3, NoNewZombie
<1>3. CASE CloseEvent(r)
  <2>1. QueueTypeOK' /\ LockOK'  BY <1>3 DEF CloseEvent, Runner
  <2>3. ClaimOK'  BY <1>3 DEF ClaimOK, CloseEvent, Runner
  <2>2. Zombies' \subseteq Zombies /\ stalls' = stalls  BY <1>3 DEF CloseEvent, Zombies
  <2> QED  BY <2>1, <2>2, <2>3, NoNewZombie
<1>4. CASE RetryEvent(r)
  <2> PICK e \in batch[r] :
        /\ tries' = [tries EXCEPT ![e] = @ + 1]
        /\ event' = [event EXCEPT ![e] = IF Retryable(e) THEN "waiting" ELSE "closed"]
        /\ batch' = [batch EXCEPT ![r] = @ \ {e}]
    BY <1>4 DEF RetryEvent
  <2>4. e \in Event /\ tries[e] \in Nat /\ tries[e] < MaxRetries
    BY QueueAssumption DEF ClaimOK
  <2>1. QueueTypeOK' /\ LockOK'  BY <1>4, <2>4, QueueAssumption DEF RetryEvent, Runner
  <2>3. ClaimOK'  BY <1>4, <2>4, QueueAssumption DEF ClaimOK, RetryEvent, Retryable
  <2>2. Zombies' \subseteq Zombies /\ stalls' = stalls  BY <1>4 DEF RetryEvent, Zombies
  <2> QED  BY <2>1, <2>2, <2>3, NoNewZombie
<1>5. CASE EndRun(r)
  <2>1. faults' \in 0..MaxFaults  BY <1>5 DEF EndRun
  <2> QED  BY <1>5, <2>1, LeaveStep DEF EndRun
<1>6. CASE RunFails(r)
  <2>1. faults' \in 0..MaxFaults  BY <1>6, QueueAssumption DEF RunFails
  <2> QED  BY <1>6, <2>1, LeaveStep DEF RunFails
<1>7. CASE r \in Worker /\ SlotDies(r)
  <2>1. faults' \in 0..MaxFaults  BY <1>7, QueueAssumption DEF SlotDies
  <2>2. PICK ending \in {"waiting", "failed"} : Leave(r, ending)
    BY <1>7 DEF SlotDies
  <2> QED  BY <1>7, <2>1, <2>2, LeaveStep DEF SlotDies
<1>8. CASE r \in Worker /\ TakeJob(r)
  <2>1. QueueTypeOK' /\ LockOK'  BY <1>8, QueueAssumption DEF TakeJob, Runner
  <2>3. ClaimOK'  BY <1>8, QueueAssumption DEF ClaimOK, TakeJob, Runner
  <2>2. Zombies' \subseteq Zombies /\ stalls' = stalls
    BY <1>8, QueueAssumption DEF TakeJob, Zombies, Runner
  <2> QED  BY <2>1, <2>2, <2>3, NoNewZombie
<1>9. CASE r \in Manual /\ StartManual(r)
  <2>1. QueueTypeOK' /\ LockOK'  BY <1>9 DEF StartManual, Runner
  <2>3. ClaimOK'  BY <1>9 DEF ClaimOK, StartManual, Runner
  <2>2. Zombies' \subseteq Zombies /\ stalls' = stalls
    BY <1>9, QueueAssumption DEF StartManual, Zombies, Runner
  <2> QED  BY <2>1, <2>2, <2>3, NoNewZombie
<1> QED  BY <1>1, <1>2, <1>3, <1>4, <1>5, <1>6, <1>7, <1>8, <1>9 DEF Work

\* One more element is at most one more.
LEMMA OneMore ==
    ASSUME NEW S, NEW x, IsFiniteSet(S)
    PROVE  Cardinality(S \union {x}) <= Cardinality(S) + 1
<1>1. Cardinality(S) \in Nat  BY FS_CardinalityType
<1>2. Cardinality(S \union {x}) = IF x \in S THEN Cardinality(S) ELSE Cardinality(S) + 1
  BY FS_AddElement
<1> QED  BY <1>1, <1>2

\* A stall makes one zombie of the lock's holder.
LEMMA StallStep ==
    ASSUME QueueInv, NEW w \in Worker, JobStalls(w)
    PROVE  QueueInv'
<1> USE DEF QueueInv, QueueTypeOK, LockOK, runVars, eventVars, JobStalls
<1>1. QueueTypeOK' /\ LockOK'  BY QueueAssumption
<1>2. ClaimOK'  BY DEF ClaimOK
<1>3. Zombies' = Zombies \union {w}  BY QueueAssumption DEF Zombies
<1>4. IsFiniteSet(Zombies) /\ Cardinality(Zombies) \in Nat  BY ZombiesShrink
<1>5. Cardinality(Zombies') <= Cardinality(Zombies) + 1
  BY <1>3, <1>4, OneMore
<1>6. Cardinality(Zombies') \in Nat
  BY <1>3, <1>4, FS_AddElement, FS_CardinalityType
<1>7. Cardinality(Zombies') <= stalls'
  BY <1>4, <1>5, <1>6, QueueAssumption
<1> QED  BY <1>1, <1>2, <1>7

\* The invariant is inductive.
LEMMA QueueStep == QueueInv /\ [QueueNext]_queueVars => QueueInv'
<1> SUFFICES ASSUME QueueInv, [QueueNext]_queueVars PROVE QueueInv'  OBVIOUS
<1>1. CASE UNCHANGED queueVars
  BY <1>1 DEF queueVars, eventVars, slotVars, runVars, QueueInv, QueueTypeOK, LockOK, ClaimOK, Zombies
<1>2. CASE QueueNext
  BY <1>2, AdderStepKeeps, OutsideStep, RunStep, StallStep DEF QueueNext, Runner
<1> QED  BY <1>1, <1>2

LEMMA QueueInvariant == QueueSpec => []QueueInv
BY QueueStarts, QueueStep, PTL DEF QueueSpec

\* Every variable keeps its type; in particular no event is tried more often
\* than its retries allow, whoever runs it.
THEOREM QueueTypes == QueueSpec => []QueueTypeOK
BY QueueInvariant, PTL DEF QueueInv

\* For any number of requests, cron ticks, worker slots and stalls: a
\* tenant's job runs in one slot, plus one for each lost job lock.
THEOREM JobsCoalesce == QueueSpec => []Coalesced
<1>1. QueueInv => Coalesced
  <2> SUFFICES ASSUME QueueInv PROVE Coalesced  OBVIOUS
  <2>1. QueueTypeOK  BY DEF QueueInv
  <2>2. IsFiniteSet(Zombies) /\ Cardinality(Zombies) \in Nat  BY <2>1, ZombiesShrink
  <2>3. Slots \subseteq Zombies \union {lock}  BY DEF Slots, Zombies
  <2>4. /\ IsFiniteSet(Zombies \union {lock})
        /\ Cardinality(Zombies \union {lock}) <= Cardinality(Zombies) + 1
    BY <2>2, FS_AddElement
  <2>5. IsFiniteSet(Slots) /\ Cardinality(Slots) <= Cardinality(Zombies \union {lock})
    BY <2>3, <2>4, FS_Subset
  <2>6. Cardinality(Slots) \in Nat /\ Cardinality(Zombies \union {lock}) \in Nat
    BY <2>4, <2>5, FS_CardinalityType
  <2>7. stalls \in Nat /\ Cardinality(Zombies) <= stalls
    BY QueueAssumption DEF QueueInv, QueueTypeOK
  <2> QED  BY <2>2, <2>4, <2>5, <2>6, <2>7 DEF Coalesced, Slots
<1> QED  BY <1>1, QueueInvariant, PTL

-------------------------------------------------------------------------------
(* SapSyncJob.  A running job has its lock as long as the lock outlives the     *)
(* renewals that may still fail: the lease it holds is longer than the time to  *)
(* its next timer plus one period per failure left.                             *)

\* Division of naturals, as the provers know it.
LEMMA DivMod ==
    ASSUME NEW a \in Nat, NEW b \in Nat \ {0}
    PROVE  /\ a \div b \in Nat /\ a % b \in 0..(b - 1)
           /\ a = b * (a \div b) + (a % b)
  BY Z3

LEMMA DayPositive == Day \in Nat \ {0} /\ MinutesPerHour \in Nat \ {0}
  BY WindowAssumption DEF Day

\* The time to live outlasts a renewal period and the failures in a row.
LeaseIsLong == (MaxMissed + 1) * RenewEvery < TTL

LEMMA TicksPositive == TicksPerDay \in Nat \ {0}
BY DayPositive, SapSyncJobAssumption DEF TicksPerDay

LEMMA RenewPositive == RenewEvery \in Nat /\ RenewEvery > 0
BY SapSyncJobAssumption DEF RenewEvery

\* n periods are a number of ticks, and one failure is one period.
LEMMA Periods ==
    ASSUME NEW n \in Nat, NEW r \in Nat
    PROVE  /\ n * r \in Nat
           /\ (n + 1) * r = n * r + r
           /\ n > 0 => (n - 1) * r \in Nat /\ n * r = (n - 1) * r + r
OBVIOUS

\* The key in Redis has an owner as long as it has time to live, and a job
\* does not exceed its attempts until it has failed.
KeyOK == owner = "nobody" <=> ttl = 0

TriesOK == \A j \in Job : state[j] \notin {"done", "failed", "inactive", "outside"}
                            => tried[j] < Attempts

Typed == TypeOK /\ KeyOK /\ TriesOK

LEMMA InitTyped == Init => Typed
BY SapSyncJobAssumption, RenewPositive, TicksPositive
DEF Init, Typed, TypeOK, KeyOK, TriesOK, JobState

LEMMA AttemptFailsTyped ==
    ASSUME Typed, NEW j \in Job, AttemptFails(j),
           state[j] \notin {"done", "failed", "inactive", "outside"}
    PROVE  /\ state' \in [Job -> JobState]
           /\ tried' \in [Job -> 0..Attempts]
           /\ wakeIn' \in [Job -> Nat]
           /\ TriesOK'
           /\ Running' = Running \ {j}
           /\ \A k \in Job \ {j} : state'[k] = state[k]
           /\ state'[j] \in {"delayed", "failed"}
<1> USE DEF Typed, TypeOK, TriesOK, JobState
<1>1. tried[j] \in Nat /\ tried[j] + 1 \in 1..Attempts  BY SapSyncJobAssumption
<1>2. CASE AttemptsLeft(j)
  <2>1. /\ tried' = [tried EXCEPT ![j] = @ + 1]
        /\ state' = [state EXCEPT ![j] = "delayed"]
        /\ wakeIn' = [wakeIn EXCEPT ![j] = Backoff[tried[j] + 1]]
    BY <1>2 DEF AttemptFails
  <2>2. Backoff[tried[j] + 1] \in Nat  BY <1>1, SapSyncJobAssumption
  <2> QED  BY <1>1, <1>2, <2>1, <2>2, SapSyncJobAssumption, SMTT(60) DEF AttemptsLeft, Running
<1>3. CASE ~AttemptsLeft(j)
  <2>1. /\ tried' = [tried EXCEPT ![j] = @ + 1]
        /\ state' = [state EXCEPT ![j] = "failed"]
        /\ wakeIn' = wakeIn
    BY <1>3 DEF AttemptFails
  <2> QED  BY <1>1, <2>1, SapSyncJobAssumption DEF Running
<1> QED  BY <1>2, <1>3
-----------------------------------------------------------------------------
(* Typed is inductive by itself.                                           *)

LEMMA ClockTyped == Typed /\ (Tick \/ ToggleActive) => Typed'
<1> USE DEF Typed, TypeOK, KeyOK, TriesOK
<1>1. ASSUME Typed, Tick PROVE Typed'
  <2> USE <1>1 DEF Tick
  <2>1. now' \in 0..(TicksPerDay - 1)
    <3>1. now + 1 \in Nat /\ now' = (now + 1) % TicksPerDay
      BY TicksPositive
    <3> QED  BY <3>1, TicksPositive, DivMod
  <2>2. wakeIn' \in [Job -> Nat]  OBVIOUS
  <2>3. renewIn' \in [Job -> 0..RenewEvery]  BY RenewPositive DEF Running
  <2>4. ttl' \in Nat /\ owner' \in Job \union {"nobody"} /\ KeyOK'  OBVIOUS
  <2>5. expired' \subseteq Job  BY DEF Running
  <2> QED  BY <2>1, <2>2, <2>3, <2>4, <2>5
<1>2. ASSUME Typed, ToggleActive PROVE Typed'
  BY <1>2 DEF ToggleActive, jobVars, lockVars, timerVars, ghosts
<1> QED  BY <1>1, <1>2

LEMMA QueueTyped ==
    ASSUME Typed, NEW j \in Job, Enqueue(j) \/ Wake(j) \/ CheckConfig(j) \/ CheckFails(j)
    PROVE  Typed'
<1> USE DEF Typed, TypeOK, KeyOK, TriesOK, JobState, lockVars, timerVars, ghosts
<1>1. CASE Enqueue(j)  BY <1>1 DEF Enqueue
<1>2. CASE Wake(j)  BY <1>2 DEF Wake
<1>3. CASE CheckConfig(j)  BY <1>3 DEF CheckConfig
<1>4. CASE CheckFails(j)
  <2>1. AttemptFails(j) /\ state[j] = "waiting"  BY <1>4 DEF CheckFails
  <2>2. state' \in [Job -> JobState] /\ tried' \in [Job -> 0..Attempts]
        /\ wakeIn' \in [Job -> Nat] /\ TriesOK'
    BY <2>1, AttemptFailsTyped
  <2> QED  BY <1>4, <2>2 DEF CheckFails
<1> QED  BY <1>1, <1>2, <1>3, <1>4

LEMMA LockTyped ==
    ASSUME Typed, NEW j \in Job, AcquireLock(j) \/ LockTaken(j) \/ Renew(j) \/ RenewFails(j)
    PROVE  Typed'
<1> USE DEF Typed, TypeOK, KeyOK, TriesOK, JobState, lockVars, timerVars, ghosts, jobVars
<1>1. CASE AcquireLock(j)
  <2>1. /\ owner' = j /\ ttl' = TTL
        /\ state' = [state EXCEPT ![j] = "running"]
        /\ renewIn' = [renewIn EXCEPT ![j] = RenewEvery]
        /\ missed' = [missed EXCEPT ![j] = 0]
        /\ expired' = expired \ {j}
        /\ UNCHANGED <<now, active, tried, wakeIn, outcome, crashes, contended>>
    BY <1>1 DEF AcquireLock, TimeToLive
  <2>2. RenewEvery \in 0..RenewEvery /\ TTL \in Nat \ {0} /\ 0 \in 0..MaxMissed
        /\ j # "nobody"
    BY RenewPositive, SapSyncJobAssumption
  <2>3. TypeOK'  BY <2>1, <2>2
  <2>4. KeyOK'  BY <2>1, <2>2
  <2>5. TriesOK'  BY <1>1, <2>1 DEF AcquireLock
  <2> QED  BY <2>3, <2>4, <2>5
<1>2. CASE LockTaken(j)
  <2>1. AttemptFails(j) /\ state[j] = "checked"  BY <1>2 DEF LockTaken
  <2>2. state' \in [Job -> JobState] /\ tried' \in [Job -> 0..Attempts]
        /\ wakeIn' \in [Job -> Nat] /\ TriesOK'
    BY <2>1, AttemptFailsTyped
  <2> QED  BY <1>2, <2>2 DEF LockTaken
<1>3. CASE Renew(j)
  <2>1. renewIn' \in [Job -> 0..RenewEvery] /\ missed' \in [Job -> 0..MaxMissed]
    BY <1>3, RenewPositive, SapSyncJobAssumption DEF Renew
  <2>2. ttl' \in Nat /\ KeyOK'
    BY <1>3, SapSyncJobAssumption DEF Renew
  <2> QED  BY <1>3, <2>1, <2>2 DEF Renew
<1>4. CASE RenewFails(j)
  <2>1. /\ missed' = [missed EXCEPT ![j] = @ + 1]
        /\ renewIn' = [renewIn EXCEPT ![j] = RenewEvery]
        /\ missed[j] + 1 \in 0..MaxMissed
    BY <1>4, SapSyncJobAssumption DEF RenewFails
  <2>2. renewIn' \in [Job -> 0..RenewEvery] /\ missed' \in [Job -> 0..MaxMissed]
    BY <2>1, RenewPositive
  <2> QED  BY <1>4, <2>2 DEF RenewFails
<1> QED  BY <1>1, <1>2, <1>3, <1>4

LEMMA EndTyped ==
    ASSUME Typed, NEW j \in Job,
           EndSync(j) \/ ReleaseLock(j) \/ ReleaseThrows(j) \/ WorkerDies(j)
    PROVE  Typed'
<1> USE DEF Typed, TypeOK, KeyOK, TriesOK, JobState, lockVars, timerVars, ghosts, StopTimer
<1>1. CASE EndSync(j)
  <2>1. state[j] = "running" /\ state' = [state EXCEPT ![j] = "releasing"]
    BY <1>1 DEF EndSync, Running
  <2>2. outcome' \in [Job -> {"done", "failed"}]  BY <1>1 DEF EndSync
  <2>3. renewIn' \in [Job -> 0..RenewEvery] /\ missed' \in [Job -> 0..MaxMissed]
    BY <1>1, RenewPositive, SapSyncJobAssumption DEF EndSync
  <2>4. TriesOK'  BY <1>1, <2>1 DEF EndSync
  <2> QED  BY <1>1, <2>1, <2>2, <2>3, <2>4 DEF EndSync
<1>2. CASE ReleaseLock(j)
  <2>1. state' \in [Job -> JobState] /\ tried' \in [Job -> 0..Attempts]
        /\ wakeIn' \in [Job -> Nat] /\ TriesOK'
    <3>1. CASE outcome[j] = "done"
      BY <1>2, <3>1 DEF ReleaseLock
    <3>2. CASE outcome[j] # "done"
      BY <1>2, <3>2, AttemptFailsTyped DEF ReleaseLock
    <3> QED  BY <3>1, <3>2
  <2>2. owner' \in Job \union {"nobody"} /\ ttl' \in Nat /\ KeyOK'
    BY <1>2 DEF ReleaseLock
  <2> QED  BY <1>2, <2>1, <2>2 DEF ReleaseLock
<1>3. CASE ReleaseThrows(j)
  <2>1. AttemptFails(j) /\ state[j] = "releasing"  BY <1>3 DEF ReleaseThrows
  <2>2. state' \in [Job -> JobState] /\ tried' \in [Job -> 0..Attempts]
        /\ wakeIn' \in [Job -> Nat] /\ TriesOK'
    BY <2>1, AttemptFailsTyped
  <2> QED  BY <1>3, <2>2 DEF ReleaseThrows
<1>4. CASE WorkerDies(j)
  <2>1. crashes' \in 0..MaxCrashes  BY <1>4, SapSyncJobAssumption DEF WorkerDies
  <2>2. state' \in [Job -> JobState] /\ TriesOK'  BY <1>4 DEF WorkerDies
  <2>3. renewIn' \in [Job -> 0..RenewEvery] /\ missed' \in [Job -> 0..MaxMissed]
    BY <1>4, RenewPositive, SapSyncJobAssumption DEF WorkerDies
  <2> QED  BY <1>4, <2>1, <2>2, <2>3 DEF WorkerDies
<1> QED  BY <1>1, <1>2, <1>3, <1>4

LEMMA StepTyped == Typed /\ [Next]_vars => Typed'
<1>1. ASSUME Typed, UNCHANGED vars PROVE Typed'
  BY <1>1 DEF Typed, TypeOK, KeyOK, TriesOK, vars, jobVars, lockVars, timerVars, ghosts
<1>2. ASSUME Typed, Next PROVE Typed'
  BY <1>2, ClockTyped, QueueTyped, LockTyped, EndTyped DEF Next, JobStep
<1> QED  BY <1>1, <1>2

\* Every variable keeps its type: no job is tried more than its attempts, no
\* lock is renewed beyond its time to live.
THEOREM SyncTypes == Spec => []TypeOK
BY InitTyped, StepTyped, PTL DEF Spec, Typed
-----------------------------------------------------------------------------
(* A lock is lost by expiry only.                                          *)

\* A step that starts no job, keeps the key and writes off no running job.
LEMMA QuietKeepsLocks ==
    ASSUME LostOnlyByExpiry, Running' \subseteq Running, owner' = owner, expired' = expired
    PROVE  LostOnlyByExpiry'
BY DEF LostOnlyByExpiry

LEMMA ExpiryStep == Typed /\ LostOnlyByExpiry /\ [Next]_vars => LostOnlyByExpiry'
<1> SUFFICES ASSUME Typed, LostOnlyByExpiry, [Next]_vars PROVE LostOnlyByExpiry'
  OBVIOUS
<1> USE DEF jobVars, lockVars, timerVars, ghosts
<1>1. CASE Tick
  BY <1>1 DEF Tick, LostOnlyByExpiry, Running
<1>2. CASE ToggleActive \/ UNCHANGED vars
  BY <1>2, QuietKeepsLocks DEF ToggleActive, vars, Running
<1>3. ASSUME NEW j \in Job, Enqueue(j) \/ Wake(j) \/ CheckConfig(j)
      PROVE  LostOnlyByExpiry'
  <2>1. Running' \subseteq Running
    BY <1>3 DEF Enqueue, Wake, CheckConfig, Running, Typed, TypeOK
  <2> QED  BY <1>3, <2>1, QuietKeepsLocks DEF Enqueue, Wake, CheckConfig
<1>4. ASSUME NEW j \in Job, CheckFails(j) \/ LockTaken(j) \/ ReleaseThrows(j)
      PROVE  LostOnlyByExpiry'
  <2>1. Running' \subseteq Running
    BY <1>4, AttemptFailsTyped DEF CheckFails, LockTaken, ReleaseThrows
  <2> QED  BY <1>4, <2>1, QuietKeepsLocks DEF CheckFails, LockTaken, ReleaseThrows
<1>5. ASSUME NEW j \in Job, AcquireLock(j) PROVE LostOnlyByExpiry'
  <2>1. Running' \subseteq Running \union {j}
    BY <1>5 DEF AcquireLock, Running, Typed, TypeOK
  <2>2. \A k \in Running : k \in expired
    BY <1>5, SapSyncJobAssumption DEF AcquireLock, Free, LostOnlyByExpiry, Running
  <2> QED  BY <1>5, <2>1, <2>2 DEF AcquireLock, LostOnlyByExpiry
<1>6. ASSUME NEW j \in Job, Renew(j) \/ RenewFails(j) PROVE LostOnlyByExpiry'
  BY <1>6, QuietKeepsLocks DEF Renew, RenewFails, Running
<1>7. ASSUME NEW j \in Job, EndSync(j) \/ WorkerDies(j) PROVE LostOnlyByExpiry'
  <2>1. Running' \subseteq Running
    BY <1>7 DEF EndSync, WorkerDies, Running, Typed, TypeOK
  <2> QED  BY <1>7, <2>1, QuietKeepsLocks DEF EndSync, WorkerDies
<1>8. ASSUME NEW j \in Job, ReleaseLock(j) PROVE LostOnlyByExpiry'
  <2>1. Running' \subseteq Running
    <3>1. CASE outcome[j] = "done"
      BY <1>8, <3>1 DEF ReleaseLock, Running, Typed, TypeOK
    <3>2. CASE outcome[j] # "done"
      BY <1>8, <3>2, AttemptFailsTyped DEF ReleaseLock
    <3> QED  BY <3>1, <3>2
  <2>2. \A k \in Running : k # j  BY <1>8 DEF ReleaseLock, Running
  <2>3. expired' = expired /\ (owner' = owner \/ owner = j)
    BY <1>8 DEF ReleaseLock, HoldsToken
  <2> QED  BY <2>1, <2>2, <2>3 DEF LostOnlyByExpiry
<1> QED
  BY <1>1, <1>2, <1>3, <1>4, <1>5, <1>6, <1>7, <1>8 DEF Next, JobStep

\* Whatever fails, and for any number of jobs: an executing job has its lock
\* unless the lock's time ran out; a late release takes nobody else's.
THEOREM LocksAreLostByExpiry == Spec => []LostOnlyByExpiry
<1>1. Init => LostOnlyByExpiry  BY DEF Init, LostOnlyByExpiry, Running
<1> QED  BY <1>1, InitTyped, StepTyped, ExpiryStep, PTL DEF Spec
-----------------------------------------------------------------------------
(* As long as the lease is long enough, the lock excludes.                 *)

\* What the failures still allowed after m in a row may cost.
Reserve(m) == (MaxMissed - m) * RenewEvery

Lease == \A j \in Running : owner = j /\ ttl > renewIn[j] + Reserve(missed[j])

LEMMA ReserveFacts ==
    /\ \A m \in 0..MaxMissed : Reserve(m) \in Nat
    /\ \A m \in 0..MaxMissed : m < MaxMissed => Reserve(m) = Reserve(m + 1) + RenewEvery
    /\ (MaxMissed + 1) * RenewEvery = Reserve(0) + RenewEvery
<1>1. ASSUME NEW m \in 0..MaxMissed PROVE Reserve(m) \in Nat
  <2> DEFINE n == MaxMissed - m
  <2>1. n \in Nat  BY SapSyncJobAssumption
  <2> HIDE DEF n
  <2>2. n * RenewEvery \in Nat  BY <2>1, RenewPositive, Periods
  <2> QED  BY <2>2 DEF Reserve, n
<1>2. ASSUME NEW m \in 0..MaxMissed, m < MaxMissed
      PROVE  Reserve(m) = Reserve(m + 1) + RenewEvery
  <2> DEFINE n == MaxMissed - m
  <2>1. n \in Nat /\ n > 0 /\ n - 1 = MaxMissed - (m + 1)  BY <1>2, SapSyncJobAssumption
  <2> HIDE DEF n
  <2>2. n * RenewEvery = (n - 1) * RenewEvery + RenewEvery
    BY <2>1, RenewPositive, Periods
  <2> QED  BY <2>1, <2>2 DEF Reserve, n
<1>3. (MaxMissed + 1) * RenewEvery = Reserve(0) + RenewEvery
  <2>1. (MaxMissed + 1) * RenewEvery = MaxMissed * RenewEvery + RenewEvery
    BY RenewPositive, Periods, SapSyncJobAssumption
  <2>2. MaxMissed - 0 = MaxMissed  BY SapSyncJobAssumption
  <2> QED  BY <2>1, <2>2 DEF Reserve
<1> QED  BY <1>1, <1>2, <1>3

\* A step that starts no job and leaves key and timers alone.
LEMMA QuietKeepsLease ==
    ASSUME Lease, Running' \subseteq Running, owner' = owner, ttl' = ttl,
           \A j \in Running' : renewIn'[j] = renewIn[j] /\ missed'[j] = missed[j]
    PROVE  Lease'
BY DEF Lease, Reserve

LEMMA LeaseStep ==
    ASSUME LeaseIsLong, Typed, Lease, [Next]_vars
    PROVE  Lease'
<1> USE DEF jobVars, lockVars, timerVars, ghosts
<1>1. CASE Tick
  <2> SUFFICES ASSUME NEW j \in Running'
               PROVE  owner' = j /\ ttl' > renewIn'[j] + Reserve(missed'[j])
    BY DEF Lease
  <2>1. j \in Job /\ j \in Running  BY <1>1 DEF Tick, Running
  <2>2. owner = j /\ ttl > renewIn[j] + Reserve(missed[j])  BY <2>1 DEF Lease
  <2>3. /\ renewIn[j] \in Nat /\ renewIn[j] > 0 /\ ttl \in Nat
        /\ renewIn'[j] = renewIn[j] - 1 /\ missed' = missed
        /\ ttl' = IF ttl > 0 THEN ttl - 1 ELSE ttl
        /\ owner' = IF ttl = 1 THEN "nobody" ELSE owner
        /\ missed[j] \in 0..MaxMissed
    BY <1>1, <2>1, RenewPositive DEF Tick, Typed, TypeOK
  <2>4. Reserve(missed[j]) \in Nat  BY <2>3, ReserveFacts
  <2> QED  BY <2>2, <2>3, <2>4
<1>2. CASE ToggleActive \/ UNCHANGED vars
  BY <1>2, QuietKeepsLease DEF ToggleActive, vars, Running
<1>3. ASSUME NEW j \in Job, Enqueue(j) \/ Wake(j) \/ CheckConfig(j)
      PROVE  Lease'
  <2>1. Running' \subseteq Running
    BY <1>3 DEF Enqueue, Wake, CheckConfig, Running, Typed, TypeOK
  <2> QED  BY <1>3, <2>1, QuietKeepsLease DEF Enqueue, Wake, CheckConfig
<1>4. ASSUME NEW j \in Job, CheckFails(j) \/ LockTaken(j) \/ ReleaseThrows(j)
      PROVE  Lease'
  <2>1. Running' \subseteq Running
    BY <1>4, AttemptFailsTyped DEF CheckFails, LockTaken, ReleaseThrows
  <2> QED  BY <1>4, <2>1, QuietKeepsLease DEF CheckFails, LockTaken, ReleaseThrows
<1>5. ASSUME NEW j \in Job, AcquireLock(j) PROVE Lease'
  <2>1. Running' \subseteq Running \union {j}
    BY <1>5 DEF AcquireLock, Running, Typed, TypeOK
  <2>2. Running = {}
    BY <1>5, SapSyncJobAssumption DEF AcquireLock, Free, Lease, Running
  <2>3. owner' = j /\ ttl' = TTL /\ renewIn'[j] = RenewEvery /\ missed'[j] = 0
    BY <1>5 DEF AcquireLock, TimeToLive, Typed, TypeOK
  <2>4. TTL > RenewEvery + Reserve(0)
    BY ReserveFacts, RenewPositive, SapSyncJobAssumption DEF LeaseIsLong
  <2> QED  BY <2>1, <2>2, <2>3, <2>4 DEF Lease, Reserve
<1>6. ASSUME NEW j \in Job, Renew(j) PROVE Lease'
  <2>1. Running' = Running /\ j \in Running /\ owner' = owner  BY <1>6 DEF Renew, Running
  <2>2. owner = j /\ \A k \in Running : k = j  BY <2>1 DEF Lease
  <2>3. ttl' = TTL /\ renewIn'[j] = RenewEvery /\ missed'[j] = 0
    BY <1>6, <2>2 DEF Renew, Typed, TypeOK
  <2>4. TTL > RenewEvery + Reserve(0)
    BY ReserveFacts, RenewPositive, SapSyncJobAssumption DEF LeaseIsLong
  <2> QED  BY <2>1, <2>2, <2>3, <2>4 DEF Lease, Reserve
<1>7. ASSUME NEW j \in Job, RenewFails(j) PROVE Lease'
  <2>1. Running' = Running /\ j \in Running /\ owner' = owner /\ ttl' = ttl
    BY <1>7 DEF RenewFails, Running
  <2>2. owner = j /\ (\A k \in Running : k = j) /\ ttl > renewIn[j] + Reserve(missed[j])
    BY <2>1 DEF Lease
  <2>3. /\ renewIn[j] = 0 /\ renewIn'[j] = RenewEvery
        /\ missed[j] \in 0..MaxMissed /\ missed[j] < MaxMissed
        /\ missed'[j] = missed[j] + 1 /\ ttl \in Nat
    BY <1>7 DEF RenewFails, Typed, TypeOK
  <2>4. missed[j] + 1 \in 0..MaxMissed  BY <2>3, SapSyncJobAssumption
  <2>5. Reserve(missed[j]) = Reserve(missed[j] + 1) + RenewEvery
        /\ Reserve(missed[j] + 1) \in Nat /\ Reserve(missed[j]) \in Nat
    BY <2>3, <2>4, ReserveFacts
  <2>6. ttl > RenewEvery + Reserve(missed[j] + 1)
    BY <2>2, <2>3, <2>5, RenewPositive
  <2> QED  BY <2>1, <2>2, <2>3, <2>6 DEF Lease, Reserve
<1>8. ASSUME NEW j \in Job, EndSync(j) \/ WorkerDies(j) PROVE Lease'
  <2>1. Running' \subseteq Running /\ j \notin Running'
    BY <1>8 DEF EndSync, WorkerDies, Running, Typed, TypeOK
  <2>2. \A k \in Running' : renewIn'[k] = renewIn[k] /\ missed'[k] = missed[k]
    BY <1>8, <2>1 DEF EndSync, WorkerDies, StopTimer, Running, Typed, TypeOK
  <2> QED  BY <1>8, <2>1, <2>2, QuietKeepsLease DEF EndSync, WorkerDies
<1>9. ASSUME NEW j \in Job, ReleaseLock(j) PROVE Lease'
  <2>1. Running' \subseteq Running
    <3>1. CASE outcome[j] = "done"
      BY <1>9, <3>1 DEF ReleaseLock, Running, Typed, TypeOK
    <3>2. CASE outcome[j] # "done"
      BY <1>9, <3>2, AttemptFailsTyped DEF ReleaseLock
    <3> QED  BY <3>1, <3>2
  <2>2. CASE owner = j
    <3>1. Running = {}  BY <1>9, <2>2 DEF ReleaseLock, Running, Lease
    <3> QED  BY <2>1, <3>1 DEF Lease
  <2>3. CASE owner # j
    BY <1>9, <2>1, <2>3, QuietKeepsLease DEF ReleaseLock, HoldsToken
  <2> QED  BY <2>2, <2>3
<1> QED
  BY <1>1, <1>2, <1>3, <1>4, <1>5, <1>6, <1>7, <1>8, <1>9 DEF Next, JobStep

LEMMA LeaseInvariant == ASSUME LeaseIsLong PROVE Spec => [](Typed /\ Lease)
<1>1. Init => Lease  BY DEF Init, Lease, Running
<1>2. Typed /\ Lease /\ [Next]_vars => (Typed /\ Lease)'  BY StepTyped, LeaseStep
<1> QED  BY <1>1, <1>2, InitTyped, PTL DEF Spec

\* README section 19, for every number of jobs, attempts and ticks: if the
\* time to live outlasts one renewal period more than the renewals that fail
\* in a row, no two synchronisations of a tenant ever execute at once.
THEOREM LockExcludes == ASSUME LeaseIsLong PROVE Spec => []SingleExecution
<1>1. Lease => SingleExecution  BY DEF Lease, SingleExecution
<1> QED  BY <1>1, LeaseInvariant, PTL
================================================================================
