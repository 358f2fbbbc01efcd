------------------------ MODULE WebhookEventsProofs ------------------------
(* Proofs about WebhookEvents for any number of events, deals, runs and     *)
(* faults, when the driver reports an error only for a write that was not   *)
(* applied (UnackedWrites = FALSE). The inductive invariant has three       *)
(* parts: the stored documents, the runs' own state, and what ties them.    *)
(* And about QuotationLines for any number of line items, updates and       *)
(* mishaps: the rows of a quotation, and the link that names them.          *)
EXTENDS WebhookEvents, QuotationLines, FiniteSetTheorems, SequenceTheorems, WellFoundedInduction, TLAPS

InProcess == {"inprocess", "sap_order_created"}

Working == RunPc \ {"idle", "claim", "next"}

StoreType ==
    /\ status \in [Event -> Status]
    /\ key \in [Event -> Key \union {NoKey}]
    /\ retries \in [Event -> 0..MaxRetries]
    /\ dedupActive \in [Event -> BOOLEAN]
    /\ created \in 0..MaxEvents

RunType ==
    /\ pc \in [Run -> RunPc]
    /\ batch \in [Run -> SUBSET Event]
    /\ cur \in [Run -> Event \union {0}]
    /\ snap \in [Run -> [Event -> 0..MaxRetries]]
    /\ audit \in [Run -> BOOLEAN]
    /\ err \in [Run -> Error]

RestType ==
    /\ checked \in [Key -> Nat]
    /\ links \subseteq Key
    /\ docs \in [Event -> Nat]
    /\ unseen \subseteq Event
    /\ mongoFaults \in 0..MaxMongoFaults
    /\ crashes \in 0..MaxCrashes
    /\ reopened \subseteq Event

\* The partial index covers exactly the open events of the deduplicated types.
IndexedIffOpen ==
    \A e \in Event : dedupActive[e] <=> Open(e) /\ Deduplicates(key[e][1])

IndexUnique ==
    \A e, f \in Event : e # f /\ dedupActive[e] /\ dedupActive[f] => key[e] # key[f]

\* Events beyond the insertion counter do not exist yet.
UnbornAbsent ==
    \A e \in Event : e > created => status[e] = "absent" /\ retries[e] = 0

\* The event a run is working on is one of those it holds, and a run that
\* handles an error knows what the error is.
WorksOnHeld ==
    \A w \in Run : /\ pc[w] \in Working => cur[w] \in batch[w]
                   /\ pc[w] = "failed" => err[w] # "none"

HeldHasRetries == \A w \in Run : \A e \in batch[w] : snap[w][e] < MaxRetries

StoreOK ==
    /\ StoreType /\ IndexedIffOpen /\ IndexUnique /\ UnbornAbsent
    /\ ErroredIffRetriesSpent

RunsOK == RunType /\ SingleOwner /\ WorksOnHeld /\ HeldHasRetries

\* A run holds only events that it claimed and nobody has closed since.
HeldInProcess == \A w \in Run : \A e \in batch[w] : status[e] \in InProcess

IInv == StoreOK /\ RunsOK /\ HeldInProcess /\ RestType

USE WebhookAssumption DEF Event
-----------------------------------------------------------------------------
(* The stored documents.                                                    *)

\* NoKey belongs to no deduplicated type.
LEMMA KeyTypes == ~Deduplicates(NoKey[1])
  BY DEF Deduplicates, DeduplicatedTypes, AllEventTypes, NoKey

\* markFailed on an open event keeps the index and the retries in step.
LEMMA FailedKeepsStore ==
  ASSUME StoreOK, NEW e \in Event, status[e] \in InProcess,
         NEW st \in Status \ {"absent"}, NEW rt \in 0..MaxRetries,
         st = "errored" <=> rt = MaxRetries,
         Failed(e, st, rt), UNCHANGED <<key, created>>
  PROVE  StoreOK' /\ \A f \in Event \ {e} : status'[f] = status[f]
<1> USE DEF Failed, InProcess, StoreOK
<1>1. /\ status' = [status EXCEPT ![e] = st]
      /\ retries' = [retries EXCEPT ![e] = rt]
      /\ dedupActive' = [dedupActive EXCEPT ![e] = DedupActiveFor(key[e][1], st)]
      /\ DedupActiveFor(key[e][1], st) \in BOOLEAN
  BY DEF DedupActiveFor, Deduplicates
<1>2. StoreType'
  BY <1>1 DEF StoreType
<1>3. IndexedIffOpen'
  BY <1>1 DEF IndexedIffOpen, Open, DedupActiveFor, StoreType
<1>4. IndexUnique'
  BY <1>1 DEF IndexUnique, Indexable, IndexConflict, StoreType
<1>5. UnbornAbsent'
  BY <1>1 DEF UnbornAbsent, StoreType
<1>6. ErroredIffRetriesSpent'
  BY <1>1 DEF ErroredIffRetriesSpent, StoreType
<1>7. \A f \in Event \ {e} : status'[f] = status[f]
  BY <1>1 DEF StoreType
<1> QED BY <1>2, <1>3, <1>4, <1>5, <1>6, <1>7

\* So does a write of the status alone, between open statuses: the claim,
\* markOrderCreated and markCompleted.
LEMMA StatusKeepsStore ==
  ASSUME StoreOK, NEW e \in Event, status[e] \in InProcess \union {"waiting"},
         NEW st \in Status \ {"absent", "errored"},
         status' = [status EXCEPT ![e] = st],
         UNCHANGED <<key, created, retries, dedupActive>>
  PROVE  StoreOK' /\ \A f \in Event \ {e} : status'[f] = status[f]
<1> USE DEF InProcess, StoreOK
<1>1. StoreType'
  BY DEF StoreType
<1>2. IndexedIffOpen'
  BY DEF IndexedIffOpen, Open, StoreType
<1>3. IndexUnique'
  BY DEF IndexUnique
<1>4. UnbornAbsent'
  BY DEF UnbornAbsent, StoreType
<1>5. ErroredIffRetriesSpent'
  BY DEF ErroredIffRetriesSpent, StoreType
<1>6. \A f \in Event \ {e} : status'[f] = status[f]
  BY DEF StoreType
<1> QED BY <1>1, <1>2, <1>3, <1>4, <1>5, <1>6

LEMMA SameStore ==
  ASSUME StoreOK, UNCHANGED store
  PROVE  StoreOK'
BY DEF store, StoreOK, StoreType, IndexedIffOpen, IndexUnique, UnbornAbsent,
       ErroredIffRetriesSpent, Open
-----------------------------------------------------------------------------
(* The runs.                                                                *)

LEMMA SameRuns ==
  ASSUME RunsOK, UNCHANGED runState
  PROVE  RunsOK'
BY DEF runState, RunsOK, RunType, SingleOwner, WorksOnHeld, HeldHasRetries

\* A working run that goes on with the same event stays well formed.
LEMMA GotoKeepsRuns ==
  ASSUME RunsOK, NEW w \in Run, pc[w] \in Working,
         NEW p \in RunPc, NEW x \in Error, p = "failed" => x # "none",
         Goto(w, p, x)
  PROVE  RunsOK' /\ batch' = batch
<1> USE DEF RunsOK, Goto
<1>1. RunType'
  BY DEF RunType
<1>2. SingleOwner' /\ HeldHasRetries'
  BY DEF SingleOwner, HeldHasRetries
<1>3. WorksOnHeld'
  BY DEF WorksOnHeld, RunType
<1> QED BY <1>1, <1>2, <1>3

\* A run that is done with its event lets go of that event and no other.
LEMMA FinishKeepsRuns ==
  ASSUME RunsOK, NEW w \in Run, pc[w] \in Working, Finish(w)
  PROVE  /\ RunsOK'
         /\ batch'[w] = batch[w] \ {cur[w]}
         /\ \A v \in Run \ {w} : batch'[v] = batch[v]
<1> USE DEF RunsOK, Finish
<1>0. cur[w] \in batch[w] /\ cur[w] \in Event
  BY DEF WorksOnHeld, RunType
<1>1. /\ batch'[w] = batch[w] \ {cur[w]}
      /\ \A v \in Run \ {w} : batch'[v] = batch[v]
  BY DEF RunType
<1>2. RunType'
  <2>1. snap' \in [Run -> [Event -> 0..MaxRetries]]
    BY <1>0 DEF RunType
  <2> QED BY <2>1 DEF RunType, RunPc, Error
<1>3. SingleOwner'
  BY <1>1 DEF SingleOwner
<1>4. WorksOnHeld'
  BY DEF WorksOnHeld, RunType, Working
<1>5. HeldHasRetries'
  BY <1>0, <1>1 DEF HeldHasRetries, RunType
<1> QED BY <1>1, <1>2, <1>3, <1>4, <1>5

\* Forgetting the audit trail for the second attempt changes nothing else.
LEMMA RetryKeepsRuns ==
  ASSUME RunsOK, NEW w \in Run, pc[w] \in Working,
         NEW p \in RunPc, p = "failed" => err[w] # "none",
         RetryWithoutAuditOr(w, p)
  PROVE  RunsOK' /\ batch' = batch
<1>1. CASE audit[w]
  BY <1>1 DEF RetryWithoutAuditOr, RunsOK, RunType, SingleOwner, WorksOnHeld,
              HeldHasRetries
<1>2. CASE ~audit[w]
  <2>1. err[w] \in Error /\ Goto(w, p, err[w])
    BY <1>2 DEF RetryWithoutAuditOr, RunsOK, RunType
  <2> QED BY <2>1, GotoKeepsRuns
<1> QED BY <1>1, <1>2
-----------------------------------------------------------------------------
(* What ties them: the events that runs hold stay in process.               *)

LEMMA HeldAfterFinish ==
  ASSUME RunsOK, HeldInProcess, NEW w \in Run, pc[w] \in Working, Finish(w),
         \A f \in Event \ {cur[w]} : status'[f] = status[f]
  PROVE  HeldInProcess'
<1>1. /\ batch'[w] = batch[w] \ {cur[w]} /\ cur[w] \in batch[w]
      /\ \A v \in Run \ {w} : batch'[v] = batch[v] /\ cur[w] \notin batch[v]
      /\ \A v \in Run : batch[v] \subseteq Event
  BY FinishKeepsRuns DEF RunsOK, SingleOwner, WorksOnHeld, RunType
<1> QED BY <1>1 DEF HeldInProcess

LEMMA HeldAfterGoto ==
  ASSUME RunsOK, HeldInProcess, batch' = batch,
         \A f \in Event : status'[f] = status[f] \/ status'[f] \in InProcess
  PROVE  HeldInProcess'
BY DEF HeldInProcess, RunsOK, RunType

\* What every step of a working run relies on.
LEMMA CurrentEvent ==
  ASSUME IInv, NEW w \in Run, pc[w] \in Working
  PROVE  /\ cur[w] \in Event /\ cur[w] \in batch[w]
         /\ status[cur[w]] \in InProcess
         /\ snap[w][cur[w]] \in 0..(MaxRetries - 1)
<1>1. cur[w] \in batch[w] /\ cur[w] \in Event /\ snap[w][cur[w]] \in 0..MaxRetries
  BY DEF IInv, RunsOK, WorksOnHeld, RunType
<1> QED BY <1>1 DEF IInv, HeldInProcess, RunsOK, HeldHasRetries

\* handleProcessingError gives up exactly when it has spent the retries.
LEMMA FailureOutcome ==
  ASSUME IInv, NEW w \in Run, pc[w] = "failed"
  PROVE  /\ FailureStatus(w) \in Status \ {"absent"}
         /\ FailureRetries(w) \in 0..MaxRetries
         /\ FailureStatus(w) = "errored" <=> FailureRetries(w) = MaxRetries
<1>1. snap[w][cur[w]] \in 0..(MaxRetries - 1)
  BY CurrentEvent DEF Working, RunPc
<1>2. err[w] \in {"transient", "permanent", "sapCreated"}
  BY DEF IInv, RunsOK, WorksOnHeld, RunType, Error
<1> QED BY <1>1, <1>2 DEF FailureStatus, FailureRetries, Status
-----------------------------------------------------------------------------
(* One lemma per action: the invariant is inductive.                        *)

LEMMA InitOK == Init => IInv
<1> SUFFICES ASSUME Init PROVE IInv
  OBVIOUS
<1> USE DEF Init
<1>1. StoreOK
  <2>1. StoreType /\ UnbornAbsent
    BY DEF StoreType, Status, UnbornAbsent
  <2>2. IndexedIffOpen /\ IndexUnique /\ ErroredIffRetriesSpent
    BY DEF IndexedIffOpen, IndexUnique, ErroredIffRetriesSpent, Open
  <2> QED BY <2>1, <2>2 DEF StoreOK
<1>2. RunsOK
  BY DEF RunsOK, RunType, RunPc, Error, SingleOwner, WorksOnHeld, HeldHasRetries,
         Working
<1>3. HeldInProcess /\ RestType
  BY DEF HeldInProcess, RestType
<1> QED BY <1>1, <1>2, <1>3 DEF IInv

\* The insertion is the only step that takes a place in the index.
LEMMA CreateEventKeeps ==
  ASSUME IInv, NEW k \in Key, CreateEvent(k)
  PROVE  IInv'
<1> DEFINE e == created + 1
<1> USE DEF CreateEvent
<1>1. e \in Event /\ status[e] = "absent" /\ retries[e] = 0
  BY DEF IInv, StoreOK, StoreType, UnbornAbsent
<1>2. Deduplicates(k[1]) \in BOOLEAN
  BY DEF Deduplicates
<1>3. StoreOK'
  <2>1. StoreType' /\ UnbornAbsent'
    BY <1>1, <1>2 DEF IInv, StoreOK, StoreType, UnbornAbsent, Status
  <2>2. IndexedIffOpen'
    BY <1>1, <1>2 DEF IInv, StoreOK, StoreType, IndexedIffOpen, Open
  <2>3. IndexUnique'
    BY <1>1, <1>2 DEF IInv, StoreOK, StoreType, IndexUnique, IndexConflict
  <2>4. ErroredIffRetriesSpent'
    BY <1>1 DEF IInv, StoreOK, StoreType, ErroredIffRetriesSpent
  <2> QED BY <2>1, <2>2, <2>3, <2>4 DEF StoreOK
<1>4. RunsOK'
  BY SameRuns DEF IInv
<1>5. HeldInProcess'
  BY <1>1 DEF IInv, HeldInProcess, InProcess, runState, RunsOK, RunType, StoreOK, StoreType
<1>6. RestType'
  BY DEF IInv, RestType, sap
<1> QED BY <1>3, <1>4, <1>5, <1>6 DEF IInv

\* A request that stops between its check and its insert, or at the index.
LEMMA RequestKeeps ==
  ASSUME IInv, NEW k \in Key, CheckDuplicate(k) \/ LoseInsertRace(k)
  PROVE  IInv'
<1>1. UNCHANGED <<store, runState, sap, mongoFaults, crashes, reopened>>
  BY DEF CheckDuplicate, LoseInsertRace
<1>2. checked' \in [Key -> Nat]
  BY DEF CheckDuplicate, LoseInsertRace, IInv, RestType
<1>3. StoreOK' /\ RunsOK'
  BY <1>1, SameStore, SameRuns DEF IInv
<1>4. HeldInProcess' /\ RestType'
  BY <1>1, <1>2 DEF IInv, HeldInProcess, RestType, store, runState, sap
<1> QED BY <1>3, <1>4 DEF IInv

\* A claim takes an event nobody holds: it was waiting.
LEMMA ClaimEventKeeps ==
  ASSUME IInv, NEW w \in Run, ClaimEvent(w)
  PROVE  IInv'
<1> USE DEF ClaimEvent
<1>1. PICK e \in Event :
         /\ status[e] = "waiting"
         /\ status' = [status EXCEPT ![e] = "inprocess"]
         /\ batch' = [batch EXCEPT ![w] = @ \union {e}]
         /\ snap' = [snap EXCEPT ![w][e] = retries[e]]
  BY DEF Claimable
<1>2. StoreOK' /\ \A f \in Event \ {e} : status'[f] = status[f]
  BY <1>1, StatusKeepsStore DEF IInv, Status
<1>3. \A v \in Run : e \notin batch[v]
  BY <1>1 DEF IInv, HeldInProcess, InProcess
<1>4. retries[e] \in 0..(MaxRetries - 1)
  BY <1>1 DEF IInv, StoreOK, StoreType, ErroredIffRetriesSpent
<1>5. RunsOK'
  <2>1. snap' \in [Run -> [Event -> 0..MaxRetries]]
    BY <1>1, <1>4 DEF IInv, RunsOK, RunType
  <2>2. RunType'
    BY <1>1, <2>1, SMTT(60) DEF IInv, RunsOK, RunType
  <2>3. SingleOwner'
    BY <1>1, <1>3 DEF IInv, RunsOK, RunType, SingleOwner
  <2>4. WorksOnHeld'
    BY <1>1 DEF IInv, RunsOK, RunType, WorksOnHeld
  <2>5. HeldHasRetries'
    BY <1>1, <1>3, <1>4 DEF IInv, RunsOK, RunType, HeldHasRetries
  <2> QED BY <2>2, <2>3, <2>4, <2>5 DEF RunsOK
<1>6. HeldInProcess'
  BY <1>1, <1>2 DEF IInv, RunsOK, RunType, HeldInProcess, InProcess, StoreOK, StoreType
<1>7. RestType'
  BY DEF IInv, RestType, sap
<1> QED BY <1>2, <1>5, <1>6, <1>7 DEF IInv

\* Starting, ending the claim loop, dying, and taking up the next event
\* write nothing and acquire nothing.
LEMMA RunControlKeeps ==
  ASSUME IInv, NEW w \in Run,
         StartRun(w) \/ ClaimDone(w) \/ AbandonRun(w) \/ NextEvent(w)
  PROVE  IInv'
<1> USE DEF IInv
<1>0. UNCHANGED <<store, checked, sap, mongoFaults, reopened>> /\ crashes' \in 0..MaxCrashes
  BY DEF StartRun, ClaimDone, AbandonRun, NextEvent, RestType
<1>1. UNCHANGED store /\ RestType'
  BY <1>0 DEF RestType, sap
<1>2. RunsOK' /\ \A v \in Run : batch'[v] \subseteq batch[v]
  <2> USE DEF RunsOK, RunType, SingleOwner, WorksOnHeld, HeldHasRetries, RunPc,
              Working, Error
  <2>1. CASE StartRun(w)
    BY <2>1 DEF StartRun
  <2>2. CASE ClaimDone(w)
    BY <2>2 DEF ClaimDone
  <2>3. CASE AbandonRun(w)
    BY <2>3 DEF AbandonRun
  <2>4. CASE NextEvent(w)
    BY <2>4, SMTT(30) DEF NextEvent
  <2> QED BY <2>1, <2>2, <2>3, <2>4
<1>3. HeldInProcess'
  BY <1>1, <1>2 DEF HeldInProcess, store
<1>4. StoreOK'
  BY <1>1, SameStore
<1> QED BY <1>1, <1>2, <1>3, <1>4

\* The calls to SAP and HubSpot: no status is written, the event stays held.
LEMMA CallKeeps ==
  ASSUME IInv, NEW w \in Run,
         \/ Prepare(w) \/ PatchQuotation(w) \/ CreateDocument(w)
         \/ UpdateHubspot(w)
  PROVE  IInv'
<1>1. pc[w] \in Working /\ UNCHANGED store
  BY DEF Prepare, PatchQuotation, CreateDocument, UpdateHubspot, Working, RunPc
<1>2. \E p \in RunPc, x \in Error : (p = "failed" => x # "none") /\ Goto(w, p, x)
  BY DEF Prepare, PatchQuotation, CreateDocument, UpdateHubspot, FailAfterSap,
         RunPc, Error
<1>3. RunsOK' /\ batch' = batch
  BY <1>1, <1>2, GotoKeepsRuns DEF IInv
<1>4. StoreOK' /\ HeldInProcess'
  BY <1>1, <1>3, SameStore, HeldAfterGoto DEF IInv, store
<1>5. RestType'
  <2>1. cur[w] \in Event
    BY <1>1, CurrentEvent
  <2>2. CASE CreateDocument(w)
    <3>1. docs' \in [Event -> Nat]
      BY <2>1, <2>2, SMTT(30) DEF IInv, RestType, CreateDocument
    <3>2. unseen' \subseteq Event
      BY <2>1, <2>2 DEF IInv, RestType, CreateDocument
    <3> QED BY <2>2, <3>1, <3>2 DEF IInv, RestType, CreateDocument
  <2>3. CASE Prepare(w) \/ PatchQuotation(w) \/ UpdateHubspot(w)
    BY <2>3 DEF IInv, RestType, sap, Prepare, PatchQuotation, UpdateHubspot
  <2> QED BY <2>2, <2>3
<1> QED BY <1>3, <1>4, <1>5 DEF IInv

\* markOrderCreated or the link, written or not: the event stays held.
LEMMA RecordKeeps ==
  ASSUME IInv, ~UnackedWrites, NEW w \in Run,
         RecordDocument(w) \/ RecordDocumentFails(w)
  PROVE  IInv'
<1> DEFINE e == cur[w]
<1>1. pc[w] \in Working /\ e \in Event /\ status[e] \in InProcess
  BY CurrentEvent DEF RecordDocument, RecordDocumentFails, Working, RunPc
<1>2. RunsOK' /\ batch' = batch
  <2>1. CASE RecordDocument(w)
    BY <1>1, <2>1, GotoKeepsRuns DEF RecordDocument, IInv, RunPc, Error
  <2>2. CASE RecordDocumentFails(w)
    BY <1>1, <2>2, GotoKeepsRuns DEF RecordDocumentFails, FailAfterSap, IInv, RunPc, Error
  <2> QED BY <2>1, <2>2
<1>3. /\ UNCHANGED <<key, retries, dedupActive, created>>
      /\ status' = status \/ status' = [status EXCEPT ![e] = "sap_order_created"]
  BY DEF RecordDocument, RecordDocumentFails, Recorded
<1>4. StoreOK' /\ \A f \in Event : status'[f] = status[f] \/ status'[f] \in InProcess
  <2>1. CASE status' = status
    BY <2>1, <1>3, SameStore DEF IInv, store
  <2>2. CASE status' = [status EXCEPT ![e] = "sap_order_created"]
    <3>1. StoreOK' /\ \A f \in Event \ {e} : status'[f] = status[f]
      BY <1>1, <1>3, <2>2, StatusKeepsStore DEF IInv, Status
    <3> QED BY <2>2, <3>1, <1>1 DEF InProcess, IInv, StoreOK, StoreType
  <2> QED BY <1>3, <2>1, <2>2
<1>5. HeldInProcess'
  BY <1>2, <1>4, HeldAfterGoto DEF IInv
<1>6. RestType'
  <2>1. UNCHANGED <<checked, docs, unseen, crashes, reopened>> /\ mongoFaults' \in 0..MaxMongoFaults
    BY DEF RecordDocument, RecordDocumentFails, IInv, RestType
  <2>2. key[e] \in links' => key[e] \in links \/ Linked(key[e][1])
    BY DEF RecordDocument, RecordDocumentFails, Recorded
  <2>3. Linked(key[e][1]) => key[e] \in Key
    BY <1>1 DEF Linked, IInv, StoreOK, StoreType, NoKey
  <2>4. links' \subseteq Key
    BY <2>3 DEF RecordDocument, RecordDocumentFails, Recorded, IInv, RestType
  <2> QED BY <2>1, <2>4 DEF IInv, RestType
<1> QED BY <1>2, <1>4, <1>5, <1>6 DEF IInv

\* A status write that closes or releases the current event.
LEMMA CloseKeeps ==
  ASSUME IInv, NEW w \in Run,
         MarkCompleted(w) \/ MarkPostSap(w) \/ MarkFailed(w) \/ Release(w)
  PROVE  IInv'
<1> DEFINE e == cur[w]
<1>1. pc[w] \in Working /\ UNCHANGED <<key, created>> /\ Finish(w)
  BY DEF MarkCompleted, MarkPostSap, MarkFailed, Release, KeepStore, Working, RunPc
<1>2. e \in Event /\ status[e] \in InProcess /\ snap[w][e] \in 0..(MaxRetries - 1)
  BY <1>1, CurrentEvent
<1>3. StoreOK' /\ \A f \in Event \ {e} : status'[f] = status[f]
  <2>1. CASE MarkCompleted(w)
    BY <1>1, <1>2, <2>1, StatusKeepsStore DEF MarkCompleted, Completed, IInv, Status
  <2>2. CASE MarkPostSap(w)
    BY <1>1, <1>2, <2>2, FailedKeepsStore DEF MarkPostSap, IInv, Status
  <2>3. CASE MarkFailed(w)
    <3>1. pc[w] = "failed" /\ Failed(e, FailureStatus(w), FailureRetries(w))
      BY <2>3 DEF MarkFailed
    <3> QED BY <1>1, <1>2, <3>1, FailureOutcome, FailedKeepsStore DEF IInv
  <2>4. CASE Release(w)
    BY <1>1, <1>2, <2>4, FailedKeepsStore DEF Release, IInv, Status
  <2> QED BY <2>1, <2>2, <2>3, <2>4
<1>4. RunsOK' /\ HeldInProcess'
  BY <1>1, <1>3, FinishKeepsRuns, HeldAfterFinish DEF IInv
<1>5. RestType'
  BY <1>2 DEF MarkCompleted, MarkPostSap, MarkFailed, Release, KeepStore, IInv,
     RestType, sap
<1> QED BY <1>3, <1>4, <1>5 DEF IInv

\* A status write that throws: nothing was stored, so the store is as it was
\* whether the run tries again, turns to another write or gives up.
LEMMA ThrowKeeps ==
  ASSUME IInv, ~UnackedWrites, NEW w \in Run,
         \/ MarkCompletedThrows(w) \/ MarkPostSapThrows(w)
         \/ MarkFailedThrows(w) \/ ReleaseThrows(w)
  PROVE  IInv'
<1>1. pc[w] \in Working /\ UNCHANGED store
  BY DEF MarkCompletedThrows, MarkPostSapThrows, MarkFailedThrows, ReleaseThrows,
     KeepStore, Throws, NotSaved, Working, RunPc, store
<1>2. \/ Finish(w)
      \/ \E p \in {"postSap", "release"} : RetryWithoutAuditOr(w, p)
  BY DEF MarkCompletedThrows, MarkPostSapThrows, MarkFailedThrows, ReleaseThrows
<1>3. RunsOK' /\ HeldInProcess'
  <2>1. \A f \in Event : status'[f] = status[f]
    BY <1>1 DEF store
  <2>2. CASE Finish(w)
    BY <1>1, <2>1, <2>2, FinishKeepsRuns, HeldAfterFinish DEF IInv
  <2>3. CASE \E p \in {"postSap", "release"} : RetryWithoutAuditOr(w, p)
    BY <1>1, <2>1, <2>3, RetryKeepsRuns, HeldAfterGoto DEF IInv, RunPc
  <2> QED BY <1>2, <2>2, <2>3
<1>4. RestType'
  <2>1. UNCHANGED <<checked, sap, crashes, reopened>> /\ mongoFaults' \in 0..MaxMongoFaults
    BY DEF MarkCompletedThrows, MarkPostSapThrows, MarkFailedThrows, ReleaseThrows,
       KeepStore, Throws, IInv, RestType
  <2> QED BY <2>1 DEF IInv, RestType, sap
<1>5. StoreOK'
  BY <1>1, SameStore DEF IInv
<1> QED BY <1>3, <1>4, <1>5 DEF IInv

LEMMA NextKeeps ==
  ASSUME IInv, ~UnackedWrites, [Next]_vars
  PROVE  IInv'
<1>1. ASSUME NEW k \in Key, CheckDuplicate(k) \/ CreateEvent(k) \/ LoseInsertRace(k)
      PROVE  IInv'
  BY <1>1, RequestKeeps, CreateEventKeeps
<1>2. ASSUME NEW w \in Run, RunStep(w) \/ AbandonRun(w)
      PROVE  IInv'
  BY <1>2, RunControlKeeps, ClaimEventKeeps, CallKeeps, RecordKeeps, CloseKeeps,
     ThrowKeeps DEF RunStep
<1>3. CASE UNCHANGED vars
  <2>1. UNCHANGED <<store, runState, sap, checked, mongoFaults, crashes, reopened>>
    BY <1>3 DEF vars
  <2>2. StoreOK' /\ RunsOK'
    BY <2>1, SameStore, SameRuns DEF IInv
  <2>3. HeldInProcess' /\ RestType'
    BY <2>1 DEF IInv, HeldInProcess, RestType, store, runState, sap
  <2> QED BY <2>2, <2>3 DEF IInv
<1> QED BY <1>1, <1>2, <1>3 DEF Next
-----------------------------------------------------------------------------
(* The theorems.                                                            *)

LEMMA Invariance ==
  ASSUME ~UnackedWrites
  PROVE  Spec => []IInv
<1>1. ~UnackedWrites
  OBVIOUS
<1>2. Init => IInv
  BY InitOK
<1>3. IInv /\ [Next]_vars => IInv'
  BY <1>1, NextKeeps
<1> QED BY <1>2, <1>3, PTL DEF Spec

\* Every variable keeps its type: in particular retries never exceeds the
\* maxRetries stored in the event.
THEOREM TypeCorrect ==
  ASSUME ~UnackedWrites
  PROVE  Spec => []TypeOK
<1>1. IInv => TypeOK
  BY DEF IInv, StoreOK, StoreType, RunsOK, RunType, RestType, TypeOK
<1> QED BY <1>1, Invariance, PTL

\* The deduplication of webhookEvent.service.js: two open events of one
\* (eventType, deal) never coexist, for any number of requests and runs.
THEOREM OneOpenEvent ==
  ASSUME ~UnackedWrites
  PROVE  Spec => []OneOpenEventPerDeal
<1>1. IInv => OneOpenEventPerDeal
  BY DEF IInv, StoreOK, IndexedIffOpen, IndexUnique, OneOpenEventPerDeal
<1> QED BY <1>1, Invariance, PTL

\* claimWaiting is a lock: overlapping runs never share an event.
THEOREM ClaimExcludes ==
  ASSUME ~UnackedWrites
  PROVE  Spec => []SingleOwner
<1>1. IInv => SingleOwner
  BY DEF IInv, RunsOK
<1> QED BY <1>1, Invariance, PTL

\* handleProcessingError gives an event up exactly when its retries are spent.
THEOREM RetriesSpent ==
  ASSUME ~UnackedWrites
  PROVE  Spec => []ErroredIffRetriesSpent
<1>1. IInv => ErroredIffRetriesSpent
  BY DEF IInv, StoreOK
<1> QED BY <1>1, Invariance, PTL

\* A closed event is written by nobody: the only steps that write a status
\* write a new, a waiting or a held event.
LEMMA SettledStep ==
  ASSUME IInv, ~UnackedWrites, Next, NEW e \in Event, status[e] \in Settled
  PROVE  status'[e] = status[e]
<1> USE DEF Settled, InProcess
<1>1. \A w \in Run : pc[w] \in Working => cur[w] # e
  BY CurrentEvent
<1>2. ASSUME NEW k \in Key, CheckDuplicate(k) \/ CreateEvent(k) \/ LoseInsertRace(k)
      PROVE  status'[e] = status[e]
  BY <1>2 DEF CheckDuplicate, CreateEvent, LoseInsertRace, store, IInv, StoreOK,
              StoreType, UnbornAbsent
<1>3. ASSUME NEW w \in Run, RunStep(w) \/ AbandonRun(w)
      PROVE  status'[e] = status[e]
  <2> USE DEF IInv, StoreOK, StoreType
  <2>1. CASE \/ StartRun(w) \/ ClaimDone(w) \/ AbandonRun(w) \/ NextEvent(w)
             \/ Prepare(w) \/ PatchQuotation(w) \/ CreateDocument(w)
             \/ UpdateHubspot(w)
    BY <2>1 DEF StartRun, ClaimDone, AbandonRun, NextEvent, Prepare, PatchQuotation,
                CreateDocument, UpdateHubspot, store
  <2>2. CASE ClaimEvent(w)
    BY <2>2 DEF ClaimEvent, Claimable
  <2>3. CASE RecordDocument(w) \/ RecordDocumentFails(w)
    BY <1>1, <2>3 DEF RecordDocument, RecordDocumentFails, Recorded, Working, RunPc
  <2>4. CASE MarkCompleted(w) \/ MarkPostSap(w) \/ MarkFailed(w) \/ Release(w)
    BY <1>1, <2>4 DEF MarkCompleted, MarkPostSap, MarkFailed, Release, Completed,
                      Failed, Working, RunPc
  <2>5. CASE \/ MarkCompletedThrows(w) \/ MarkPostSapThrows(w)
             \/ MarkFailedThrows(w) \/ ReleaseThrows(w)
    BY <2>5 DEF MarkCompletedThrows, MarkPostSapThrows, MarkFailedThrows,
                ReleaseThrows, Throws, NotSaved
  <2> QED BY <1>3, <2>1, <2>2, <2>3, <2>4, <2>5 DEF RunStep
<1> QED BY <1>2, <1>3 DEF Next

\* No stale run writes over a closed event, however runs overlap or die.
THEOREM ClosedForGood ==
  ASSUME ~UnackedWrites
  PROVE  Spec => SettledIsFinal
<1>1. ~UnackedWrites
  OBVIOUS
<1>2. IInv /\ [Next]_vars
        => [\A e \in Event : status[e] \in Settled => status'[e] = status[e]]_vars
  BY <1>1, SettledStep
<1> QED BY <1>2, Invariance, PTL DEF Spec, SettledIsFinal
-----------------------------------------------------------------------------
(* The SAP documents. A document counts as explained when SAP's answer was  *)
(* lost or the event was released after it; any other document is the only  *)
(* one of its event and keeps the event open.                               *)

Explained == unseen \union reopened

Accounted(e) == docs[e] = 0 \/ e \in Explained

WithDocument == InProcess \union {"completed", "sap_created_hubspot_error"}

\* The run has SAP's answer in hand, or has found the document linked.
AfterSap(w) ==
    \/ pc[w] \in {"record", "hubspot", "complete", "postSap"}
    \/ pc[w] \in {"failed", "release"} /\ err[w] = "sapCreated"

DocsOpen ==
    \A e \in Event : Accounted(e) \/ (docs[e] = 1 /\ status[e] \in WithDocument)

\* Of the events a run holds, only the current one has a document.
HeldUndone ==
    \A w \in Run : \A e \in batch[w] : Accounted(e) \/ (e = cur[w] /\ AfterSap(w))

DInv == IInv /\ DocsOpen /\ HeldUndone

\* What is explained stays so.
LEMMA AccountedStays ==
  ASSUME Explained \subseteq Explained', NEW e \in Event, docs'[e] = docs[e], Accounted(e)
  PROVE  Accounted(e)'
BY DEF Accounted

\* A step that creates no document and writes only the status of an event that is
\* accounted for, or leaves it with its document.
LEMMA DocsOpenKept ==
  ASSUME DInv, UNCHANGED docs, Explained \subseteq Explained',
         \A e \in Event : \/ Accounted(e)'
                          \/ status'[e] = status[e]
                          \/ status'[e] \in WithDocument
  PROVE  DocsOpen'
<1> SUFFICES ASSUME NEW e \in Event
             PROVE  (Accounted(e) \/ (docs[e] = 1 /\ status[e] \in WithDocument))'
  BY DEF DocsOpen
<1>1. CASE Accounted(e)
  BY <1>1, AccountedStays
<1>2. CASE docs[e] = 1 /\ status[e] \in WithDocument
  BY <1>2
<1> QED BY <1>1, <1>2 DEF DInv, DocsOpen

\* The other runs hold what they held.
LEMMA HeldUndoneKept ==
  ASSUME DInv, UNCHANGED docs, Explained \subseteq Explained', NEW w \in Run,
         \A v \in Run \ {w} : UNCHANGED <<batch[v], cur[v], pc[v], err[v]>>,
         batch'[w] \subseteq Event,
         \A e \in batch'[w] : Accounted(e)' \/ (e = cur'[w] /\ AfterSap(w)')
  PROVE  HeldUndone'
<1> SUFFICES ASSUME NEW v \in Run, NEW e \in batch'[v]
             PROVE  (Accounted(e) \/ (e = cur[v] /\ AfterSap(v)))'
  BY DEF HeldUndone
<1>1. CASE v = w
  BY <1>1
<1>2. CASE v # w
  <2>1. e \in Event /\ e \in batch[v]
    BY <1>2 DEF DInv, IInv, RunsOK, RunType
  <2>2. CASE Accounted(e)
    BY <2>1, <2>2, AccountedStays
  <2>3. CASE e = cur[v] /\ AfterSap(v)
    BY <1>2, <2>3 DEF AfterSap
  <2> QED BY <2>1, <2>2, <2>3 DEF DInv, HeldUndone
<1> QED BY <1>1, <1>2

LEMMA DocsInit == Init => DInv
BY InitOK DEF Init, DInv, DocsOpen, HeldUndone, Accounted

\* Requests create no document; the event inserted had none.
LEMMA DocsOfRequests ==
  ASSUME DInv, NEW k \in Key, CheckDuplicate(k) \/ CreateEvent(k) \/ LoseInsertRace(k)
  PROVE  (DocsOpen /\ HeldUndone)'
<1>1. UNCHANGED <<sap, runState, reopened>>
  BY DEF CheckDuplicate, CreateEvent, LoseInsertRace
<1>2. UNCHANGED docs /\ Explained' = Explained
  BY <1>1 DEF sap, Explained
<1>3. ASSUME NEW e \in Event
      PROVE  Accounted(e)' \/ status'[e] = status[e]
  <2>1. CASE CreateEvent(k)
    <3>1. status[created + 1] = "absent" /\ status' = [status EXCEPT ![created + 1] = "waiting"]
      BY <2>1 DEF CreateEvent, DInv, IInv, StoreOK, StoreType, UnbornAbsent
    <3>2. CASE e = created + 1
      BY <1>2, <3>1, <3>2 DEF DInv, DocsOpen, WithDocument, InProcess, Accounted
    <3>3. CASE e # created + 1
      BY <3>1, <3>3 DEF DInv, IInv, StoreOK, StoreType
    <3> QED BY <3>2, <3>3
  <2>2. CASE CheckDuplicate(k) \/ LoseInsertRace(k)
    BY <2>2 DEF CheckDuplicate, LoseInsertRace, store
  <2> QED BY <2>1, <2>2
<1>4. DocsOpen'
  BY <1>2, <1>3, DocsOpenKept
<1>5. HeldUndone'
  BY <1>1, <1>2 DEF DInv, HeldUndone, Accounted, AfterSap, runState
<1> QED BY <1>4, <1>5

\* A run that starts, claims, turns to an event or dies holds no document it
\* did not account for.
LEMMA DocsOfControl ==
  ASSUME DInv, NEW w \in Run,
         StartRun(w) \/ ClaimEvent(w) \/ ClaimDone(w) \/ AbandonRun(w) \/ NextEvent(w)
  PROVE  (DocsOpen /\ HeldUndone)'
<1> USE DEF DInv
<1>1. UNCHANGED <<sap, reopened>>
  BY DEF StartRun, ClaimEvent, ClaimDone, AbandonRun, NextEvent
<1>2. UNCHANGED docs /\ Explained' = Explained
  BY <1>1 DEF sap, Explained
<1>3. \A v \in Run \ {w} : UNCHANGED <<batch[v], cur[v], pc[v], err[v]>>
  BY DEF StartRun, ClaimEvent, ClaimDone, AbandonRun, NextEvent, IInv, RunsOK, RunType
<1>4. CASE ClaimEvent(w)
  <2>1. PICK e \in Event : /\ status[e] = "waiting"
                           /\ status' = [status EXCEPT ![e] = "inprocess"]
                           /\ batch' = [batch EXCEPT ![w] = @ \union {e}]
    BY <1>4 DEF ClaimEvent, Claimable
  <2>2. Accounted(e)'
    BY <1>2, <2>1 DEF DocsOpen, WithDocument, InProcess, Accounted
  <2>3. DocsOpen'
    BY <1>2, <2>1, <2>2, DocsOpenKept DEF IInv, StoreOK, StoreType
  <2>4. batch'[w] = batch[w] \union {e} /\ batch'[w] \subseteq Event
    BY <2>1 DEF IInv, RunsOK, RunType
  <2>5. \A f \in batch[w] : Accounted(f)'
    BY <1>2, <1>4 DEF ClaimEvent, HeldUndone, AfterSap, Accounted
  <2>6. HeldUndone'
    BY <1>2, <1>3, <2>2, <2>4, <2>5, HeldUndoneKept
  <2> QED BY <2>3, <2>6
<1>5. CASE StartRun(w) \/ ClaimDone(w) \/ AbandonRun(w) \/ NextEvent(w)
  <2>1. UNCHANGED store /\ batch'[w] \subseteq batch[w] /\ batch[w] \subseteq Event
    BY <1>5 DEF StartRun, ClaimDone, AbandonRun, NextEvent, IInv, RunsOK, RunType
  <2>2. DocsOpen'
    BY <1>2, <2>1, DocsOpenKept DEF store
  <2>3. \A e \in batch'[w] : Accounted(e)'
    BY <1>2, <1>5, <2>1 DEF StartRun, ClaimDone, AbandonRun, NextEvent, HeldUndone,
       AfterSap, Accounted, IInv, RunsOK, RunType
  <2>4. HeldUndone'
    BY <1>2, <1>3, <2>1, <2>3, HeldUndoneKept
  <2> QED BY <2>2, <2>4
<1> QED BY <1>4, <1>5

\* A working run that goes on with its event as it was, or with its document
\* in hand where it had it before.
LEMMA GotoKeepsDocs ==
  ASSUME DInv, NEW w \in Run, pc[w] \in Working, NEW p \in RunPc, NEW x \in Error,
         Goto(w, p, x), UNCHANGED <<docs, unseen, reopened>>,
         AfterSap(w) => AfterSap(w)',
         \A e \in Event : status'[e] = status[e] \/ status'[e] \in WithDocument
  PROVE  (DocsOpen /\ HeldUndone)'
<1>1. Explained' = Explained /\ UNCHANGED <<batch, cur>>
  BY DEF Explained, Goto
<1>2. \A v \in Run \ {w} : UNCHANGED <<batch[v], cur[v], pc[v], err[v]>>
  BY DEF Goto, DInv, IInv, RunsOK, RunType
<1>3. DocsOpen'
  BY <1>1, DocsOpenKept
<1>4. batch'[w] \subseteq Event /\ \A e \in batch'[w] : Accounted(e)' \/ (e = cur'[w] /\ AfterSap(w)')
  BY <1>1 DEF DInv, HeldUndone, Accounted, IInv, RunsOK, RunType
<1> QED BY <1>1, <1>2, <1>3, <1>4, HeldUndoneKept

\* A run that is done with its event leaves it with its document, or without.
LEMMA FinishKeepsDocs ==
  ASSUME DInv, NEW w \in Run, pc[w] \in Working, Finish(w),
         UNCHANGED docs, Explained \subseteq Explained', NEW e \in Event, e = cur[w],
         \A f \in Event \ {e} : status'[f] = status[f],
         Accounted(e)' \/ status'[e] = status[e] \/ status'[e] \in WithDocument
  PROVE  (DocsOpen /\ HeldUndone)'
<1>1. /\ batch'[w] = batch[w] \ {cur[w]} /\ batch[w] \subseteq Event
      /\ \A v \in Run \ {w} : UNCHANGED <<batch[v], cur[v], pc[v], err[v]>>
  BY DEF Finish, DInv, IInv, RunsOK, RunType
<1>2. DocsOpen'
  BY DocsOpenKept
<1>3. \A f \in batch'[w] : Accounted(f)'
  BY <1>1, AccountedStays DEF DInv, HeldUndone
<1> QED BY <1>1, <1>2, <1>3, HeldUndoneKept

\* Only the POST creates documents, one for an event that had none.
LEMMA DocsOfCreation ==
  ASSUME DInv, NEW w \in Run, CreateDocument(w)
  PROVE  (DocsOpen /\ HeldUndone)'
<1> DEFINE e == cur[w]
<1>1. /\ pc[w] = "create" /\ UNCHANGED <<status, reopened, batch, cur>>
      /\ e \in Event /\ e \in batch[w] /\ status[e] \in InProcess
  BY CurrentEvent DEF CreateDocument, DInv, Goto, store, Working, RunPc
<1>2. Accounted(e) /\ \A f \in batch[w] : Accounted(f)
  BY <1>1 DEF DInv, HeldUndone, AfterSap
<1>3. /\ \A f \in Event \ {e} : docs'[f] = docs[f]
      /\ Explained \subseteq Explained'
      /\ docs'[e] = docs[e] \/ e \in Explained' \/ (docs'[e] = docs[e] + 1 /\ pc'[w] = "record")
  BY <1>1 DEF CreateDocument, Goto, Explained, DInv, IInv, RestType, RunsOK, RunType
<1>4. \A f \in Event \ {e} : Accounted(f) => Accounted(f)'
  BY <1>3, AccountedStays
<1>5. DocsOpen'
  <2> SUFFICES ASSUME NEW f \in Event
               PROVE  (Accounted(f) \/ (docs[f] = 1 /\ status[f] \in WithDocument))'
    BY DEF DocsOpen
  <2>1. CASE f = e
    BY <1>1, <1>2, <1>3, <2>1 DEF Accounted, WithDocument
  <2>2. CASE f # e
    BY <1>1, <1>3, <1>4, <2>2 DEF DInv, DocsOpen
  <2> QED BY <2>1, <2>2
<1>6. HeldUndone'
  <2> SUFFICES ASSUME NEW v \in Run, NEW f \in batch'[v]
               PROVE  (Accounted(f) \/ (f = cur[v] /\ AfterSap(v)))'
    BY DEF HeldUndone
  <2>0. f \in Event /\ f \in batch[v]
    BY <1>1 DEF DInv, IInv, RunsOK, RunType
  <2>1. CASE v = w
    BY <1>1, <1>2, <1>3, <1>4, <2>0, <2>1 DEF Accounted, AfterSap
  <2>2. CASE v # w
    <3>1. f # e
      BY <1>1, <2>0, <2>2 DEF DInv, IInv, RunsOK, SingleOwner
    <3>2. UNCHANGED <<pc[v], err[v], cur[v]>>
      BY <2>2 DEF CreateDocument, Goto, DInv, IInv, RunsOK, RunType
    <3> QED BY <1>4, <2>0, <3>1, <3>2 DEF DInv, HeldUndone, AfterSap
  <2> QED BY <2>1, <2>2
<1> QED BY <1>5, <1>6

\* The other calls, and the record of the document, keep it in hand.
LEMMA DocsOfCalls ==
  ASSUME DInv, ~UnackedWrites, NEW w \in Run,
         \/ Prepare(w) \/ PatchQuotation(w) \/ UpdateHubspot(w)
         \/ RecordDocument(w) \/ RecordDocumentFails(w)
  PROVE  (DocsOpen /\ HeldUndone)'
<1>1. pc[w] \in Working /\ UNCHANGED <<docs, unseen, reopened>>
  BY DEF Prepare, PatchQuotation, UpdateHubspot, RecordDocument, RecordDocumentFails,
     Working, RunPc, sap
<1>2. PICK p \in RunPc, x \in Error :
        /\ Goto(w, p, x)
        /\ \/ pc[w] \in {"prepare", "create"}
           \/ p \in {"complete", "hubspot"} \/ (p = "failed" /\ x = "sapCreated")
  BY DEF Prepare, PatchQuotation, UpdateHubspot, RecordDocument, RecordDocumentFails,
     FailAfterSap, RunPc, Error
<1>3. AfterSap(w) => AfterSap(w)'
  BY <1>2 DEF AfterSap, Goto, DInv, IInv, RunsOK, RunType
<1>4. \A e \in Event : status'[e] = status[e] \/ status'[e] \in WithDocument
  BY DEF Prepare, PatchQuotation, UpdateHubspot, RecordDocument, RecordDocumentFails,
     Recorded, store, DInv, IInv, StoreOK, StoreType, WithDocument, InProcess
<1> QED BY <1>1, <1>2, <1>3, <1>4, GotoKeepsDocs

\* A status that frees the event is written only without a document, or
\* by the release, which is remembered.
LEMMA DocsOfClosing ==
  ASSUME DInv, NEW w \in Run,
         MarkCompleted(w) \/ MarkPostSap(w) \/ MarkFailed(w) \/ Release(w)
  PROVE  (DocsOpen /\ HeldUndone)'
<1>0. pc[w] \in Working
  BY DEF MarkCompleted, MarkPostSap, MarkFailed, Release, Working, RunPc
<1> PICK e \in Event : e = cur[w]
  BY <1>0, CurrentEvent DEF DInv
<1>1. /\ pc[w] \in Working /\ Finish(w) /\ UNCHANGED docs
      /\ Explained \subseteq Explained' /\ e \in Event /\ e \in batch[w]
  BY CurrentEvent DEF MarkCompleted, MarkPostSap, MarkFailed, Release, KeepStore,
     Working, RunPc, Explained, sap, DInv
<1>2. \A f \in Event \ {e} : status'[f] = status[f]
  BY <1>1 DEF MarkCompleted, MarkPostSap, MarkFailed, Release, Completed, Failed,
     DInv, IInv, StoreOK, StoreType
<1>3. Accounted(e)' \/ status'[e] \in WithDocument
  <2>1. CASE MarkCompleted(w) \/ MarkPostSap(w)
    BY <1>1, <2>1 DEF MarkCompleted, MarkPostSap, Completed, Failed, WithDocument,
       DInv, IInv, StoreOK, StoreType
  <2>2. CASE (MarkFailed(w) \/ Release(w)) /\ err[w] # "sapCreated"
    <3>1. ~AfterSap(w)
      BY <2>2 DEF MarkFailed, Release, AfterSap
    <3> QED BY <1>1, <3>1, AccountedStays DEF DInv, HeldUndone
  <2>3. CASE MarkFailed(w) /\ err[w] = "sapCreated"
    BY <1>1, <2>3 DEF MarkFailed, Failed, FailureStatus, WithDocument, DInv, IInv,
       StoreOK, StoreType
  <2>4. CASE Release(w) /\ err[w] = "sapCreated"
    BY <2>4 DEF Release, Accounted, Explained
  <2> QED BY <2>1, <2>2, <2>3, <2>4
<1> QED BY <1>1, <1>2, <1>3, FinishKeepsDocs

\* A write that throws leaves the event, and what the run knows of it.
LEMMA DocsOfThrows ==
  ASSUME DInv, ~UnackedWrites, NEW w \in Run,
         \/ MarkCompletedThrows(w) \/ MarkPostSapThrows(w)
         \/ MarkFailedThrows(w) \/ ReleaseThrows(w)
  PROVE  (DocsOpen /\ HeldUndone)'
<1>1. pc[w] \in Working /\ UNCHANGED <<status, docs, unseen, reopened>>
  BY DEF MarkCompletedThrows, MarkPostSapThrows, MarkFailedThrows, ReleaseThrows,
     KeepStore, Throws, NotSaved, Working, RunPc, sap
<1>2. Explained' = Explained
  BY <1>1 DEF Explained
<1>3. CASE Finish(w)
  BY <1>1, <1>2, <1>3, CurrentEvent, FinishKeepsDocs DEF DInv
<1>4. CASE \E p \in {"postSap", "release"} : RetryWithoutAuditOr(w, p)
           /\ (p = "release" => pc[w] = "failed")
  <2>1. PICK p \in {"postSap", "release"} :
          RetryWithoutAuditOr(w, p) /\ (p = "release" => pc[w] = "failed")
    BY <1>4
  <2>2. CASE audit[w]
    <3>1. UNCHANGED <<pc, batch, cur, err>>
      BY <2>1, <2>2 DEF RetryWithoutAuditOr
    <3> QED BY <1>1, <1>2, <3>1 DEF DInv, DocsOpen, HeldUndone, Accounted, AfterSap
  <2>3. CASE ~audit[w]
    <3>1. Goto(w, p, err[w]) /\ err[w] \in Error /\ p \in RunPc
      BY <2>1, <2>3 DEF RetryWithoutAuditOr, DInv, IInv, RunsOK, RunType, RunPc
    <3>2. AfterSap(w) => AfterSap(w)'
      BY <2>1, <3>1 DEF AfterSap, Goto, DInv, IInv, RunsOK, RunType
    <3> QED BY <1>1, <3>1, <3>2, GotoKeepsDocs
  <2> QED BY <2>2, <2>3
<1> QED BY <1>3, <1>4 DEF MarkCompletedThrows, MarkPostSapThrows, MarkFailedThrows, ReleaseThrows

LEMMA DocsNext ==
  ASSUME DInv, ~UnackedWrites, [Next]_vars
  PROVE  DInv'
<1>1. IInv'
  BY NextKeeps DEF DInv
<1>2. ASSUME NEW k \in Key, CheckDuplicate(k) \/ CreateEvent(k) \/ LoseInsertRace(k)
      PROVE  (DocsOpen /\ HeldUndone)'
  BY <1>2, DocsOfRequests
<1>3. ASSUME NEW w \in Run, RunStep(w) \/ AbandonRun(w)
      PROVE  (DocsOpen /\ HeldUndone)'
  BY <1>3, DocsOfControl, DocsOfCreation, DocsOfCalls, DocsOfClosing, DocsOfThrows
     DEF RunStep
<1>4. ASSUME UNCHANGED vars
      PROVE  (DocsOpen /\ HeldUndone)'
  BY <1>4 DEF vars, store, sap, runState, DInv, DocsOpen, HeldUndone, Accounted,
     AfterSap, Explained
<1> QED BY <1>1, <1>2, <1>3, <1>4 DEF Next, DInv

LEMMA DocsInvariance ==
  ASSUME ~UnackedWrites
  PROVE  Spec => []DInv
<1>1. ~UnackedWrites
  OBVIOUS
<1>2. DInv /\ [Next]_vars => DInv'
  BY <1>1, DocsNext
<1> QED BY <1>2, DocsInit, PTL DEF Spec

\* A second SAP document of one type for one deal always goes back to an answer
\* that never arrived or to a release after the answer, for any number of
\* events, runs, races, resends, failed writes and crashes.
THEOREM SecondDocumentsExplained ==
  ASSUME ~UnackedWrites
  PROVE  Spec => []DuplicatesExplained
<1>1. DInv => DuplicatesExplained
  <2> SUFFICES ASSUME DInv, NEW e \in Event, NEW f \in Event,
                      key[e] = key[f], Deduplicates(key[e][1]),
                      docs[e] > 0, docs[f] > 0, e = f => docs[e] > 1
               PROVE  e \in Explained \/ f \in Explained
    BY DEF DuplicatesExplained, Explained
  <2>1. docs[e] \in Nat /\ docs[f] \in Nat
    BY DEF DInv, IInv, RestType
  <2>2. CASE e = f
    BY <2>1, <2>2 DEF DInv, DocsOpen, Accounted
  <2>3. CASE e # f
    <3>1. ~(Open(e) /\ Open(f))
      BY <2>3 DEF DInv, IInv, StoreOK, IndexedIffOpen, IndexUnique
    <3> QED BY <2>1, <3>1 DEF DInv, DocsOpen, Accounted, Open, WithDocument, InProcess
  <2> QED BY <2>2, <2>3
<1> QED BY <1>1, DocsInvariance, PTL

\* An event given up, which a user may resend, hides a document only if SAP's
\* answer was lost or the release path forgot it.
THEOREM GivenUpExplained ==
  ASSUME ~UnackedWrites
  PROVE  Spec => []ErroredExplained
<1>1. DInv => ErroredExplained
  <2> SUFFICES ASSUME DInv, NEW e \in Event, status[e] = "errored", docs[e] > 0
               PROVE  e \in Explained
    BY DEF ErroredExplained, Explained
  <2>1. docs[e] \in Nat
    BY DEF DInv, IInv, RestType
  <2> QED BY <2>1 DEF DInv, DocsOpen, Accounted, WithDocument, InProcess
<1> QED BY <1>1, DocsInvariance, PTL
-----------------------------------------------------------------------------
(* The links. A creation under way is the only one of its (type, deal): a   *)
(* linked type is deduplicated, so no other run can write the link.         *)

LinksOfLinked == \A k \in links : Linked(k[1])

CreatesUnlinked == \A w \in Run : pc[w] = "create" => key[cur[w]] \notin links

LInv == IInv /\ LinksOfLinked /\ CreatesUnlinked

\* Two runs in the middle of an event never have the same linked key.
LEMMA LinkedKeysDiffer ==
  ASSUME IInv, NEW v \in Run, NEW w \in Run, v # w,
         pc[v] \in Working, pc[w] \in Working, Linked(key[cur[v]][1])
  PROVE  key[cur[v]] # key[cur[w]]
<1>1. /\ cur[v] \in batch[v] /\ cur[w] \in batch[w]
      /\ cur[v] \in Event /\ cur[w] \in Event
      /\ status[cur[v]] \in InProcess /\ status[cur[w]] \in InProcess
  BY CurrentEvent
<1>2. cur[v] # cur[w]
  BY <1>1 DEF IInv, RunsOK, SingleOwner
<1>3. Deduplicates(key[cur[v]][1])
  BY DEF Linked, Deduplicates, DeduplicatedTypes, AllEventTypes
<1>4. OneOpenEventPerDeal
  BY DEF IInv, StoreOK, IndexedIffOpen, IndexUnique, OneOpenEventPerDeal
<1> QED BY <1>1, <1>2, <1>3, <1>4 DEF OneOpenEventPerDeal, Open, InProcess

LEMMA LinksNext ==
  ASSUME LInv, ~UnackedWrites, [Next]_vars
  PROVE  LInv'
<1>1. IInv'
  BY NextKeeps DEF LInv
<1>2. ASSUME NEW k \in Key, CheckDuplicate(k) \/ CreateEvent(k) \/ LoseInsertRace(k)
      PROVE  (LinksOfLinked /\ CreatesUnlinked)'
  <2>1. UNCHANGED <<links, pc, cur>>
    BY <1>2 DEF CheckDuplicate, CreateEvent, LoseInsertRace, sap, runState
  <2>2. ASSUME NEW w \in Run, pc[w] = "create"
        PROVE  key'[cur[w]] = key[cur[w]]
    <3>1. cur[w] \in Event /\ status[cur[w]] \in InProcess
      BY <2>2, CurrentEvent DEF LInv, Working, RunPc
    <3>2. CASE CreateEvent(k)
      BY <3>1, <3>2 DEF CreateEvent, InProcess, LInv, IInv, StoreOK, StoreType, UnbornAbsent
    <3>3. CASE CheckDuplicate(k) \/ LoseInsertRace(k)
      BY <3>3 DEF CheckDuplicate, LoseInsertRace, store
    <3> QED BY <1>2, <3>2, <3>3
  <2> QED BY <2>1, <2>2 DEF LInv, LinksOfLinked, CreatesUnlinked
<1>3. ASSUME NEW w \in Run, RunStep(w) \/ AbandonRun(w)
      PROVE  (LinksOfLinked /\ CreatesUnlinked)'
  <2> USE DEF LInv
  <2>1. UNCHANGED key /\ \A v \in Run \ {w} : UNCHANGED <<pc[v], cur[v]>>
    BY <1>3 DEF RunStep, AbandonRun, StartRun, ClaimEvent, ClaimDone, NextEvent, Prepare,
       PatchQuotation, CreateDocument, RecordDocument, RecordDocumentFails, UpdateHubspot,
       MarkCompleted, MarkPostSap, MarkFailed, Release, MarkCompletedThrows,
       MarkPostSapThrows, MarkFailedThrows, ReleaseThrows, RetryWithoutAuditOr,
       FailAfterSap, Finish, Goto, KeepStore, store, IInv, RunsOK, RunType
  <2>2. CASE RecordDocument(w) \/ RecordDocumentFails(w)
    <3>1. pc[w] = "record" /\ pc'[w] # "create"
      BY <2>2 DEF RecordDocument, RecordDocumentFails, FailAfterSap, Goto, IInv, RunsOK, RunType
    <3>2. links' = links \/ (Linked(key[cur[w]][1]) /\ links' = links \union {key[cur[w]]})
      BY <2>2 DEF RecordDocument, RecordDocumentFails, Recorded
    <3>3. LinksOfLinked'
      BY <3>2 DEF LinksOfLinked
    <3>4. ASSUME NEW v \in Run, pc'[v] = "create"
          PROVE  key'[cur'[v]] \notin links'
      <4>1. v # w /\ pc[v] = "create" /\ UNCHANGED <<key, cur[v]>>
        BY <2>1, <3>1, <3>4
      <4>2. Linked(key[cur[w]][1]) => key[cur[w]] # key[cur[v]]
        BY <3>1, <4>1, LinkedKeysDiffer DEF Working, RunPc
      <4> QED BY <3>2, <4>1, <4>2 DEF CreatesUnlinked
    <3> QED BY <3>3, <3>4 DEF CreatesUnlinked
  <2>3. CASE ~(RecordDocument(w) \/ RecordDocumentFails(w))
    <3>1. UNCHANGED links
      BY <1>3, <2>3 DEF RunStep, AbandonRun, StartRun, ClaimEvent, ClaimDone, NextEvent,
         Prepare, PatchQuotation, CreateDocument, UpdateHubspot, MarkCompleted, MarkPostSap,
         MarkFailed, Release, MarkCompletedThrows, MarkPostSapThrows, MarkFailedThrows,
         ReleaseThrows, KeepStore, sap
    <3>2. ASSUME pc'[w] = "create"
          PROVE  key[cur'[w]] \notin links
      <4>1. Prepare(w) \/ (pc[w] = "create" /\ cur'[w] = cur[w])
        BY <1>3, <3>2 DEF RunStep, AbandonRun, StartRun, ClaimEvent, ClaimDone, NextEvent,
           PatchQuotation, CreateDocument, RecordDocument, RecordDocumentFails,
           UpdateHubspot, MarkCompleted, MarkPostSap, MarkFailed, Release,
           MarkCompletedThrows, MarkPostSapThrows, MarkFailedThrows, ReleaseThrows,
           RetryWithoutAuditOr, FailAfterSap, Finish, Goto, IInv, RunsOK, RunType
      <4>2. CASE Prepare(w)
        BY <3>2, <4>2 DEF Prepare, Goto, AlreadyLinked, LinksOfLinked, IInv, RunsOK, RunType
      <4> QED BY <4>1, <4>2 DEF CreatesUnlinked
    <3> QED BY <2>1, <3>1, <3>2 DEF LinksOfLinked, CreatesUnlinked
  <2> QED BY <2>2, <2>3
<1>4. ASSUME UNCHANGED vars
      PROVE  (LinksOfLinked /\ CreatesUnlinked)'
  BY <1>4 DEF vars, store, sap, runState, LInv, LinksOfLinked, CreatesUnlinked
<1> QED BY <1>1, <1>2, <1>3, <1>4 DEF Next, LInv

\* The link of an executed (eventType, deal) stops every later creation, also
\* one that another run had begun before the link was written.
THEOREM LinkStopsCreation ==
  ASSUME ~UnackedWrites
  PROVE  Spec => LinkedIsNotRecreated
<1>1. ~UnackedWrites
  OBVIOUS
<1>2. Init => LInv
  BY InitOK DEF Init, LInv, LinksOfLinked, CreatesUnlinked
<1>3. LInv /\ [Next]_vars => LInv'
  BY <1>1, LinksNext
<1>4. ASSUME LInv, Next, NEW e \in Event, key[e] \in links
      PROVE  docs'[e] = docs[e]
  <2>1. ASSUME NEW k \in Key, CheckDuplicate(k) \/ CreateEvent(k) \/ LoseInsertRace(k)
        PROVE  docs'[e] = docs[e]
    BY <2>1 DEF CheckDuplicate, CreateEvent, LoseInsertRace, sap
  <2>2. ASSUME NEW w \in Run, RunStep(w) \/ AbandonRun(w)
        PROVE  docs'[e] = docs[e]
    <3>1. CASE CreateDocument(w)
      BY <1>4, <3>1 DEF CreateDocument, LInv, CreatesUnlinked, IInv, RestType
    <3>2. CASE ~CreateDocument(w)
      BY <2>2, <3>2 DEF RunStep, AbandonRun, StartRun, ClaimEvent, ClaimDone, NextEvent,
         Prepare, PatchQuotation, RecordDocument, RecordDocumentFails, UpdateHubspot,
         MarkCompleted, MarkPostSap, MarkFailed, Release, MarkCompletedThrows,
         MarkPostSapThrows, MarkFailedThrows, ReleaseThrows, KeepStore, sap
    <3> QED BY <3>1, <3>2
  <2> QED BY <1>4, <2>1, <2>2 DEF Next
<1>5. LInv /\ [Next]_vars => [\A e \in Event : key[e] \in links => docs'[e] = docs[e]]_vars
  BY <1>4
<1> QED BY <1>2, <1>3, <1>5, PTL DEF Spec, LinkedIsNotRecreated

-----------------------------------------------------------------------------
(* A least counterexample takes the place of induction over data.              *)

LEMMA Least == ASSUME NEW T, T \subseteq Nat, T # {}
               PROVE  \E x \in T : \A y \in T : x <= y
<1>1. PICK m \in T : TRUE
  OBVIOUS
<1> PICK S : S = 0 .. m
  OBVIOUS
<1>2. IsFiniteSet(S)
  BY <1>1, FS_Interval
<1>3. IsWellFoundedOn(StrictSubsetOrdering(S), FiniteSubsetsOf(S))
  BY FS_StrictSubsetOrderingWellFounded
<1> PICK C : C = {0 .. x : x \in {t \in T : t <= m}}
  OBVIOUS
<1>4. C # {} /\ C \subseteq FiniteSubsetsOf(S)
  <2>1. C # {}
    BY <1>1
  <2>2. FiniteSubsetsOf(S) = SUBSET S
    BY <1>2, FS_FiniteSubsetsOfFinite
  <2>3. \A x \in T : x <= m => 0 .. x \subseteq S
    BY <1>1
  <2>4. C \subseteq SUBSET S
    BY <2>3
  <2> QED
    BY <2>1, <2>2, <2>4
<1>5. \E x \in C : \A y \in C : ~(<<y, x>> \in StrictSubsetOrdering(S))
  BY <1>3, <1>4, WFMin
<1>6. PICK x \in T : x <= m /\ \A y \in C : ~(<<y, 0 .. x>> \in StrictSubsetOrdering(S))
  BY <1>5
<1>7. ASSUME NEW y \in T, y < x PROVE FALSE
  <2>1. 0 .. y \in C
    BY <1>1, <1>6, <1>7
  <2>2. 0 .. y \subseteq 0 .. x /\ 0 .. y # 0 .. x
    BY <1>7
  <2>3. (0 .. y) \in SUBSET S /\ (0 .. x) \in SUBSET S
    BY <1>1, <1>6, <1>7
  <2> QED
    BY <1>6, <2>1, <2>2, <2>3 DEF StrictSubsetOrdering
<1> QED
  BY <1>6, <1>7

-----------------------------------------------------------------------------
(* QuotationLines.  The rows of a quotation have numbers of their own, so that *)
(* the link, read from them in order, names each of them.                      *)

\* Whatever a function makes of a finite set is finite.
LEMMA ImageIsFinite == ASSUME NEW S, IsFiniteSet(S), NEW f PROVE IsFiniteSet({f[x] : x \in S})
<1> PICK T : T = {f[x] : x \in S}
  OBVIOUS
<1> PICK g : g = [x \in S |-> f[x]]
  OBVIOUS
<1>1. g \in Surjection(S, T)
  <2>1. g \in [S -> T]
    OBVIOUS
  <2>2. \A y \in T : \E x \in S : g[x] = y
    OBVIOUS
  <2> QED BY <2>1, <2>2 DEF Surjection
<1> QED BY <1>1, FS_Surjection

\* A finite set of numbers has a greatest.
LEMMA GreatestIsThere ==
    ASSUME NEW S, S \subseteq Nat, IsFiniteSet(S), S # {}
    PROVE  Max(S) \in S /\ \A y \in S : y <= Max(S)
<1> DEFINE HasTop(T) == \E x \in T : \A y \in T : y <= x
           Bad == {k \in Nat : \E T \in SUBSET S : T # {} /\ Cardinality(T) = k /\ ~HasTop(T)}
<1>1. \A T \in SUBSET S : IsFiniteSet(T) /\ Cardinality(T) \in Nat
  BY FS_Subset, FS_CardinalityType
<1>2. Bad = {}
  <2> SUFFICES ASSUME Bad # {} PROVE FALSE
    OBVIOUS
  <2>1. PICK k \in Bad : \A x \in Bad : k <= x
    <3>1. Bad \subseteq Nat
      OBVIOUS
    <3> HIDE DEF Bad
    <3> QED BY <3>1, Least
  <2>2. PICK T \in SUBSET S : T # {} /\ Cardinality(T) = k /\ ~HasTop(T)
    <3> HIDE DEF HasTop
    <3> QED BY <2>1
  <2>3. PICK x \in T : TRUE
    BY <2>2
  <2>4. PICK U \in SUBSET S : U = T \ {x}
    OBVIOUS
  <2>5. Cardinality(U) = k - 1 /\ k - 1 \in Nat /\ k - 1 \notin Bad
    <3>1. Cardinality(U) = k - 1
      BY <1>1, <2>2, <2>3, <2>4, FS_RemoveElement
    <3>2. Cardinality(U) \in Nat /\ k \in Nat
      BY <1>1, <2>2
    <3>3. k - 1 \in Nat /\ ~(k <= k - 1)
      BY <3>1, <3>2
    <3> HIDE DEF Bad
    <3> QED BY <2>1, <3>1, <3>3
  <2>6. CASE U = {}
    <3>1. T = {x} /\ x \in Nat
      BY <2>3, <2>4, <2>6
    <3> QED BY <2>2, <3>1
  <2>7. CASE U # {}
    <3>1. HasTop(U)
      <4> HIDE DEF HasTop
      <4> QED BY <2>5, <2>7
    <3>2. PICK m \in U : \A y \in U : y <= m
      BY <3>1
    <3>3. PICK top : top = IF x <= m THEN m ELSE x
      OBVIOUS
    <3>4. top \in T /\ \A y \in T : y <= top
      <4>1. \A y \in T : y \in Nat /\ (y = x \/ y \in U)
        BY <2>4
      <4> QED BY <2>3, <2>4, <3>2, <3>3, <4>1
    <3> QED BY <2>2, <3>4
  <2> QED BY <2>6, <2>7
<1>3. HasTop(S)
  <2>1. S \in SUBSET S /\ Cardinality(S) \in Nat /\ Cardinality(S) \notin Bad
    <3> HIDE DEF Bad
    <3> QED BY <1>1, <1>2
  <2> HIDE DEF HasTop
  <2> QED BY <2>1
<1>4. \E x \in S : \A y \in S : x >= y
  BY <1>3
<1> QED BY <1>4 DEF Max

\* The least of a set of numbers is one of them.
LEMMA LeastIsThere == ASSUME NEW S, S \subseteq Nat, S # {} PROVE Min(S) \in S
<1>1. \E x \in S : \A y \in S : x <= y
  BY Least
<1> QED BY <1>1 DEF Min

RowFields == {"num", "item", "sku", "open"}

\* Rows of a quotation: finitely many, each with a number of its own.
AreRows(rs) ==
    /\ IsFiniteSet(rs)
    /\ \A r \in rs : DOMAIN r = RowFields /\ r.num \in Nat
    /\ \A r, q \in rs : r.num = q.num => r = q

UpTo(rs, r) == {q \in rs : q.num <= r.num}

\* Every rank is a row's, and no two rows have one rank.
LEMMA RowRanks ==
    ASSUME NEW rs, AreRows(rs)
    PROVE  /\ Cardinality(rs) \in Nat
           /\ \A r \in rs : Cardinality(UpTo(rs, r)) \in 1 .. Cardinality(rs)
           /\ \A r, q \in rs : Cardinality(UpTo(rs, r)) = Cardinality(UpTo(rs, q)) => r = q
           /\ \A k \in 1 .. Cardinality(rs) : \E r \in rs : Cardinality(UpTo(rs, r)) = k
<1> DEFINE Rank(r) == Cardinality(UpTo(rs, r))
<1>1. IsFiniteSet(rs) /\ Cardinality(rs) \in Nat
  BY FS_CardinalityType DEF AreRows
<1>2. \A r \in rs : /\ UpTo(rs, r) \in SUBSET rs /\ r \in UpTo(rs, r) /\ IsFiniteSet(UpTo(rs, r))
                    /\ Rank(r) \in 1 .. Cardinality(rs)
  <2> SUFFICES ASSUME NEW r \in rs
               PROVE  /\ UpTo(rs, r) \in SUBSET rs /\ r \in UpTo(rs, r) /\ IsFiniteSet(UpTo(rs, r))
                      /\ Rank(r) \in 1 .. Cardinality(rs)
    OBVIOUS
  <2>1. UpTo(rs, r) \in SUBSET rs /\ r \in UpTo(rs, r)
    BY DEF UpTo, AreRows
  <2>2. IsFiniteSet(UpTo(rs, r)) /\ Rank(r) <= Cardinality(rs) /\ Rank(r) \in Nat
    BY <1>1, <2>1, FS_Subset, FS_CardinalityType
  <2>3. Rank(r) # 0
    BY <2>1, <2>2, FS_EmptySet
  <2> QED BY <1>1, <2>1, <2>2, <2>3
<1>3. \A r, q \in rs : r.num < q.num => Rank(r) < Rank(q)
  <2> SUFFICES ASSUME NEW r \in rs, NEW q \in rs, r.num < q.num PROVE Rank(r) < Rank(q)
    OBVIOUS
  <2>1. UpTo(rs, r) \in SUBSET UpTo(rs, q)
    BY DEF UpTo, AreRows
  <2>2. q \in UpTo(rs, q) /\ q \notin UpTo(rs, r)
    BY <1>2 DEF UpTo, AreRows
  <2>3. IsFiniteSet(UpTo(rs, q)) /\ Rank(r) \in Nat /\ Rank(q) \in Nat
    BY <1>1, <1>2
  <2>4. Rank(r) <= Rank(q) /\ (Rank(q) = Rank(r) => UpTo(rs, q) = UpTo(rs, r))
    BY <2>1, <2>3, FS_Subset
  <2> QED BY <2>2, <2>3, <2>4
<1>4. \A r, q \in rs : Rank(r) = Rank(q) => r = q
  <2> SUFFICES ASSUME NEW r \in rs, NEW q \in rs, Rank(r) = Rank(q), r # q PROVE FALSE
    OBVIOUS
  <2>1. r.num < q.num \/ q.num < r.num
    BY DEF AreRows
  <2>2. Rank(r) \in Nat /\ Rank(q) \in Nat
    BY <1>1, <1>2
  <2> HIDE DEF Rank
  <2> QED BY <1>3, <2>1, <2>2
<1> DEFINE rank == [r \in rs |-> Rank(r)]
<1>5. rank \in Injection(rs, 1 .. Cardinality(rs))
  <2>1. rank \in [rs -> 1 .. Cardinality(rs)]
    BY <1>2
  <2>2. \A r, q \in rs : rank[r] = rank[q] => r = q
    BY <1>4
  <2> HIDE DEF rank
  <2> QED BY <2>1, <2>2 DEF Injection, IsInjective
<1>6. IsFiniteSet(1 .. Cardinality(rs)) /\ Cardinality(1 .. Cardinality(rs)) = Cardinality(rs)
  BY <1>1, FS_Interval
<1>7. rank \in Surjection(rs, 1 .. Cardinality(rs))
  BY <1>1, <1>5, <1>6, FS_Injection
<1>8. \A k \in 1 .. Cardinality(rs) : \E r \in rs : Rank(r) = k
  BY <1>7 DEF Surjection
<1> QED BY <1>1, <1>2, <1>4, <1>8

\* InOrder lists every row, and only rows.
LEMMA InOrderListsRows ==
    ASSUME NEW rs, AreRows(rs)
    PROVE  /\ DOMAIN InOrder(rs) = 1 .. Cardinality(rs)
           /\ \A n \in 1 .. Cardinality(rs) : InOrder(rs)[n] \in rs
           /\ \A r \in rs : \E n \in 1 .. Cardinality(rs) : InOrder(rs)[n] = r
<1> DEFINE Place(n) == CHOOSE r \in rs : Cardinality(UpTo(rs, r)) = n
<1>1. InOrder(rs) = [n \in 1 .. Cardinality(rs) |-> Place(n)]
  BY DEF InOrder, UpTo
<1>2. \A n \in 1 .. Cardinality(rs) : Place(n) \in rs /\ Cardinality(UpTo(rs, Place(n))) = n
  <2> SUFFICES ASSUME NEW n \in 1 .. Cardinality(rs)
               PROVE  Place(n) \in rs /\ Cardinality(UpTo(rs, Place(n))) = n
    OBVIOUS
  <2>1. \E r \in rs : Cardinality(UpTo(rs, r)) = n
    BY RowRanks
  <2> QED BY <2>1, Zenon
<1> HIDE DEF Place
<1>3. ASSUME NEW r \in rs PROVE \E n \in 1 .. Cardinality(rs) : Place(n) = r
  <2>1. PICK n \in 1 .. Cardinality(rs) : n = Cardinality(UpTo(rs, r))
    BY RowRanks
  <2>2. Place(n) \in rs /\ Cardinality(UpTo(rs, Place(n))) = Cardinality(UpTo(rs, r))
    BY <1>2, <2>1
  <2>3. Place(n) = r
    BY <2>2, RowRanks
  <2> QED BY <2>3
<1> QED BY <1>1, <1>2, <1>3

\* A list of entries: of the link, of a plan.
AreEntries(lines) ==
    \E n \in Nat : lines = [i \in 1 .. n |-> lines[i]] /\ \A i \in 1 .. n : lines[i].num \in Nat

NumsOf(lines) == {l.num : l \in Range(lines)}

\* The link that is read from rows has their numbers.
LEMMA FromSapNamesRows ==
    ASSUME NEW rs, AreRows(rs), NEW items
    PROVE  AreEntries(FromSap(rs, items)) /\ NumsOf(FromSap(rs, items)) = Nums(rs)
<1>1. PICK new : new = FromSap(rs, items)
  OBVIOUS
<1>2. PICK row : row = InOrder(rs)
  OBVIOUS
<1>3. PICK c : c = Cardinality(rs)
  OBVIOUS
<1>4. /\ c \in Nat /\ DOMAIN row = 1 .. c /\ \A n \in 1 .. c : row[n] \in rs
      /\ \A r \in rs : \E n \in 1 .. c : row[n] = r
  BY <1>2, <1>3, RowRanks, InOrderListsRows
<1>5. DOMAIN new = 1 .. c /\ new = [n \in 1 .. c |-> new[n]] /\ \A n \in 1 .. c : new[n].num = row[n].num
  BY <1>4, <1>1, <1>2 DEF FromSap, Entry
<1>6. \A n \in 1 .. c : new[n].num \in Nat
  <2>1. \A r \in rs : r.num \in Nat
    BY DEF AreRows
  <2>2. \A n \in 1 .. c : row[n].num \in Nat
    BY <1>4, <2>1
  <2> QED BY <1>5, <2>2
<1>7. AreEntries(new)
  <2>1. c \in Nat /\ new = [n \in 1 .. c |-> new[n]]
    BY <1>4, <1>5
  <2> QED BY <1>6, <2>1 DEF AreEntries
<1>8. NumsOf(new) = {new[n].num : n \in 1 .. c}
  BY <1>5 DEF NumsOf, Range
<1>9. NumsOf(new) \subseteq Nums(rs)
  BY <1>4, <1>5, <1>8 DEF Nums
<1>10. Nums(rs) \subseteq NumsOf(new)
  BY <1>4, <1>5, <1>8 DEF Nums
<1> QED BY <1>7, <1>9, <1>10, <1>1

\* The numbers of rows and of entries are finitely many.
LEMMA NumsAreFinite ==
    /\ \A rs : AreRows(rs) => IsFiniteSet(Nums(rs)) /\ Nums(rs) \subseteq Nat
    /\ \A lines : AreEntries(lines) => IsFiniteSet(NumsOf(lines)) /\ NumsOf(lines) \subseteq Nat
<1>1. ASSUME NEW rs, AreRows(rs) PROVE IsFiniteSet(Nums(rs)) /\ Nums(rs) \subseteq Nat
  <2> PICK f : f = [r \in rs |-> r.num]
    OBVIOUS
  <2>1. Nums(rs) = {f[r] : r \in rs}
    BY DEF Nums
  <2>2. IsFiniteSet(rs)
    BY <1>1 DEF AreRows
  <2>3. IsFiniteSet({f[r] : r \in rs})
    BY <2>2, ImageIsFinite
  <2> QED BY <1>1, <2>1, <2>3 DEF Nums, AreRows
<1>2. ASSUME NEW lines, AreEntries(lines) PROVE IsFiniteSet(NumsOf(lines)) /\ NumsOf(lines) \subseteq Nat
  <2>1. PICK n \in Nat : lines = [i \in 1 .. n |-> lines[i]] /\ \A i \in 1 .. n : lines[i].num \in Nat
    BY <1>2 DEF AreEntries
  <2> PICK f : f = [i \in 1 .. n |-> lines[i].num]
    OBVIOUS
  <2>2. NumsOf(lines) = {f[i] : i \in 1 .. n}
    BY <2>1 DEF NumsOf, Range
  <2>3. IsFiniteSet(1 .. n)
    BY FS_Interval
  <2>4. IsFiniteSet({f[i] : i \in 1 .. n})
    BY <2>3, ImageIsFinite
  <2> QED BY <2>1, <2>2, <2>4
<1> QED BY <1>1, <1>2


\* An item's row is an entry's, or none.
LEMMA RowIsOfEntry ==
    ASSUME NEW lines, AreEntries(lines), NEW used, NEW i
    PROVE  RowOf(lines, used, i) \in Nat \cup {-1}
<1> PICK free : free = {n \in DOMAIN lines : lines[n].num \notin used}
  OBVIOUS
<1> PICK hits : hits = Hits(lines, free, i)
  OBVIOUS
<1> PICK ways : ways = {w \in 1 .. 3 : hits[w] # {}}
  OBVIOUS
<1>1. PICK m \in Nat : DOMAIN lines = 1 .. m /\ \A n \in 1 .. m : lines[n].num \in Nat
  BY DEF AreEntries
<1>2. \A w \in 1 .. 3 : hits[w] \subseteq 1 .. m
  BY <1>1 DEF Hits
<1>3. RowOf(lines, used, i) = IF ways = {} THEN -1 ELSE lines[Min(hits[Min(ways)])].num
  BY DEF RowOf, FirstHit
<1>4. ASSUME ways # {} PROVE lines[Min(hits[Min(ways)])].num \in Nat
  <2>1. ways \subseteq Nat
    OBVIOUS
  <2>2. Min(ways) \in ways
    BY <1>4, <2>1, LeastIsThere
  <2> PICK w : w = Min(ways)
    OBVIOUS
  <2> PICK those : those = hits[w]
    OBVIOUS
  <2>3. w \in 1 .. 3 /\ those # {}
    BY <2>2
  <2>4. those \subseteq 1 .. m
    BY <1>2, <2>3
  <2>5. those \subseteq Nat
    <3>1. \A x \in 1 .. m : x \in Nat
      OBVIOUS
    <3> QED BY <2>4, <3>1
  <2>6. Min(those) \in those
    BY <2>3, <2>5, LeastIsThere
  <2> QED BY <1>1, <2>4, <2>6
<1> QED BY <1>3, <1>4

\* The next number is past every row's.
LEMMA NextIsNumber ==
    ASSUME NEW lines, AreEntries(lines), NEW rs, AreRows(rs)
    PROVE  NextNum(lines, rs) \in Nat /\ \A r \in rs : r.num < NextNum(lines, rs)
<1> PICK S : S = Nums(rs) \cup NumsOf(lines)
  OBVIOUS
<1>1. IsFiniteSet(S) /\ S \subseteq Nat
  BY NumsAreFinite, FS_Union
<1>2. NextNum(lines, rs) = IF rs = {} /\ lines = <<>> THEN 0 ELSE Max(S) + 1
  BY DEF NextNum, NumsOf
<1>3. CASE rs = {} /\ lines = <<>>
  BY <1>2, <1>3
<1>4. CASE ~(rs = {} /\ lines = <<>>)
  <2>1. S # {}
    <3>1. CASE rs # {}
      BY <3>1 DEF Nums
    <3>2. CASE lines # <<>>
      <4>1. PICK m \in Nat : lines = [n \in 1 .. m |-> lines[n]]
        BY DEF AreEntries
      <4>2. m # 0
        BY <3>2, <4>1
      <4>3. lines[1].num \in NumsOf(lines)
        BY <4>1, <4>2 DEF NumsOf, Range
      <4> QED BY <4>3
    <3> QED BY <1>4, <3>1, <3>2
  <2>2. Max(S) \in Nat /\ \A y \in S : y <= Max(S)
    BY <1>1, <2>1, GreatestIsThere
  <2>3. \A r \in rs : r.num \in S /\ r.num \in Nat
    BY DEF Nums, AreRows
  <2>4. NextNum(lines, rs) = Max(S) + 1
    BY <1>2, <1>4
  <2> PICK top : top = Max(S)
    OBVIOUS
  <2>5. top \in Nat /\ NextNum(lines, rs) = top + 1 /\ \A r \in rs : r.num \in Nat /\ r.num <= top
    BY <2>2, <2>3, <2>4
  <2> QED BY <2>5
<1> QED BY <1>3, <1>4

PlanEntry == [item : LineItems, new : BOOLEAN, num : Nat]

\* The entries of a plan whose new rows are numbered from next on.
PlanEntries(next) == {p \in PlanEntry : p.new => p.num >= next}

\* A plan has an entry with a number for each item, and no number of a row for a new one.
LEMMA PlanHasNumbers ==
    ASSUME NEW items \in Seq(LineItems), NEW lines, AreEntries(lines), NEW rs, AreRows(rs), NEW P,
           P = PlanEntries(NextNum(lines, rs))
    PROVE  PlanFor(items, lines, rs) \in Seq(P) /\ Len(PlanFor(items, lines, rs)) = Len(items)
<1> DEFINE N == Len(items)
           Extended(before, i) ==
             LET used == {p.num : p \in {q \in Range(before) : ~q.new}}
                 num == RowOf(lines, used, i)
                 added == Cardinality({k \in DOMAIN before : before[k].new})
             IN Append(before, [item |-> i, new |-> num = -1,
                                num |-> IF num = -1 THEN NextNum(lines, rs) + added ELSE num])
           Plan(f) == [n \in 0 .. N |-> IF n = 0 THEN <<>> ELSE Extended(f[n - 1], items[n])]
           Good(k, f) == \A n \in 0 .. k : f[n] = IF n = 0 THEN <<>> ELSE Extended(f[n - 1], items[n])
           Bad == {k \in 0 .. N : ~\E f : Good(k, f)}
<1>1. N \in Nat /\ \A n \in 1 .. N : items[n] \in LineItems
  OBVIOUS
<1>2. ASSUME NEW before \in Seq(P), NEW i \in LineItems
      PROVE  Extended(before, i) \in Seq(P) /\ Len(Extended(before, i)) = Len(before) + 1
  <2> PICK used : used = {p.num : p \in {q \in Range(before) : ~q.new}}
    OBVIOUS
  <2> PICK num : num = RowOf(lines, used, i)
    OBVIOUS
  <2> PICK old : old = {k \in DOMAIN before : before[k].new}
    OBVIOUS
  <2> PICK entry : entry = [item |-> i, new |-> num = -1,
                            num |-> IF num = -1 THEN NextNum(lines, rs) + Cardinality(old) ELSE num]
    OBVIOUS
  <2>1. Cardinality(old) \in Nat
    <3>1. Len(before) \in Nat /\ old \in SUBSET (1 .. Len(before))
      OBVIOUS
    <3>2. IsFiniteSet(1 .. Len(before))
      BY <3>1, FS_Interval
    <3> QED BY <3>1, <3>2, FS_Subset, FS_CardinalityType
  <2>2. num \in Nat \cup {-1} /\ NextNum(lines, rs) \in Nat
    BY RowIsOfEntry, NextIsNumber
  <2>3. entry \in P
    <3> PICK next, count : next = NextNum(lines, rs) /\ count = Cardinality(old)
      OBVIOUS
    <3>1. next \in Nat /\ count \in Nat /\ num \in Nat \cup {-1}
      BY <2>1, <2>2
    <3>2. entry = [item |-> i, new |-> num = -1, num |-> IF num = -1 THEN next + count ELSE num]
      OBVIOUS
    <3>3. entry.item = i /\ entry.new = (num = -1) /\ entry.num = IF num = -1 THEN next + count ELSE num
      BY <3>2
    <3>4. (IF num = -1 THEN next + count ELSE num) \in Nat /\ (num = -1 => next + count >= next)
      BY <3>1
    <3>5. entry.num \in Nat /\ (entry.new => entry.num >= next)
      <4>1. CASE num = -1
        BY <3>3, <3>4, <4>1
      <4>2. CASE num # -1
        BY <3>3, <3>4, <4>2
      <4> QED BY <4>1, <4>2
    <3>6. entry \in PlanEntry
      BY <1>2, <3>2, <3>3, <3>5 DEF PlanEntry
    <3> QED BY <3>5, <3>6 DEF PlanEntries
  <2>4. Extended(before, i) = Append(before, entry)
    OBVIOUS
  <2> HIDE DEF Extended
  <2> QED BY <2>3, <2>4, AppendProperties
<1> HIDE DEF Extended
<1>3. Bad = {}
  <2> SUFFICES ASSUME Bad # {} PROVE FALSE
    OBVIOUS
  <2>1. PICK k \in Bad : \A x \in Bad : k <= x
    <3>1. Bad \subseteq Nat
      BY <1>1
    <3> HIDE DEF Bad
    <3> QED BY <3>1, Least
  <2>2. k \in 0 .. N /\ ~\E f : Good(k, f)
    <3> HIDE DEF Good
    <3> QED BY <2>1
  <2>3. k # 0
    <3>1. Good(0, [n \in {0} |-> <<>>])
      OBVIOUS
    <3> HIDE DEF Good
    <3> QED BY <2>2, <3>1
  <2>4. PICK f : Good(k - 1, f)
    <3>1. k - 1 \in 0 .. N /\ k - 1 \notin Bad
      <4>1. k - 1 \in 0 .. N /\ ~(k <= k - 1)
        BY <1>1, <2>2, <2>3
      <4> HIDE DEF Bad
      <4> QED BY <2>1, <4>1
    <3> HIDE DEF Good
    <3> QED BY <3>1
  <2> DEFINE g == [n \in 0 .. k |-> IF n = k THEN Extended(f[n - 1], items[n]) ELSE f[n]]
  <2>5. \A n \in 0 .. k : g[n] = IF n = k THEN Extended(f[n - 1], items[n]) ELSE f[n]
    OBVIOUS
  <2> HIDE DEF g
  <2>6. ASSUME NEW n \in 0 .. k PROVE g[n] = IF n = 0 THEN <<>> ELSE Extended(g[n - 1], items[n])
    <3>1. n # 0 => g[n - 1] = f[n - 1]
      <4>1. n # 0 => n - 1 \in 0 .. k /\ n - 1 # k
        BY <1>1, <2>2
      <4> QED BY <2>5, <4>1
    <3>2. CASE n = k
      BY <2>3, <2>5, <3>1, <3>2
    <3>3. CASE n # k
      <4>1. n \in 0 .. k - 1
        BY <1>1, <2>2, <3>3
      <4>2. g[n] = f[n]
        BY <2>5, <3>3
      <4> QED BY <2>4, <3>1, <4>1, <4>2
    <3> QED BY <3>2, <3>3
  <2>7. Good(k, g)
    BY <2>6
  <2> HIDE DEF Good
  <2> QED BY <2>2, <2>7
<1>4. PICK f : Good(N, f)
  <2>1. N \in 0 .. N /\ N \notin Bad
    <3> HIDE DEF Bad
    <3> QED BY <1>1, <1>3
  <2> HIDE DEF Good
  <2> QED BY <2>1
<1> PICK h : h = [n \in 0 .. N |-> f[n]]
  OBVIOUS
<1>5. h = Plan(h)
  <2>1. ASSUME NEW n \in 0 .. N PROVE h[n] = IF n = 0 THEN <<>> ELSE Extended(h[n - 1], items[n])
    <3>1. n # 0 => n - 1 \in 0 .. N
      BY <1>1
    <3> HIDE DEF N
    <3> QED BY <1>4, <3>1
  <2> HIDE DEF N
  <2> QED BY <2>1
<1> DEFINE plan == CHOOSE p : p = Plan(p)
<1>6. plan = Plan(plan)
  <2> HIDE DEF Plan
  <2> QED BY <1>5
<1>7. PlanFor(items, lines, rs) = plan[N]
  BY DEF PlanFor, Extended
<1> PICK g : g = plan
  OBVIOUS
<1>8. \A n \in 0 .. N : g[n] = IF n = 0 THEN <<>> ELSE Extended(g[n - 1], items[n])
  <2>1. g = Plan(g)
    <3> HIDE DEF Plan, plan
    <3> QED BY <1>6
  <2> HIDE DEF plan, N
  <2> QED BY <2>1
<1>9. PlanFor(items, lines, rs) = g[N]
  BY <1>7
<1> HIDE DEF plan, Plan, Good, Bad
<1> DEFINE Wrong == {n \in 0 .. N : ~(g[n] \in Seq(P) /\ Len(g[n]) = n)}
<1>10. Wrong = {}
  <2> SUFFICES ASSUME Wrong # {} PROVE FALSE
    OBVIOUS
  <2>1. PICK n \in Wrong : \A x \in Wrong : n <= x
    <3>1. Wrong \subseteq Nat
      BY <1>1
    <3> HIDE DEF Wrong
    <3> QED BY <3>1, Least
  <2>2. n \in 0 .. N /\ ~(g[n] \in Seq(P) /\ Len(g[n]) = n)
    BY <2>1
  <2>3. n # 0
    <3>1. n = 0 => g[n] = <<>>
      BY <1>8, <2>2
    <3>2. <<>> \in Seq(P) /\ Len(<<>>) = 0
      OBVIOUS
    <3> QED BY <2>2, <3>1, <3>2
  <2>4. n - 1 \in 0 .. N /\ n \in 1 .. N /\ ~(n <= n - 1)
    BY <1>1, <2>2, <2>3
  <2>5. g[n - 1] \in Seq(P) /\ Len(g[n - 1]) = n - 1
    BY <2>1, <2>4
  <2>6. g[n] = Extended(g[n - 1], items[n])
    BY <1>8, <2>2, <2>3
  <2>7. g[n] \in Seq(P) /\ Len(g[n]) = Len(g[n - 1]) + 1
    BY <1>1, <1>2, <2>4, <2>5, <2>6
  <2> QED BY <1>1, <2>2, <2>5, <2>7
<1>11. N \in 0 .. N /\ N \notin Wrong
  BY <1>1, <1>10
<1> QED BY <1>9, <1>11


UpdateFields == {"pc", "items", "plan", "read", "tries"}

\* A new entry has no row's number.
NewAreNew(job) == \A p \in Range(job.plan) : p.new => p.num \notin Nums(job.read)

\* What an update knows.
KnowsLines(job) ==
    /\ DOMAIN job = UpdateFields /\ job.items \in Seq(LineItems)
    /\ AreRows(job.read) /\ AreEntries(job.plan)
    /\ job.pc = "patch" => NumsOf(job.plan) # {} /\ NewAreNew(job)

\* The link names the rows, unless they have changed since; a conversion has an item for
\* each entry of the link it read.
LinesInv ==
    /\ dealItems \in Seq(LineItems)
    /\ AreRows(rows) /\ rows # {}
    /\ AreEntries(link)
    /\ DOMAIN update = Updates /\ \A u \in Updates : KnowsLines(update[u])
    /\ DOMAIN convert = UpdateFields
    /\ convert.pc = "post" => DOMAIN convert.plan[2] = NumsOf(convert.plan[1])
    /\ drifted \/ NumsOf(link) = Nums(rows)

LEMMA NothingRead == AreRows({}) /\ AreEntries(<<>>) /\ NumsOf(<<>>) = {}
<1>1. AreRows({})
  BY FS_EmptySet DEF AreRows
<1>2. <<>> = [i \in 1 .. 0 |-> <<>>[i]] /\ DOMAIN <<>> = {}
  OBVIOUS
<1> QED BY <1>1, <1>2 DEF AreEntries, NumsOf, Range

LEMMA WaitingKnows == ASSUME NEW label, NEW items \in Seq(LineItems), NEW tries, label # "patch", NEW job,
                             job = [Waiting EXCEPT !.pc = label, !.items = items, !.tries = tries]
                      PROVE  KnowsLines(job)
<1>1. /\ DOMAIN job = UpdateFields /\ job.items = items /\ job.read = {} /\ job.plan = <<>>
      /\ job.pc = label
  BY DEF Waiting, UpdateFields
<1> QED BY <1>1, NothingRead DEF KnowsLines

\* The entries of a quotation just created are those of its rows.
LEMMA LinesFirst == ASSUME LineInit PROVE LinesInv
<1> PICK n \in Nat : n = Len(FirstItems)
  BY LinesAssumption
<1>1. DOMAIN FirstItems = 1 .. n /\ n # 0 /\ \A k \in 1 .. n : FirstItems[k] \in LineItems
  BY LinesAssumption
<1>0. PICK row : row = [k \in 1 .. n |-> [num |-> k - 1, item |-> FirstItems[k],
                                        sku |-> Sku[FirstItems[k]], open |-> TRUE]]
  OBVIOUS
<1>2. rows = {row[k] : k \in 1 .. n}
  BY <1>0, <1>1 DEF LineInit, CreatedRows
<1>3. \A k \in 1 .. n : row[k].num = k - 1 /\ DOMAIN row[k] = RowFields
  BY <1>0 DEF RowFields
<1>4. AreRows(rows) /\ rows # {}
  <2>1. IsFiniteSet(rows)
    <3>1. IsFiniteSet(1 .. n)
      BY FS_Interval
    <3> QED BY <1>2, <3>1, ImageIsFinite
  <2>2. rows # {}
    <3>1. 1 \in 1 .. n
      BY <1>1
    <3> QED BY <1>2, <3>1
  <2>3. \A r \in rows : DOMAIN r = RowFields /\ r.num \in Nat
    BY <1>2, <1>3
  <2>4. \A r, q \in rows : r.num = q.num => r = q
    BY <1>2, <1>3
  <2> QED BY <2>1, <2>2, <2>3, <2>4 DEF AreRows
<1>5. DOMAIN link = 1 .. n /\ link = [k \in 1 .. n |-> link[k]] /\ \A k \in 1 .. n : link[k].num = k - 1
  BY <1>1 DEF LineInit, CreatedLink, Entry
<1>6. AreEntries(link)
  BY <1>5 DEF AreEntries
<1>7. NumsOf(link) = Nums(rows)
  <2>1. NumsOf(link) = {k - 1 : k \in 1 .. n}
    BY <1>5 DEF NumsOf, Range
  <2>2. Nums(rows) = {k - 1 : k \in 1 .. n}
    BY <1>2, <1>3 DEF Nums
  <2> QED BY <2>1, <2>2
<1>8. KnowsLines(Waiting) /\ DOMAIN Waiting = UpdateFields /\ Waiting.pc # "post"
  BY NothingRead DEF KnowsLines, Waiting, UpdateFields
<1> QED BY <1>4, <1>6, <1>7, <1>8, LinesAssumption DEF LinesInv, LineInit

\* A step of an update that leaves rows and link alone.
LEMMA UpdateKnows ==
    ASSUME LinesInv, NEW u \in Updates, NEW new, KnowsLines(new), UpdateGoes(u, new)
    PROVE  DOMAIN update' = Updates /\ \A v \in Updates : KnowsLines(update'[v])
<1>1. update' = [update EXCEPT ![u] = new] /\ DOMAIN update = Updates
  BY DEF UpdateGoes, LinesInv
<1>2. \A v \in Updates : update'[v] = IF v = u THEN new ELSE update[v]
  BY <1>1
<1>3. \A v \in Updates : KnowsLines(update[v])
  BY DEF LinesInv
<1> QED BY <1>1, <1>2, <1>3

LEMMA UpdateFailsKnows ==
    ASSUME LinesInv, NEW u \in Updates, UpdateFails(u)
    PROVE  DOMAIN update' = Updates /\ \A v \in Updates : KnowsLines(update'[v])
<1> PICK label : label = IF update[u].tries + 1 = MaxLineTries THEN "errored" ELSE "sent"
  OBVIOUS
<1> PICK items : items = update[u].items
  OBVIOUS
<1> PICK tries : tries = update[u].tries + 1
  OBVIOUS
<1> PICK new : new = [Waiting EXCEPT !.pc = label, !.items = items, !.tries = tries]
  OBVIOUS
<1>1. items \in Seq(LineItems) /\ label # "patch"
  BY DEF LinesInv, KnowsLines
<1>2. KnowsLines(new)
  BY <1>1, WaitingKnows
<1>3. UpdateGoes(u, new)
  BY DEF UpdateFails, UpdateGoes, Waiting
<1> QED BY <1>2, <1>3, UpdateKnows

LEMMA UpdateEndsKnows ==
    ASSUME LinesInv, NEW u \in Updates, NEW label, label # "patch", UpdateEnds(u, label)
    PROVE  DOMAIN update' = Updates /\ \A v \in Updates : KnowsLines(update'[v])
<1> PICK new : new = [Waiting EXCEPT !.pc = label]
  OBVIOUS
<1>1. KnowsLines(new)
  BY NothingRead DEF KnowsLines, Waiting, UpdateFields
<1> QED BY <1>1, UpdateKnows DEF UpdateEnds

\* What a PATCH makes of the rows are rows.
LEMMA ReplacedAreRows ==
    ASSUME NEW plan, AreEntries(plan), NumsOf(plan) # {}
    PROVE  AreRows(Replaced(plan)) /\ Replaced(plan) # {}
<1> PICK S : S = NumsOf(plan)
  OBVIOUS
<1>0. PICK f : f = [num \in S |->
      [num |-> num, open |-> TRUE, item |-> ItemGiven(plan, num),
       sku |-> IF num \in Nums(rows) /\ ~(\E p \in Range(plan) : p.num = num /\ p.new)
               THEN (CHOOSE r \in rows : r.num = num).sku ELSE Sku[ItemGiven(plan, num)]]]
  OBVIOUS
<1>1. Replaced(plan) = {f[num] : num \in S}
  BY <1>0 DEF Replaced, NumsOf
<1>2. \A num \in S : f[num].num = num /\ DOMAIN f[num] = RowFields
  BY <1>0 DEF RowFields
<1>3. IsFiniteSet(S) /\ S \subseteq Nat /\ S # {}
  BY NumsAreFinite
<1>4. IsFiniteSet({f[num] : num \in S})
  BY <1>3, ImageIsFinite
<1> QED BY <1>1, <1>2, <1>3, <1>4 DEF AreRows


\* Whatever people make of the deal's line items, it has a list of them.
LEMMA DealsKeep ==
    ASSUME LinesInv, AddLineItem \/ RemoveLineItem \/ MoveLineItems
    PROVE  dealItems' \in Seq(LineItems)
<1> PICK n \in Nat : n = Len(dealItems)
  BY DEF LinesInv
<1>1. dealItems \in Seq(LineItems) /\ DOMAIN dealItems = 1 .. n /\ \A k \in 1 .. n : dealItems[k] \in LineItems
  BY DEF LinesInv
<1>2. \A k, l \in Int : 1 <= k /\ l <= n => SubSeq(dealItems, k, l) \in Seq(LineItems)
  <2> SUFFICES ASSUME NEW k \in Int, NEW l \in Int, 1 <= k, l <= n PROVE SubSeq(dealItems, k, l) \in Seq(LineItems)
    OBVIOUS
  <2>1. \A x \in k .. l : dealItems[x] \in LineItems
    BY <1>1
  <2> QED BY <2>1, SubSeqProperties
<1>3. CASE AddLineItem
  <2>1. PICK i \in LineItems, k \in 1 .. (n + 1) : dealItems' = InsertAt(dealItems, k, i)
    BY <1>3 DEF AddLineItem, ChangeDeal
  <2>2. SubSeq(dealItems, 1, k - 1) \in Seq(LineItems) /\ SubSeq(dealItems, k, n) \in Seq(LineItems)
    BY <1>2
  <2>3. <<i>> \in Seq(LineItems)
    OBVIOUS
  <2>4. SubSeq(dealItems, 1, k - 1) \o <<i>> \in Seq(LineItems)
    BY <2>2, <2>3, ConcatProperties
  <2> QED BY <2>1, <2>2, <2>4, ConcatProperties DEF InsertAt
<1>4. CASE RemoveLineItem
  <2>1. PICK k \in 1 .. n : dealItems' = RemoveAt(dealItems, k)
    BY <1>1, <1>4 DEF RemoveLineItem, ChangeDeal
  <2>2. SubSeq(dealItems, 1, k - 1) \in Seq(LineItems) /\ SubSeq(dealItems, k + 1, n) \in Seq(LineItems)
    BY <1>2
  <2> QED BY <2>1, <2>2, ConcatProperties DEF RemoveAt
<1>5. CASE MoveLineItems
  <2>1. dealItems' = [k \in 1 .. n |-> dealItems[(n - k) + 1]]
    BY <1>5 DEF MoveLineItems, ChangeDeal, Reverse
  <2>2. \A k \in 1 .. n : dealItems[(n - k) + 1] \in LineItems
    BY <1>1
  <2> QED BY <2>1, <2>2
<1> QED BY <1>3, <1>4, <1>5

\* A row typed in SAP has a number that no row has.
LEMMA NumberedIsFinite ==
    ASSUME LinesInv
    PROVE  /\ Max(Numbered) \in Nat /\ \A r \in rows : r.num <= Max(Numbered)
<1> PICK plans : plans = [u \in Updates |-> NumsOf(update[u].plan)]
  OBVIOUS
<1> PICK P : P = {plans[u] : u \in Updates}
  OBVIOUS
<1>1. \A T \in P : IsFiniteSet(T) /\ T \subseteq Nat
  <2>1. \A u \in Updates : AreEntries(update[u].plan)
    BY DEF LinesInv, KnowsLines
  <2> QED BY <2>1, NumsAreFinite
<1>2. IsFiniteSet(P)
  BY ImageIsFinite, LinesAssumption
<1>3. IsFiniteSet(UNION P) /\ UNION P \subseteq Nat
  BY <1>1, <1>2, FS_UNION
<1>4. /\ IsFiniteSet(Nums(rows)) /\ Nums(rows) \subseteq Nat
      /\ IsFiniteSet(NumsOf(link)) /\ NumsOf(link) \subseteq Nat
  BY NumsAreFinite DEF LinesInv
<1> PICK S : S = (Nums(rows) \union NumsOf(link)) \union UNION P
  OBVIOUS
<1>5. Numbered = S
  <2>1. P = {{p.num : p \in Range(update[u].plan)} : u \in Updates}
    BY DEF NumsOf
  <2> QED BY <2>1 DEF Numbered, NumsOf
<1>6. IsFiniteSet(Nums(rows) \union NumsOf(link))
  BY <1>4, FS_Union
<1>7. IsFiniteSet(S) /\ S \subseteq Nat
  BY <1>3, <1>4, <1>6, FS_Union
<1>8. \A r \in rows : r.num \in S
  BY DEF Nums
<1>9. S # {}
  BY <1>8 DEF LinesInv
<1>10. Max(S) \in S /\ \A y \in S : y <= Max(S)
  BY <1>7, <1>9, GreatestIsThere
<1> QED BY <1>5, <1>7, <1>8, <1>10

\* People's changes leave rows with numbers of their own.
LEMMA ChangesKeepRows ==
    ASSUME LinesInv, AddRow \/ RemoveRow \/ CloseRow
    PROVE  AreRows(rows') /\ rows' # {} /\ (drifted' \/ Nums(rows)' = Nums(rows))
<1>1. AreRows(rows) /\ IsFiniteSet(rows) /\ rows # {}
  BY DEF LinesInv, AreRows
<1>2. drifted' \/ Nums(rows)' = Nums(rows)
  BY DEF AddRow, RemoveRow, CloseRow, ChangeRows, Nums
<1>3. CASE AddRow
  <2>1. PICK i \in LineItems : rows' = rows \union {[num |-> Max(Numbered) + 1, item |-> NoItem,
                                                     sku |-> Sku[i], open |-> TRUE]}
    BY <1>3 DEF AddRow, ChangeRows
  <2>2. PICK new : new = [num |-> Max(Numbered) + 1, item |-> NoItem, sku |-> Sku[i], open |-> TRUE]
    OBVIOUS
  <2>3. DOMAIN new = RowFields /\ new.num = Max(Numbered) + 1
    BY <2>2 DEF RowFields
  <2>4. rows' = rows \union {new}
    BY <2>1, <2>2
  <2>5. IsFiniteSet(rows')
    BY <1>1, <2>4, FS_AddElement
  <2>6. new.num \in Nat /\ \A r \in rows : r.num \in Nat /\ r.num # new.num
    BY <1>1, <2>3, NumberedIsFinite DEF AreRows
  <2> QED BY <1>1, <1>2, <2>3, <2>4, <2>5, <2>6 DEF AreRows
<1>4. CASE RemoveRow
  <2>1. PICK r \in rows : Cardinality(rows) > 1 /\ rows' = rows \ {r}
    BY <1>4 DEF RemoveRow, ChangeRows
  <2>2. IsFiniteSet(rows') /\ Cardinality(rows') = Cardinality(rows) - 1
    BY <1>1, <2>1, FS_RemoveElement
  <2>3. Cardinality(rows) \in Nat
    BY <1>1, FS_CardinalityType
  <2>4. Cardinality(rows') # 0
    BY <2>1, <2>2, <2>3
  <2>5. rows' # {}
    BY <2>4, FS_EmptySet
  <2> QED BY <1>1, <1>2, <2>1, <2>2, <2>5 DEF AreRows
<1>5. CASE CloseRow
  <2>1. PICK r \in rows : rows' = (rows \ {r}) \union {[r EXCEPT !.open = FALSE]}
    BY <1>5 DEF CloseRow, ChangeRows
  <2>2. PICK new : new = [r EXCEPT !.open = FALSE]
    OBVIOUS
  <2>3. DOMAIN new = RowFields /\ new.num = r.num
    BY <1>1, <2>2 DEF AreRows, RowFields
  <2>4. IsFiniteSet(rows \ {r})
    BY <1>1, FS_RemoveElement
  <2>5. rows' = (rows \ {r}) \union {new}
    BY <2>1, <2>2
  <2>6. IsFiniteSet(rows')
    BY <2>4, <2>5, FS_AddElement
  <2>7. \A q \in rows \ {r} : q.num # new.num
    BY <1>1, <2>3 DEF AreRows
  <2> QED BY <1>1, <1>2, <2>3, <2>5, <2>6, <2>7 DEF AreRows
<1> QED BY <1>3, <1>4, <1>5

\* The rows of an order are closed, and stay.
LEMMA OrderKeepsRows ==
    ASSUME LinesInv, NEW closed, rows' = {[r EXCEPT !.open = r.num \notin closed] : r \in rows}
    PROVE  AreRows(rows') /\ rows' # {} /\ Nums(rows)' = Nums(rows)
<1>1. AreRows(rows) /\ IsFiniteSet(rows) /\ rows # {}
  BY DEF LinesInv, AreRows
<1>2. PICK f : f = [r \in rows |-> [r EXCEPT !.open = r.num \notin closed]]
  OBVIOUS
<1>3. rows' = {f[r] : r \in rows}
  BY <1>2
<1>4. \A r \in rows : f[r].num = r.num /\ DOMAIN f[r] = RowFields
  BY <1>1, <1>2 DEF AreRows, RowFields
<1>5. IsFiniteSet(rows')
  BY <1>1, <1>3, ImageIsFinite
<1>6. rows' # {}
  BY <1>1, <1>3
<1>7. \A q \in rows' : \E r \in rows : q = f[r]
  BY <1>3
<1>8. \A q, p \in rows' : q.num = p.num => q = p
  BY <1>1, <1>4, <1>7 DEF AreRows
<1>9. AreRows(rows')
  BY <1>1, <1>4, <1>5, <1>7, <1>8 DEF AreRows
<1>10. Nums(rows') = Nums(rows)
  BY <1>3, <1>4 DEF Nums
<1> QED BY <1>6, <1>9, <1>10 DEF Nums


\* A step that leaves the rows and the link alone.
LEMMA KnowledgeKeeps ==
    ASSUME LinesInv, UNCHANGED <<rows, link, drifted, convert>>, dealItems' \in Seq(LineItems),
           DOMAIN update' = Updates /\ \A v \in Updates : KnowsLines(update'[v])
    PROVE  LinesInv'
  BY DEF LinesInv, Nums

LEMMA UpdateStepKeeps ==
    ASSUME LinesInv, NEW u \in Updates,
           SendUpdate(u) \/ PlanUpdate(u) \/ PatchRows(u) \/ RereadQuotation(u) \/ SaveLink(u)
    PROVE  LinesInv'
<1>1. /\ KnowsLines(update[u]) /\ dealItems \in Seq(LineItems) /\ AreRows(rows) /\ rows # {}
      /\ AreEntries(link) /\ DOMAIN update = Updates
  BY DEF LinesInv
<1>2. CASE SendUpdate(u)
  <2> PICK new : new = [update[u] EXCEPT !.pc = "sent", !.items = dealItems]
    OBVIOUS
  <2>1. KnowsLines(new)
    BY <1>1 DEF KnowsLines, UpdateFields
  <2>2. UpdateGoes(u, new)
    BY <1>2 DEF SendUpdate
  <2> QED BY <1>1, <1>2, <2>1, <2>2, UpdateKnows, KnowledgeKeeps DEF SendUpdate
<1>3. CASE PlanUpdate(u)
  <2>1. DOMAIN update' = Updates /\ \A v \in Updates : KnowsLines(update'[v])
    <3>1. ASSUME UpdateGoes(u, [update[u] EXCEPT !.pc = "patch", !.read = rows,
                                                 !.plan = PlanFor(update[u].items, link, rows)]),
                 Patchable(u)
          PROVE  DOMAIN update' = Updates /\ \A v \in Updates : KnowsLines(update'[v])
      <4> PICK plan : plan = PlanFor(update[u].items, link, rows)
        OBVIOUS
      <4> PICK new : new = [update[u] EXCEPT !.pc = "patch", !.read = rows, !.plan = plan]
        OBVIOUS
      <4> PICK P : P = PlanEntries(NextNum(link, rows))
        OBVIOUS
      <4>1. plan \in Seq(P) /\ Len(plan) = Len(update[u].items) /\ update[u].items \in Seq(LineItems)
        BY <1>1, PlanHasNumbers DEF KnowsLines
      <4>2. update[u].items # <<>>
        BY <3>1 DEF Patchable
      <4>3. Len(plan) # 0
        BY <4>1, <4>2
      <4> PICK n : n = Len(plan)
        OBVIOUS
      <4>4. n \in Nat /\ n # 0 /\ DOMAIN plan = 1 .. n /\ plan = [i \in 1 .. n |-> plan[i]]
            /\ \A i \in 1 .. n : plan[i] \in P
        <5>1. plan \in Seq(P) /\ Len(plan) # 0
          BY <4>1, <4>3
        <5>2. Len(plan) \in Nat /\ DOMAIN plan = 1 .. Len(plan)
          BY <5>1
        <5>3. \A i \in 1 .. Len(plan) : plan[i] \in P
          BY <5>1
        <5>4. plan = [i \in 1 .. Len(plan) |-> plan[i]]
          BY <5>1
        <5> QED BY <5>1, <5>2, <5>3, <5>4
      <4>5. \A i \in 1 .. n : plan[i].num \in Nat /\ plan[i].new \in BOOLEAN
        <5>1. \A i \in 1 .. n : plan[i] \in PlanEntry
          BY <4>4, Zenon DEF PlanEntries
        <5> QED BY <5>1 DEF PlanEntry
      <4>6. AreEntries(plan)
        BY <4>4, <4>5 DEF AreEntries
      <4>7. plan[1].num \in NumsOf(plan)
        <5>1. 1 \in DOMAIN plan
          BY <4>4
        <5> QED BY <5>1 DEF NumsOf, Range
      <4>8. DOMAIN new = UpdateFields /\ new.items = update[u].items /\ new.read = rows /\ new.plan = plan
        BY <1>1 DEF KnowsLines, UpdateFields
      <4>9. NewAreNew(new)
        <5>1. \A r \in rows : r.num < NextNum(link, rows) /\ r.num \in Nat
          BY <1>1, NextIsNumber DEF AreRows
        <5>2. NextNum(link, rows) \in Nat
          BY <1>1, NextIsNumber
        <5>3. \A i \in 1 .. n : plan[i].new => plan[i].num >= NextNum(link, rows)
          BY <4>4 DEF PlanEntries
        <5>4. ASSUME NEW i \in 1 .. n, plan[i].new PROVE plan[i].num \notin Nums(rows)
          BY <4>5, <5>1, <5>2, <5>3, <5>4 DEF Nums
        <5>5. \A p \in Range(plan) : \E i \in 1 .. n : p = plan[i]
          BY <4>4 DEF Range
        <5> QED BY <4>8, <5>4, <5>5 DEF NewAreNew
      <4>10. KnowsLines(new)
        BY <1>1, <4>1, <4>6, <4>7, <4>8, <4>9 DEF KnowsLines
      <4> QED BY <3>1, <4>10, UpdateKnows
    <3>2. \/ UpdateFails(u) \/ UpdateEnds(u, "errored")
          \/ Patchable(u) /\ UpdateGoes(u, [update[u] EXCEPT !.pc = "patch", !.read = rows,
                                              !.plan = PlanFor(update[u].items, link, rows)])
      BY <1>3, Zenon DEF PlanUpdate
    <3> QED BY <3>1, <3>2, UpdateFailsKnows, UpdateEndsKnows
  <2> QED BY <1>1, <1>3, <2>1, KnowledgeKeeps DEF PlanUpdate
<1>4. CASE PatchRows(u)
  <2>1. DOMAIN update' = Updates /\ \A v \in Updates : KnowsLines(update'[v])
    <3>1. UpdateFails(u) \/ UpdateGoes(u, [update[u] EXCEPT !.pc = "reread"])
      BY <1>4, Zenon DEF PatchRows
    <3>2. KnowsLines([update[u] EXCEPT !.pc = "reread"])
      BY <1>1 DEF KnowsLines, UpdateFields
    <3> QED BY <3>1, <3>2, UpdateFailsKnows, UpdateKnows
  <2>2. \/ rows' = Replaced(update[u].plan) /\ drifted' = (drifted \/ rows' # rows)
        \/ UNCHANGED <<rows, drifted>>
    BY <1>4, Zenon DEF PatchRows
  <2>3. AreRows(rows') /\ rows' # {} /\ (drifted' \/ (rows' = rows /\ ~drifted))
    <3>1. update[u].pc = "patch"
      BY <1>4 DEF PatchRows
    <3> PICK plan : plan = update[u].plan
      OBVIOUS
    <3>2. AreRows(Replaced(plan)) /\ Replaced(plan) # {}
      BY <1>1, <3>1, ReplacedAreRows DEF KnowsLines
    <3>3. CASE rows' = Replaced(update[u].plan) /\ drifted' = (drifted \/ rows' # rows)
      <4>1. drifted' \/ (rows' = rows /\ ~drifted)
        BY <3>3, Zenon
      <4>2. rows' = Replaced(plan)
        BY <3>3
      <4> QED BY <3>2, <4>1, <4>2
    <3>4. CASE UNCHANGED <<rows, drifted>>
      <4>1. drifted' \/ ~drifted
        BY <3>4, Zenon
      <4>2. rows' = rows
        BY <3>4
      <4>3. PICK old : old = rows
        OBVIOUS
      <4>4. AreRows(old) /\ old # {}
        BY <1>1, <4>3
      <4> QED BY <4>1, <4>2, <4>3, <4>4
    <3> QED BY <2>2, <3>3, <3>4
  <2>4. UNCHANGED <<dealItems, link, convert>>
    BY <1>4 DEF PatchRows
  <2> QED BY <2>1, <2>3, <2>4 DEF LinesInv, Nums
<1>5. CASE RereadQuotation(u)
  <2>1. DOMAIN update' = Updates /\ \A v \in Updates : KnowsLines(update'[v])
    <3>1. UpdateFails(u) \/ UpdateGoes(u, [update[u] EXCEPT !.pc = "save", !.read = rows])
      BY <1>5, Zenon DEF RereadQuotation
    <3>2. KnowsLines([update[u] EXCEPT !.pc = "save", !.read = rows])
      BY <1>1 DEF KnowsLines, UpdateFields
    <3> QED BY <3>1, <3>2, UpdateFailsKnows, UpdateKnows
  <2> QED BY <1>1, <1>5, <2>1, KnowledgeKeeps DEF RereadQuotation
<1>6. CASE SaveLink(u)
  <2>1. UNCHANGED <<dealItems, rows, convert>>
    BY <1>6 DEF SaveLink
  <2>2. \/ UpdateFails(u) /\ UNCHANGED <<link, drifted>>
        \/ /\ link' = FromSap(update[u].read, update[u].items)
           /\ drifted' = (Nums(update[u].read) # Nums(rows))
           /\ UpdateEnds(u, "done")
    BY <1>6, Zenon DEF SaveLink
  <2>3. CASE UpdateFails(u) /\ UNCHANGED <<link, drifted>>
    BY <1>1, <2>1, <2>3, UpdateFailsKnows, KnowledgeKeeps
  <2>4. CASE /\ link' = FromSap(update[u].read, update[u].items)
             /\ drifted' = (Nums(update[u].read) # Nums(rows))
             /\ UpdateEnds(u, "done")
    <3> PICK read, items : read = update[u].read /\ items = update[u].items
      OBVIOUS
    <3>1. AreRows(read)
      BY <1>1 DEF KnowsLines
    <3>2. AreEntries(link') /\ NumsOf(link') = Nums(read)
      BY <2>4, <3>1, FromSapNamesRows
    <3>3. drifted' \/ NumsOf(link') = Nums(rows)
      BY <2>4, <3>2
    <3>4. DOMAIN update' = Updates /\ \A v \in Updates : KnowsLines(update'[v])
      BY <2>4, UpdateEndsKnows
    <3> QED BY <2>1, <3>2, <3>3, <3>4 DEF LinesInv, Nums, NumsOf
  <2> QED BY <2>2, <2>3, <2>4
<1> QED BY <1>2, <1>3, <1>4, <1>5, <1>6

LEMMA LinesStay == ASSUME LinesInv, [LineNext]_lineVars PROVE LinesInv'
<1>1. ASSUME NEW u \in Updates,
             SendUpdate(u) \/ PlanUpdate(u) \/ PatchRows(u) \/ RereadQuotation(u) \/ SaveLink(u)
      PROVE  LinesInv'
  BY <1>1, UpdateStepKeeps
<1>2. CASE SendConvert
  BY <1>2 DEF SendConvert, LinesInv, UpdateFields, Nums
<1>3. CASE BuildOrder
  <2> PICK f : f = ItemFor(convert.items, link)
    OBVIOUS
  <2>1. DOMAIN f = NumsOf(link)
    BY DEF ItemFor, NumsOf
  <2>2. DOMAIN convert' = UpdateFields /\ convert'.plan = <<link, f>>
    BY <1>3 DEF BuildOrder, LinesInv, UpdateFields
  <2>3. DOMAIN convert'.plan[2] = NumsOf(link)' /\ convert'.plan[1] = link /\ UNCHANGED link
    BY <1>3, <2>1, <2>2 DEF BuildOrder, NumsOf
  <2>4. DOMAIN convert'.plan[2] = NumsOf(convert.plan[1])'
    BY <2>3 DEF NumsOf
  <2> QED BY <1>3, <2>2, <2>4 DEF BuildOrder, LinesInv, Nums, NumsOf
<1>4. CASE PostOrder
  <2>1. UNCHANGED <<dealItems, link, update, drifted>>
    BY <1>4 DEF PostOrder
  <2>2. DOMAIN convert' = UpdateFields /\ convert'.pc # "post"
    BY <1>4 DEF PostOrder, LinesInv, UpdateFields
  <2>3. UNCHANGED rows \/ \E closed : rows' = {[r EXCEPT !.open = r.num \notin closed] : r \in rows}
    BY <1>4, Zenon DEF PostOrder
  <2>4. AreRows(rows') /\ rows' # {} /\ Nums(rows)' = Nums(rows)
    BY <2>3, OrderKeepsRows DEF LinesInv, Nums
  <2> QED BY <2>1, <2>2, <2>4 DEF LinesInv, NumsOf
<1>5. CASE AddLineItem \/ RemoveLineItem \/ MoveLineItems
  <2>1. UNCHANGED <<rows, link, update, convert, drifted>>
    BY <1>5 DEF AddLineItem, RemoveLineItem, MoveLineItems, ChangeDeal
  <2>2. dealItems' \in Seq(LineItems)
    BY <1>5, DealsKeep
  <2> QED BY <2>1, <2>2, KnowledgeKeeps DEF LinesInv
<1>6. CASE AddRow \/ RemoveRow \/ CloseRow
  <2>1. UNCHANGED <<dealItems, link, update, convert>> /\ (drifted => drifted')
    BY <1>6 DEF AddRow, RemoveRow, CloseRow, ChangeRows
  <2>2. AreRows(rows') /\ rows' # {} /\ (drifted' \/ Nums(rows)' = Nums(rows))
    BY <1>6, ChangesKeepRows
  <2> QED BY <2>1, <2>2 DEF LinesInv, NumsOf
<1>7. CASE UNCHANGED lineVars
  BY <1>7 DEF lineVars, LinesInv, Nums
<1> QED BY <1>1, <1>2, <1>3, <1>4, <1>5, <1>6, <1>7 DEF LineNext

\* OrderIsWhole: an order takes every row of the quotation its link names, whatever updates and
\* failures came before it, unless the rows or the link have changed behind its back
\* (buildOrderFromQuotationPayload, buildLinkLinesFromSap).
THEOREM OrdersAreWhole == LineSpec => OrderIsWhole
<1>1. ASSUME LinesInv, [LineNext]_lineVars, order = {}, order' # {}
      PROVE  {l.base : l \in order'} = Nums(rows) \/ OutOfDate
  <2>1. PostOrder
    BY <1>1 DEF LineNext, lineVars, SendUpdate, PlanUpdate, PatchRows, RereadQuotation, SaveLink, SendConvert,
                BuildOrder, AddLineItem, RemoveLineItem, MoveLineItems, ChangeDeal, AddRow, RemoveRow, CloseRow,
                ChangeRows
  <2>2. order' = OrderLines /\ convert.pc = "post"
    BY <1>1, <2>1 DEF PostOrder
  <2>3. {l.base : l \in OrderLines} = DOMAIN convert.plan[2]
    <3> PICK D : D = DOMAIN convert.plan[2]
      OBVIOUS
    <3>1. OrderLines = {[base |-> num, item |-> convert.plan[2][num]] : num \in D}
      BY DEF OrderLines
    <3>2. \A l \in OrderLines : l.base \in D
      BY <3>1
    <3>3. ASSUME NEW num \in D PROVE \E l \in OrderLines : l.base = num
      <4>1. PICK l : l = [base |-> num, item |-> convert.plan[2][num]]
        OBVIOUS
      <4>2. l \in OrderLines
        BY <3>1, <4>1
      <4>3. l.base = num
        BY <4>1
      <4> QED BY <4>2, <4>3
    <3> QED BY <3>2, <3>3
  <2>4. DOMAIN convert.plan[2] = NumsOf(convert.plan[1])
    BY <1>1, <2>2 DEF LinesInv
  <2>5. ~OutOfDate => NumsOf(convert.plan[1]) = Nums(rows)
    BY <1>1 DEF OutOfDate, LinesInv
  <2> QED BY <2>2, <2>3, <2>4, <2>5
<1> QED
  <2>1. LineInit => LinesInv
    BY LinesFirst
  <2>2. LinesInv /\ [LineNext]_lineVars => LinesInv'
    BY LinesStay
  <2>3. LinesInv /\ [LineNext]_lineVars
          => [(order = {} /\ order' # {}) => \/ {l.base : l \in order'} = Nums(rows)
                                             \/ OutOfDate]_lineVars
    BY <1>1
  <2> QED BY <2>1, <2>2, <2>3, PTL DEF OrderIsWhole, LineSpec

\* NewRowsAreNew: a line item without a row never gets the number of a row SAP had when the
\* update was planned, so that no row is overwritten (resolveNextLineNum).
THEOREM NewRowsGetNewNumbers == LineSpec => []NewRowsAreNew
<1>1. LineInit => LinesInv
  BY LinesFirst
<1>2. LinesInv /\ [LineNext]_lineVars => LinesInv'
  BY LinesStay
<1>3. LinesInv => NewRowsAreNew
  BY DEF LinesInv, KnowsLines, NewAreNew, NewRowsAreNew
<1> QED
  BY <1>1, <1>2, <1>3, PTL DEF LineSpec
================================================================================
