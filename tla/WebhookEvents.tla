---------------------------- MODULE WebhookEvents ----------------------------
(***************************************************************************)
(* One tenant's WebhookEvents collection, the HTTP handlers that insert    *)
(* into it and the batch runs that drain it: a HubSpot deal webhook is     *)
(* stored once per (eventType, deal), claimed by a run, turned into a SAP  *)
(* document, reported back to HubSpot and closed.                          *)
(*                                                                         *)
(* A run is one ProcessWebhookDealEventBatch.execute: the BullMQ worker    *)
(* keeps one job per tenant, but the manual endpoint runs batches in the   *)
(* API process and a stalled BullMQ job is run again, so several runs of a *)
(* tenant may overlap.                                                     *)
(*                                                                         *)
(* Abstracted: payloads (an event is its eventType and deal), the order in *)
(* which a run takes the events it has claimed (any order), error texts.   *)
(***************************************************************************)
EXTENDS Naturals, FiniteSets

CONSTANTS
    EventTypes,     \* the webhook kinds this instance receives
    Deal,           \* HubSpot deals
    Run,            \* batch runs that may be alive at the same time
    MaxEvents,      \* bound: events ever stored
    MaxCheckers,    \* bound: requests per key between the check and the insert
    BatchSize,      \* WEBHOOK_EVENT_BATCH_SIZE
    MaxRetries,     \* maxRetries stored in the event
    MaxMongoFaults, \* bound: failed status writes
    MaxCrashes,     \* bound: runs that die or lose their claim loop
    UnackedWrites,  \* may a failed write have been applied by the server?
    LostResponses   \* may SAP create a document whose response never arrives?

AllEventTypes == {"createDeal", "createQuotation", "updateQuotation",
                  "convertQuotationToOrder", "inventoryTransferRequest",
                  "purchaseQuotation"}

ASSUME WebhookAssumption ==
    /\ EventTypes \subseteq AllEventTypes
    /\ MaxEvents \in Nat /\ MaxCheckers \in Nat
    /\ BatchSize \in Nat \ {0} /\ MaxRetries \in Nat \ {0}
    /\ MaxMongoFaults \in Nat /\ MaxCrashes \in Nat
    /\ UnackedWrites \in BOOLEAN /\ LostResponses \in BOOLEAN

Event == 1..MaxEvents       \* an event is its position in creation order
Key == EventTypes \X Deal
NoKey == <<"none", "none">>

\* What a run knows of the error it is handling.
Error == {"none", "transient", "permanent", "sapCreated"}

RunPc == {"idle", "claim", "next", "prepare", "create", "record", "hubspot",
          "complete", "postSap", "failed", "release"}

Status == {"absent", "waiting", "inprocess", "sap_order_created",
           "sap_created_hubspot_error", "completed", "errored"}

VARIABLES
    status, key, retries, dedupActive,  \* the WebhookEvents documents
    created,        \* how many were inserted: the createdAt order
    checked,        \* requests per key that found nothing blocking
    links,          \* SapDocumentLinks: <<creating eventType, deal>>
    docs,           \* SAP documents created on behalf of each event
    pc, batch, cur, snap, audit, err,   \* each run's local state
    mongoFaults, crashes,
    unseen,         \* ghost: events with a document SAP never acknowledged
    reopened        \* ghost: events released to waiting after SAP's answer

store == <<status, key, retries, dedupActive, created>>
sap == <<links, docs, unseen>>
runState == <<pc, batch, cur, snap, audit, err>>
vars == <<store, checked, sap, runState, mongoFaults, crashes, reopened>>
-----------------------------------------------------------------------------
(* The dedup rule, shared by the inserting service and the repository. *)

\* DEDUPLICATED_EVENT_TYPES: a quotation may be updated many times.
DeduplicatedTypes == AllEventTypes \ {"updateQuotation"}

Deduplicates(t) == t \in DeduplicatedTypes

\* resolveDedupActive: only RESENDABLE_STATUS frees the place in the index.
ResendableWhenSapFailed(t, st) ==
    Deduplicates(t) /\ st \notin {"errored", "sap_created_hubspot_error"}

DedupActiveFor(t, st) == Deduplicates(t) /\ st # "errored"

\* findBlockingEvent, as a set: any event of the key that is not errored.
BlockingEvents(k) ==
    {e \in Event : key[e] = k /\ status[e] \notin {"absent", "errored"}}

\* The unique partial index over (eventType, deal, dedupActive: true).
NoIndex(k, e) == FALSE

IndexConflict(k, e) ==
    \E f \in Event \ {e} : key[f] = k /\ dedupActive[f]

\* The types whose use case writes a SapDocumentLink for what it creates.
Linked(t) == t \in {"createQuotation", "convertQuotationToOrder",
                    "inventoryTransferRequest", "purchaseQuotation"}

\* The types that start from the deal's quotation, and fail without one.
NeedsQuotation(t) == t \in {"updateQuotation", "convertQuotationToOrder"}

LinkIgnored(k) == FALSE

AlreadyLinked(k) == Linked(k[1]) /\ k \in links

QuotationMissing(k) ==
    NeedsQuotation(k[1]) /\ <<"createQuotation", k[2]>> \notin links
-----------------------------------------------------------------------------
(* QueueHubspotWebhookEvent: check, insert, or answer "duplicated". The    *)
(* duplicate answer changes nothing and is not an action.                  *)

\* A request reads the collection and finds nothing that blocks it.
PassesCheck(k) ==
    /\ checked[k] < MaxCheckers
    /\ Deduplicates(k[1]) => BlockingEvents(k) = {}

CheckDuplicate(k) ==
    /\ PassesCheck(k)
    /\ created < MaxEvents
    /\ checked' = [checked EXCEPT ![k] = @ + 1]
    /\ UNCHANGED <<store, sap, runState, mongoFaults, crashes, reopened>>

CreateEvent(k) ==
    /\ checked[k] > 0 /\ created < MaxEvents
    /\ Deduplicates(k[1]) => ~IndexConflict(k, created + 1)
    /\ checked' = [checked EXCEPT ![k] = @ - 1]
    /\ created' = created + 1
    /\ status' = [status EXCEPT ![created + 1] = "waiting"]
    /\ key' = [key EXCEPT ![created + 1] = k]
    /\ dedupActive' = [dedupActive EXCEPT ![created + 1] = Deduplicates(k[1])]
    /\ UNCHANGED <<retries, sap, runState, mongoFaults, crashes, reopened>>

\* E11000: the index let another request in first. (A request that dies
\* before its insert leaves the same state.)
LoseInsertRace(k) ==
    /\ checked[k] > 0
    /\ checked' = [checked EXCEPT ![k] = @ - 1]
    /\ UNCHANGED <<store, sap, runState, mongoFaults, crashes, reopened>>
-----------------------------------------------------------------------------
(* MongooseWebhookEventRepository: claimWaiting.                           *)

ReclaimInProcess(e) == status[e] \in {"waiting", "inprocess"}

ReclaimErrored(e) == status[e] \in {"waiting", "errored"}

Claimable(e) == status[e] = "waiting"

StartRun(w) ==
    /\ pc[w] = "idle"
    /\ pc' = [pc EXCEPT ![w] = "claim"]
    /\ UNCHANGED <<store, checked, sap, batch, cur, snap, audit, err,
                   mongoFaults, crashes, reopened>>

\* findOneAndUpdate: the oldest waiting event becomes inprocess.
ClaimEvent(w) ==
    /\ pc[w] = "claim" /\ Cardinality(batch[w]) < BatchSize
    /\ \E e \in Event :
         /\ Claimable(e)
         /\ \A f \in Event : Claimable(f) => e <= f
         /\ status' = [status EXCEPT ![e] = "inprocess"]
         /\ batch' = [batch EXCEPT ![w] = @ \union {e}]
         /\ snap' = [snap EXCEPT ![w][e] = retries[e]]
    /\ UNCHANGED <<key, retries, dedupActive, created, checked, sap, pc, cur,
                   audit, err, mongoFaults, crashes, reopened>>

ClaimDone(w) ==
    /\ pc[w] = "claim"
    /\ \/ Cardinality(batch[w]) >= BatchSize
       \/ \A e \in Event : ~Claimable(e)
    /\ pc' = [pc EXCEPT ![w] = IF batch[w] = {} THEN "idle" ELSE "next"]
    /\ UNCHANGED <<store, checked, sap, batch, cur, snap, audit, err,
                   mongoFaults, crashes, reopened>>

\* The process dies, or a later findOneAndUpdate of the claim loop throws:
\* nobody takes the events it had claimed out of inprocess.
AbandonRun(w) ==
    /\ pc[w] # "idle" /\ crashes < MaxCrashes
    /\ crashes' = crashes + 1
    /\ pc' = [pc EXCEPT ![w] = "idle"]
    /\ batch' = [batch EXCEPT ![w] = {}]
    /\ cur' = [cur EXCEPT ![w] = 0]
    /\ snap' = [snap EXCEPT ![w] = [e \in Event |-> 0]]
    /\ audit' = [audit EXCEPT ![w] = FALSE]
    /\ err' = [err EXCEPT ![w] = "none"]
    /\ UNCHANGED <<store, checked, sap, mongoFaults, reopened>>
-----------------------------------------------------------------------------
(* The use case of the current event: everything up to SAP's answer.       *)

\* Move run w to p, with the audit trail of a use case when p saves one.
Goto(w, p, error) ==
    /\ pc' = [pc EXCEPT ![w] = p]
    /\ err' = [err EXCEPT ![w] = error]
    /\ audit' = [audit EXCEPT ![w] = p \in {"complete", "postSap", "failed"}]
    /\ UNCHANGED <<batch, cur, snap>>

\* Done with the current event: the next of the batch, or end of the run.
Finish(w) ==
    LET rest == batch[w] \ {cur[w]} IN
    /\ pc' = [pc EXCEPT ![w] = IF rest = {} THEN "idle" ELSE "next"]
    /\ batch' = [batch EXCEPT ![w] = rest]
    /\ snap' = [snap EXCEPT ![w][cur[w]] = 0]
    /\ cur' = [cur EXCEPT ![w] = 0]
    /\ audit' = [audit EXCEPT ![w] = FALSE]
    /\ err' = [err EXCEPT ![w] = "none"]

NextEvent(w) ==
    /\ pc[w] = "next"
    /\ \E e \in batch[w] : cur' = [cur EXCEPT ![w] = e]
    /\ pc' = [pc EXCEPT ![w] = "prepare"]
    /\ UNCHANGED <<store, checked, sap, batch, snap, audit, err, mongoFaults,
                   crashes, reopened>>

\* Context, idempotency link, business partner, payload: no document yet.
Prepare(w) ==
    LET k == key[cur[w]] IN
    /\ pc[w] = "prepare"
    /\ \/ ~QuotationMissing(k) /\ AlreadyLinked(k) /\ Goto(w, "complete", "none")
       \/ ~QuotationMissing(k) /\ ~AlreadyLinked(k) /\ Goto(w, "create", "none")
       \/ QuotationMissing(k) /\ Goto(w, "failed", "permanent")
       \/ \E x \in {"transient", "permanent"} : Goto(w, "failed", x)
    /\ UNCHANGED <<store, checked, sap, mongoFaults, crashes, reopened>>

\* updateQuotation: GET, PATCH, GET, updateLines. No document is created.
PatchQuotation(w) ==
    /\ pc[w] = "create" /\ key[cur[w]][1] = "updateQuotation"
    /\ \/ Goto(w, "complete", "none")
       \/ \E x \in {"transient", "permanent"} : Goto(w, "failed", x)
    /\ UNCHANGED <<store, checked, sap, mongoFaults, crashes, reopened>>

\* The POST to SAP: acknowledged, rejected, or done with the answer lost,
\* which the catch block cannot tell from a rejection.
CreateDocument(w) ==
    LET e == cur[w] IN
    /\ pc[w] = "create" /\ key[e][1] # "updateQuotation"
    /\ \/ /\ Goto(w, "record", "none")
          /\ docs' = [docs EXCEPT ![e] = @ + 1]
          /\ UNCHANGED unseen
       \/ /\ Goto(w, "failed", "transient")
          /\ UNCHANGED <<docs, unseen>>
       \/ /\ LostResponses
          /\ Goto(w, "failed", "transient")
          /\ docs' = [docs EXCEPT ![e] = @ + 1]
          /\ unseen' = unseen \union {e}
    /\ UNCHANGED <<store, checked, links, mongoFaults, crashes, reopened>>
-----------------------------------------------------------------------------
(* After SAP's answer: progress, link, HubSpot.                            *)

\* markOrderCreated, or SapDocumentLink.create (unique) for the linked types.
Recorded(e) ==
    \/ /\ Linked(key[e][1]) /\ key[e] \notin links
       /\ links' = links \union {key[e]}
       /\ UNCHANGED status
    \/ /\ ~Linked(key[e][1])
       /\ status' = [status EXCEPT ![e] = "sap_order_created"]
       /\ UNCHANGED links

RecordDocument(w) ==
    /\ pc[w] = "record"
    /\ Recorded(cur[w])
    /\ Goto(w, "hubspot", "none")
    /\ UNCHANGED <<key, retries, dedupActive, created, checked, docs, unseen,
                   mongoFaults, crashes, reopened>>

ForgetSapOrder(w) == Goto(w, "failed", "transient")

\* The catch block sets error.sapOrderCreated: the response is in hand.
FailAfterSap(w) == Goto(w, "failed", "sapCreated")

\* The write failed, or the link index rejected it.
RecordDocumentFails(w) ==
    /\ pc[w] = "record"
    /\ \/ /\ mongoFaults < MaxMongoFaults /\ mongoFaults' = mongoFaults + 1
          /\ \/ UNCHANGED <<status, links>>
             \/ UnackedWrites /\ Recorded(cur[w])
       \/ key[cur[w]] \in links /\ UNCHANGED <<mongoFaults, status, links>>
    /\ FailAfterSap(w)
    /\ UNCHANGED <<key, retries, dedupActive, created, checked, docs, unseen,
                   crashes, reopened>>

\* hubspotWebhookAdapter.updateAfterSap.
UpdateHubspot(w) ==
    /\ pc[w] = "hubspot"
    /\ Goto(w, "complete", "none") \/ FailAfterSap(w)
    /\ UNCHANGED <<store, checked, sap, mongoFaults, crashes, reopened>>
-----------------------------------------------------------------------------
(* Bookkeeping: markCompleted and markFailed, through applyUpdates.        *)

\* markCompleted leaves retries and dedupActive as they are.
Completed(e) ==
    /\ status' = [status EXCEPT ![e] = "completed"]
    /\ UNCHANGED <<retries, dedupActive>>

Indexable(e, st) == DedupActiveFor(key[e][1], st) => ~IndexConflict(key[e], e)

\* markFailed(st, rt): dedupActive follows the new status.
Failed(e, st, rt) ==
    /\ Indexable(e, st)
    /\ status' = [status EXCEPT ![e] = st]
    /\ retries' = [retries EXCEPT ![e] = rt]
    /\ dedupActive' = [dedupActive EXCEPT ![e] = DedupActiveFor(key[e][1], st)]

NotSaved == UNCHANGED <<status, retries, dedupActive>>

\* An update that throws: the write failed, or was applied unacknowledged.
Throws(Write) ==
    /\ mongoFaults < MaxMongoFaults /\ mongoFaults' = mongoFaults + 1
    /\ NotSaved \/ (UnackedWrites /\ Write)

\* applyUpdates tries again without sapAudit, then lets the error out to p.
StopAfterSecondFailure(w, p) ==
    IF audit[w]
    THEN audit' = [audit EXCEPT ![w] = FALSE] /\ UNCHANGED <<pc, batch, cur, snap, err>>
    ELSE Finish(w)

RetryWithoutAuditOr(w, p) ==
    IF audit[w]
    THEN audit' = [audit EXCEPT ![w] = FALSE] /\ UNCHANGED <<pc, batch, cur, snap, err>>
    ELSE Goto(w, p, err[w])

\* handleProcessingError: what the failed event becomes.
PermanentAddsMax(w) ==
    CASE err[w] = "sapCreated" -> snap[w][cur[w]]
      [] err[w] = "permanent"  -> snap[w][cur[w]] + MaxRetries
      [] OTHER                 -> snap[w][cur[w]] + 1

FailureRetries(w) ==
    CASE err[w] = "sapCreated" -> snap[w][cur[w]]
      [] err[w] = "permanent"  -> MaxRetries
      [] OTHER                 -> snap[w][cur[w]] + 1

RetryOnceMore(w) ==
    CASE err[w] = "sapCreated" -> "sap_created_hubspot_error"
      [] err[w] = "transient" /\ FailureRetries(w) <= MaxRetries -> "waiting"
      [] OTHER -> "errored"

FailureStatus(w) ==
    CASE err[w] = "sapCreated" -> "sap_created_hubspot_error"
      [] err[w] = "transient" /\ FailureRetries(w) < MaxRetries -> "waiting"
      [] OTHER -> "errored"

KeepStore == UNCHANGED <<key, created, checked, sap, crashes>>

MarkCompleted(w) ==
    /\ pc[w] = "complete"
    /\ Completed(cur[w]) /\ Finish(w)
    /\ KeepStore /\ UNCHANGED <<mongoFaults, reopened>>

MarkCompletedThrows(w) ==
    /\ pc[w] = "complete"
    /\ Throws(Completed(cur[w]))
    /\ RetryWithoutAuditOr(w, "postSap")
    /\ KeepStore /\ UNCHANGED reopened

\* handlePostSapBookkeepingFailure: never back to waiting.
MarkPostSap(w) ==
    LET e == cur[w] IN
    /\ pc[w] = "postSap"
    /\ Failed(e, "sap_created_hubspot_error", snap[w][e]) /\ Finish(w)
    /\ KeepStore /\ UNCHANGED <<mongoFaults, reopened>>

\* ... and when that write fails too, the event is left as it is.
MarkPostSapThrows(w) ==
    LET e == cur[w] IN
    /\ pc[w] = "postSap"
    /\ \/ Throws(Failed(e, "sap_created_hubspot_error", snap[w][e]))
       \/ ~Indexable(e, "sap_created_hubspot_error") /\ NotSaved /\ UNCHANGED mongoFaults
    /\ IF audit[w] THEN RetryWithoutAuditOr(w, "postSap") ELSE Finish(w)
    /\ KeepStore /\ UNCHANGED reopened

MarkFailed(w) ==
    LET e == cur[w] IN
    /\ pc[w] = "failed"
    /\ Failed(e, FailureStatus(w), FailureRetries(w)) /\ Finish(w)
    /\ KeepStore /\ UNCHANGED <<mongoFaults, reopened>>

MarkFailedThrows(w) ==
    LET e == cur[w] IN
    /\ pc[w] = "failed"
    /\ \/ Throws(Failed(e, FailureStatus(w), FailureRetries(w)))
       \/ ~Indexable(e, FailureStatus(w)) /\ NotSaved /\ UNCHANGED mongoFaults
    /\ RetryWithoutAuditOr(w, "release")
    /\ KeepStore /\ UNCHANGED reopened

\* safelyHandleProcessingError: best-effort release, whatever the error was.
Release(w) ==
    LET e == cur[w] IN
    /\ pc[w] = "release"
    /\ Failed(e, "waiting", snap[w][e]) /\ Finish(w)
    /\ reopened' = IF err[w] = "sapCreated" THEN reopened \union {e} ELSE reopened
    /\ KeepStore /\ UNCHANGED mongoFaults

ReleaseThrows(w) ==
    LET e == cur[w] IN
    /\ pc[w] = "release"
    /\ \/ Throws(Failed(e, "waiting", snap[w][e]))
       \/ ~Indexable(e, "waiting") /\ NotSaved /\ UNCHANGED mongoFaults
    /\ Finish(w)
    /\ KeepStore /\ UNCHANGED reopened
-----------------------------------------------------------------------------
Init ==
    /\ status = [e \in Event |-> "absent"]
    /\ key = [e \in Event |-> NoKey]
    /\ retries = [e \in Event |-> 0]
    /\ dedupActive = [e \in Event |-> FALSE]
    /\ created = 0
    /\ checked = [k \in Key |-> 0]
    /\ links = {}
    /\ docs = [e \in Event |-> 0]
    /\ unseen = {}
    /\ pc = [w \in Run |-> "idle"]
    /\ batch = [w \in Run |-> {}]
    /\ cur = [w \in Run |-> 0]
    /\ snap = [w \in Run |-> [e \in Event |-> 0]]
    /\ audit = [w \in Run |-> FALSE]
    /\ err = [w \in Run |-> "none"]
    /\ mongoFaults = 0
    /\ crashes = 0
    /\ reopened = {}

\* What a live run does by itself, given an answer from Mongo and SAP.
RunStep(w) ==
    \/ StartRun(w) \/ ClaimEvent(w) \/ ClaimDone(w) \/ NextEvent(w)
    \/ Prepare(w) \/ PatchQuotation(w) \/ CreateDocument(w)
    \/ RecordDocument(w) \/ UpdateHubspot(w)
    \/ MarkCompleted(w) \/ MarkPostSap(w) \/ MarkFailed(w) \/ Release(w)
    \/ RecordDocumentFails(w) \/ MarkCompletedThrows(w)
    \/ MarkPostSapThrows(w) \/ MarkFailedThrows(w) \/ ReleaseThrows(w)

Next ==
    \/ \E k \in Key : CheckDuplicate(k) \/ CreateEvent(k) \/ LoseInsertRace(k)
    \/ \E w \in Run : RunStep(w) \/ AbandonRun(w)

Spec == Init /\ [][Next]_vars

\* Every run that is started goes on, and runs keep being started: with the
\* cron of webhookDispatcher.service.js on (it is off by default), one job per
\* tenant is enqueued every minute. Without it, see WebhookQueue.
FairSpec == Spec /\ \A w \in Run : WF_vars(RunStep(w))
-----------------------------------------------------------------------------
(* Properties.                                                             *)

TypeOK ==
    /\ status \in [Event -> Status]
    /\ key \in [Event -> Key \union {NoKey}]
    /\ retries \in [Event -> 0..MaxRetries]
    /\ dedupActive \in [Event -> BOOLEAN]
    /\ created \in 0..MaxEvents
    /\ checked \in [Key -> Nat]
    /\ links \subseteq Key
    /\ docs \in [Event -> Nat]
    /\ unseen \subseteq Event
    /\ pc \in [Run -> RunPc]
    /\ batch \in [Run -> SUBSET Event]
    /\ cur \in [Run -> Event \union {0}]
    /\ snap \in [Run -> [Event -> 0..MaxRetries]]
    /\ audit \in [Run -> BOOLEAN]
    /\ err \in [Run -> Error]
    /\ mongoFaults \in 0..MaxMongoFaults
    /\ crashes \in 0..MaxCrashes
    /\ reopened \subseteq Event

Open(e) == status[e] \notin {"absent", "errored"}

Settled == {"completed", "sap_created_hubspot_error", "errored"}

\* WebhookEvent.js: two OPEN events of one (eventType, deal) cannot exist,
\* whatever the interleaving of requests, retries, resends and runs.
OneOpenEventPerDeal ==
    \A e, f \in Event :
        (e # f /\ key[e] = key[f] /\ Deduplicates(key[e][1]))
            => ~(Open(e) /\ Open(f))

\* Two runs never work on the same event at once, even when they overlap:
\* the claim is the only lock an event has.
SingleOwner ==
    \A v, w \in Run : v # w => batch[v] \intersect batch[w] = {}

\* Once closed, an event is never written again by a run that still holds it
\* (a stale markFailed over a completed event would reopen the deal).
SettledIsFinal ==
    [][\A e \in Event : status[e] \in Settled => status'[e] = status[e]]_vars

\* The SapDocumentLink makes creation idempotent: once a (type, deal) has
\* its link, no later run, retry or resend creates a document for it.
LinkedIsNotRecreated ==
    [][\A e \in Event : key[e] \in links => docs'[e] = docs[e]]_vars

\* A deal gets a second SAP document of one type only through an answer of
\* SAP that never arrived, or through the release of safelyHandleProcessingError
\* after SAP had answered; crashes, races and resends alone never cause one.
DuplicatesExplained ==
    \A e, f \in Event :
        /\ key[e] = key[f] /\ key[e] # NoKey /\ Deduplicates(key[e][1])
        /\ docs[e] > 0 /\ docs[f] > 0
        /\ e = f => docs[e] > 1
        => \E g \in unseen \union reopened : key[g] = key[e]

\* `errored` is the resendable status: the document it may hide is one whose
\* creation SAP did not acknowledge or one the release path forgot.
ErroredExplained ==
    \A e \in Event :
        status[e] = "errored" /\ docs[e] > 0 => e \in unseen \union reopened

\* An event is given up exactly when its retries are spent: none is dropped
\* early, none is retried past maxRetries.
ErroredIffRetriesSpent ==
    \A e \in Event : status[e] = "errored" <=> retries[e] = MaxRetries

\* webhookEvent.service.js: `errored` guarantees there is no document in SAP.
ErroredHasNoDocument ==
    \A e \in Event : status[e] = "errored" => docs[e] = 0

\* ProcessWebhookDealEventBatch.js: an event whose document SAP acknowledged
\* never goes back to waiting, where the next run would create it again.
AcknowledgedIsNotRequeued ==
    \A e \in Event : status[e] = "waiting" => docs[e] = 0 \/ e \in unseen

\* Every queued event is eventually closed, unless a run died or the status
\* write, its second try without the audit trail and the release all failed:
\* that leaves an event inprocess for ever, which nothing in the code repairs.
Stranding == crashes > 0 \/ mongoFaults > 2

EventsSettle ==
    \A e \in Event : status[e] = "waiting" ~> (status[e] \in Settled \/ Stranding)
=============================================================================
