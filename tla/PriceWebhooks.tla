--------------------------- MODULE PriceWebhooks ------------------------------
(* The line item price webhooks of one deal: an advisor adds lines and edits    *)
(* the property a line's price is computed from (miscelaneo, price list or      *)
(* quantity, by strategy), HubSpot delivers an event for every change, again    *)
(* when it hears no good answer, and the handlers keep a record per event to    *)
(* drop repeated ones, to drop the rest of a burst and to retry failures.  How  *)
(* a price comes about is LinePricing's; here it is the edit it was read after. *)
EXTENDS Integers, Sequences, FiniteSets, SequencesExt

CONSTANTS
    Line,           \* lines of the deal; one is priced before the behaviour begins
    Worker,         \* requests handled at a time
    Strategies,     \* subset of Strategy
    MaxEdits,       \* events of the behaviour, the one of the priced line included
    MaxDeliveries,  \* deliveries HubSpot makes of one event
    MaxFaults       \* calls to HubSpot or SAP that fail, and crashes

Strategy == {"legacy", "skipped", "dealPriceList", "s4PriceList"}
BusinessPartner == {"legacy", "skipped"}

ASSUME StrategiesAssumption == Strategies \subseteq Strategy /\ Strategies # {}
ASSUME BoundsAssumption ==
    {MaxEdits, MaxDeliveries, MaxFaults} \subseteq Nat /\ MaxDeliveries > 0

VARIABLES
    tenant,    \* [strategy, debounce]: the tenant's configuration
    line,      \* [Line -> [on, input, price, safe]]: what HubSpot holds
    feed,      \* the events of the deal: [kind, line, left, acked]
    record,    \* LineItemPriceWebhookEvents, oldest first
    worker,    \* [Worker -> [pc, edit, rec, seen]]
    faults, crashed,
    raced,     \* lines edited after a reading that may still count
    omitted,   \* lines a successful execution left as they were, and none has written since
    lost       \* an attempt failed whose event another attempt answers

priceVars == <<tenant, line, feed, record, worker, faults, crashed, raced, omitted, lost>>

Nothing == -1
NoSnapshot == [l \in Line |-> Nothing]
Idle == [pc |-> "idle", edit |-> 0, rec |-> 0, seen |-> NoSnapshot]
Executing == {"read", "write", "mark", "fail"}

Document(e, deal, error) ==
    [edit |-> e, isSend |-> FALSE, error |-> error, deal |-> deal, fresh |-> TRUE, read |-> FALSE]

TypeOK ==
    /\ tenant \in [strategy : Strategies, debounce : BOOLEAN]
    /\ line \in [Line -> [on : BOOLEAN, input : 0 .. MaxEdits, price : Nothing .. MaxEdits, safe : BOOLEAN]]
    /\ Len(feed) <= MaxEdits
    /\ \A e \in DOMAIN feed : feed[e] \in [kind : {"association", "property"}, line : Line,
                                            left : 0 .. MaxDeliveries, acked : BOOLEAN]
    /\ \A i \in DOMAIN record : record[i] \in
           [edit : DOMAIN feed, isSend : BOOLEAN, error : BOOLEAN, deal : BOOLEAN,
            fresh : BOOLEAN, read : BOOLEAN]
    /\ \A w \in Worker :
           /\ worker[w].pc \in {"idle", "guard", "claim", "debounce", "create", "reclaim",
                                "ok", "error"} \cup Executing
           /\ worker[w].pc \in Executing => worker[w].rec \in DOMAIN record
           /\ worker[w].seen \in [Line -> Nothing .. MaxEdits]
    /\ raced \subseteq Line /\ omitted \subseteq Line

Init ==
    /\ tenant \in {t \in [strategy : Strategies, debounce : BOOLEAN] : t.strategy = "legacy" => t.debounce}
    /\ \E l \in Line :
        /\ line = [k \in Line |-> [on |-> k = l, input |-> 0, price |-> IF k = l THEN 0 ELSE Nothing, safe |-> k = l]]
        /\ feed = <<[kind |-> "association", line |-> l, left |-> 0, acked |-> TRUE]>>
    /\ record = <<[Document(1, TRUE, FALSE) EXCEPT !.isSend = TRUE, !.fresh = FALSE, !.read = TRUE]>>
    /\ worker = [w \in Worker |-> Idle]
    /\ faults = 0 /\ crashed = FALSE /\ raced = {} /\ omitted = {} /\ lost = FALSE

-------------------------------------------------------------------------------
(* The advisor.  An edit is raced when a reading made before it may still       *)
(* count: it is about to be written, or its record still silences a webhook.    *)

Silences(r) ==
    /\ tenant.debounce /\ r.fresh /\ r.read /\ ~r.error
    /\ \/ tenant.strategy \in {"dealPriceList", "s4PriceList"}
       \/ tenant.strategy = "skipped" /\ feed[r.edit].kind = "property"
Counts(w) ==
    \/ worker[w].pc = "write"
    \/ tenant.strategy = "legacy" /\ worker[w].pc = "mark" /\ feed[worker[w].edit].kind = "association"
StillCounts == (\E i \in DOMAIN record : Silences(record[i])) \/ (\E w \in Worker : Counts(w))

Publish(kind, l) ==
    /\ Len(feed) < MaxEdits
    /\ feed' = Append(feed, [kind |-> kind, line |-> l, left |-> MaxDeliveries, acked |-> FALSE])
    /\ raced' = raced \cup (IF StillCounts THEN {l} ELSE {})
    /\ UNCHANGED <<tenant, record, worker, faults, crashed, omitted, lost>>

AddLine(l) ==
    /\ ~line[l].on
    /\ line' = [line EXCEPT ![l].on = TRUE]
    /\ Publish("association", l)

EditLine(l) ==
    /\ line[l].on
    /\ line' = [line EXCEPT ![l].input = Len(feed) + 1]
    /\ Publish("property", l)

-------------------------------------------------------------------------------
(* Handlers                                                                     *)

Edit(w) == worker[w].edit
Kind(w) == feed[Edit(w)].kind
LegacyProperty(w) == tenant.strategy = "legacy" /\ Kind(w) = "property"
OwnsRecords(w) == tenant.strategy \in BusinessPartner /\ Kind(w) = "association"

At(w, pc) == worker[w].pc = pc
Step(w, pc) == worker' = [worker EXCEPT ![w].pc = pc]

SameEvent(r, e) == r.edit = e
Repeats(r) == r.isSend \/ ~r.error
FindDuplicate(e) == \E i \in DOMAIN record : SameEvent(record[i], e) /\ Repeats(record[i])
FailedAttempt(r) == ~r.isSend /\ r.error
Collides(e) == feed[e].kind = "association" /\ \E i \in DOMAIN record : SameEvent(record[i], e)

\* HubSpot calls again as long as it has heard no good answer, an attempt in progress or not.
Deliver(w, e) ==
    /\ At(w, "idle") /\ ~feed[e].acked /\ feed[e].left > 0
    /\ feed' = [feed EXCEPT ![e].left = @ - 1]
    /\ worker' = [worker EXCEPT ![w] = [Idle EXCEPT !.pc = "guard", !.edit = e]]
    /\ UNCHANGED <<tenant, line, record, faults, crashed, raced, omitted, lost>>

\* A note of a webhook that is not carried out; the unique index refuses it for an association.
Note(w, deal, answer) ==
    /\ record' = IF Collides(Edit(w)) THEN record ELSE Append(record, Document(Edit(w), deal, TRUE))
    /\ Step(w, IF Collides(Edit(w)) THEN "error" ELSE answer)

PassGuard(w) ==
    /\ At(w, "guard") /\ ~LegacyProperty(w) /\ ~FindDuplicate(Edit(w))
    /\ Step(w, IF OwnsRecords(w) THEN "claim" ELSE "debounce")
    /\ UNCHANGED <<tenant, line, feed, record, faults, crashed, raced, omitted, lost>>

SkipDuplicate(w) ==
    /\ At(w, "guard") /\ FindDuplicate(Edit(w))
    /\ OwnsRecords(w) \/ tenant.strategy = "s4PriceList"
    /\ Step(w, "ok")
    /\ UNCHANGED <<tenant, line, feed, record, faults, crashed, raced, omitted, lost>>

NoteDuplicate(w) ==
    /\ At(w, "guard") /\ FindDuplicate(Edit(w)) /\ ~LegacyProperty(w) /\ ~OwnsRecords(w)
    /\ tenant.strategy \in {"skipped", "dealPriceList"}
    /\ Note(w, FALSE, "ok")
    /\ UNCHANGED <<tenant, line, feed, faults, crashed, raced, omitted, lost>>

\* The newest association of the line decides what becomes of an edit of it.
Newest(l) ==
    LET of == {i \in DOMAIN record : feed[record[i].edit].kind = "association" /\ feed[record[i].edit].line = l}
    IN  IF of = {} THEN 0 ELSE CHOOSE i \in of : \A j \in of : j <= i
AssociationDone(l) == Newest(l) # 0 /\ record[Newest(l)].isSend

LegacySkip(w) ==
    /\ At(w, "guard") /\ LegacyProperty(w) /\ ~AssociationDone(feed[Edit(w)].line)
    /\ Note(w, FALSE, "ok")
    /\ UNCHANGED <<tenant, line, feed, faults, crashed, raced, omitted, lost>>

LegacyStart(w) ==
    /\ At(w, "guard") /\ LegacyProperty(w) /\ AssociationDone(feed[Edit(w)].line)
    /\ record' = Append(record, Document(Edit(w), FALSE, FALSE))
    /\ worker' = [worker EXCEPT ![w].pc = "read", ![w].rec = Len(record) + 1]
    /\ UNCHANGED <<tenant, line, feed, faults, crashed, raced, omitted, lost>>

Fault == faults < MaxFaults /\ faults' = faults + 1

\* Token and deal of the line come from HubSpot, but for an association under dealPriceList.
ResolveFails(w) ==
    /\ At(w, "debounce") /\ ~(tenant.strategy = "dealPriceList" /\ Kind(w) = "association")
    /\ Fault
    /\ Step(w, "error")
    /\ UNCHANGED <<tenant, line, feed, record, crashed, raced, omitted, lost>>

NoDeal(w) ==
    /\ At(w, "debounce") /\ Kind(w) = "property"
    /\ Fault
    /\ Note(w, FALSE, "error")
    /\ UNCHANGED <<tenant, line, feed, crashed, raced, omitted, lost>>

\* dealId is stamped by every strategy; only SkippedVersion asks for a property change.
AnyExecution(r) == r.deal /\ r.fresh /\ ~r.error
RecentExecution(r) ==
    /\ r.deal /\ r.fresh /\ ~r.error
    /\ tenant.strategy = "skipped" => feed[r.edit].kind = "property"
IsDebounced == tenant.debounce /\ \E i \in DOMAIN record : RecentExecution(record[i])

PassDebounce(w) ==
    /\ At(w, "debounce") /\ ~IsDebounced
    /\ Step(w, "create")
    /\ UNCHANGED <<tenant, line, feed, record, faults, crashed, raced, omitted, lost>>

NoteDebounced(w) ==
    /\ At(w, "debounce") /\ IsDebounced /\ tenant.strategy # "s4PriceList"
    /\ Note(w, TRUE, "ok")
    /\ UNCHANGED <<tenant, line, feed, faults, crashed, raced, omitted, lost>>

SkipDebounced(w) ==
    /\ At(w, "debounce") /\ IsDebounced /\ tenant.strategy = "s4PriceList"
    /\ Step(w, "ok")
    /\ UNCHANGED <<tenant, line, feed, record, faults, crashed, raced, omitted, lost>>

Create(w) ==
    /\ At(w, "create") /\ ~Collides(Edit(w))
    /\ record' = Append(record, Document(Edit(w), TRUE, FALSE))
    /\ worker' = [worker EXCEPT ![w].pc = "read", ![w].rec = Len(record) + 1]
    /\ UNCHANGED <<tenant, line, feed, faults, crashed, raced, omitted, lost>>

CreateCollides(w) ==
    /\ At(w, "create") /\ Collides(Edit(w))
    /\ Step(w, IF tenant.strategy = "dealPriceList" THEN "error" ELSE "reclaim")
    /\ UNCHANGED <<tenant, line, feed, record, faults, crashed, raced, omitted, lost>>

AnyAttempt(r, e) == SameEvent(r, e) /\ ~r.isSend
Claimable(r, e) == SameEvent(r, e) /\ FailedAttempt(r)

\* claimFailedAttempt: one findOneAndUpdate, before the create and again when it collides.
ClaimFailedAttempt(w, i) ==
    /\ worker[w].pc \in {"claim", "reclaim"} /\ Claimable(record[i], Edit(w))
    /\ record' = [record EXCEPT ![i].error = FALSE, ![i].deal = TRUE, ![i].read = FALSE]
    /\ worker' = [worker EXCEPT ![w].pc = "read", ![w].rec = i]
    /\ UNCHANGED <<tenant, line, feed, faults, crashed, raced, omitted, lost>>

NothingToClaim(w) ==
    /\ worker[w].pc \in {"claim", "reclaim"}
    /\ \A i \in DOMAIN record : ~Claimable(record[i], Edit(w))
    /\ Step(w, IF At(w, "claim") THEN "create" ELSE "ok")
    /\ UNCHANGED <<tenant, line, feed, record, faults, crashed, raced, omitted, lost>>

\* The lines an execution reads: the edited one, those with a base price, or the whole deal.
Scope(w) ==
    CASE LegacyProperty(w) -> {feed[Edit(w)].line} \cap {l \in Line : line[l].safe}
      [] tenant.strategy = "skipped" /\ Kind(w) = "property" -> {l \in Line : line[l].on /\ line[l].safe}
      [] OTHER -> {l \in Line : line[l].on}

Snapshot(w, S) == [l \in Line |-> IF l \in S THEN line[l].input ELSE Nothing]

\* An execution succeeds without the lines whose reading failed, that HubSpot's index does not
\* list, that SAP does not price, or that HubSpot refuses of a batch, as long as one is left; the
\* legacy recalculation knows one line, and fails with it.
LeavesOut(w, of, out) ==
    IF out = {} THEN UNCHANGED faults
    ELSE out \subseteq of /\ out # of /\ ~LegacyProperty(w) /\ Fault

Read(w) ==
    /\ At(w, "read") /\ Scope(w) # {}
    /\ \E out \in SUBSET Line :
        /\ LeavesOut(w, Scope(w), out)
        /\ worker' = [worker EXCEPT ![w].pc = "write", ![w].seen = Snapshot(w, Scope(w) \ out)]
        /\ omitted' = omitted \cup out
    /\ record' = [record EXCEPT ![worker[w].rec].read = TRUE]
    /\ UNCHANGED <<tenant, line, feed, crashed, raced, lost>>

NoBasePrice(w) ==
    /\ At(w, "read") /\ Scope(w) = {}
    /\ Step(w, "fail")
    /\ UNCHANGED <<tenant, line, feed, record, faults, crashed, raced, omitted, lost>>

ExecutionFails(w) ==
    /\ worker[w].pc \in {"read", "write"}
    /\ Fault
    /\ Step(w, "fail")
    /\ UNCHANGED <<tenant, line, feed, record, crashed, raced, omitted, lost>>

\* Price lists and quantities go out beside the price, miscelaneo does not; a base price is
\* written by every flow that asks SAP.
WritesInput == tenant.strategy \in {"dealPriceList", "s4PriceList"}
WrittenLine(w, l) ==
    [line[l] EXCEPT !.price = worker[w].seen[l],
                    !.input = IF WritesInput THEN worker[w].seen[l] ELSE @,
                    !.safe = @ \/ tenant.strategy \notin BusinessPartner \/ Kind(w) = "association"]

SeenBy(w) == {l \in Line : worker[w].seen[l] # Nothing}

Write(w) ==
    /\ At(w, "write")
    /\ \E out \in SUBSET Line :
        /\ LeavesOut(w, SeenBy(w), out)
        /\ line' = [l \in Line |-> IF l \in SeenBy(w) \ out THEN WrittenLine(w, l) ELSE line[l]]
        /\ omitted' = (omitted \ SeenBy(w)) \cup out
    /\ Step(w, "mark")
    /\ UNCHANGED <<tenant, feed, record, crashed, raced, lost>>

MarkAsSent(w) ==
    /\ At(w, "mark")
    /\ record' = [record EXCEPT ![worker[w].rec].isSend = TRUE, ![worker[w].rec].error = FALSE]
    /\ Step(w, "ok")
    /\ UNCHANGED <<tenant, line, feed, faults, crashed, raced, omitted, lost>>

LeftInFlight(i) == record
ErrorSaved(i) == [record EXCEPT ![i].isSend = FALSE, ![i].error = TRUE]

\* HubSpot has heard or will hear a good answer about the event from another attempt at it.
AnsweredBesides(w) ==
    \/ feed[Edit(w)].acked
    \/ \E v \in Worker : At(v, "ok") /\ Edit(v) = Edit(w)
    \/ \E i \in DOMAIN record \ {worker[w].rec} : SameEvent(record[i], Edit(w)) /\ Repeats(record[i])

MarkAsError(w) ==
    /\ At(w, "fail")
    /\ record' = ErrorSaved(worker[w].rec)
    /\ Step(w, "error")
    /\ lost' = (lost \/ AnsweredBesides(w))
    /\ UNCHANGED <<tenant, line, feed, faults, crashed, raced, omitted>>

\* An answer HubSpot no longer waits for is one it has called again before.
Answer(w) ==
    /\ worker[w].pc \in {"ok", "error"}
    /\ feed' = [feed EXCEPT ![Edit(w)].acked = @ \/ At(w, "ok")]
    /\ worker' = [worker EXCEPT ![w] = Idle]
    /\ UNCHANGED <<tenant, line, record, faults, crashed, raced, omitted, lost>>

-------------------------------------------------------------------------------
(* Time and crashes                                                             *)

\* secondsToSkipped have gone by since the oldest record that still counted was created.
WindowPasses ==
    /\ \E i \in DOMAIN record :
        /\ record[i].fresh /\ \A j \in DOMAIN record : record[j].fresh => i <= j
        /\ record' = [record EXCEPT ![i].fresh = FALSE]
    /\ UNCHANGED <<tenant, line, feed, worker, faults, crashed, raced, omitted, lost>>

Crash ==
    /\ \E w \in Worker : ~At(w, "idle")
    /\ Fault
    /\ crashed' = TRUE
    /\ worker' = [w \in Worker |-> Idle]
    /\ UNCHANGED <<tenant, line, feed, record, raced, omitted, lost>>

Handle(w) ==
    \/ PassGuard(w) \/ SkipDuplicate(w) \/ NoteDuplicate(w) \/ LegacySkip(w) \/ LegacyStart(w)
    \/ ResolveFails(w) \/ NoDeal(w)
    \/ PassDebounce(w) \/ NoteDebounced(w) \/ SkipDebounced(w)
    \/ Create(w) \/ CreateCollides(w) \/ NothingToClaim(w)
    \/ (\E i \in DOMAIN record : ClaimFailedAttempt(w, i))
    \/ Read(w) \/ NoBasePrice(w) \/ ExecutionFails(w) \/ Write(w)
    \/ MarkAsSent(w) \/ MarkAsError(w) \/ Answer(w)

Next ==
    \/ \E l \in Line : AddLine(l) \/ EditLine(l)
    \/ \E w \in Worker : Handle(w) \/ (\E e \in DOMAIN feed : Deliver(w, e))
    \/ WindowPasses
    \/ Crash

Spec == Init /\ [][Next]_priceVars

-------------------------------------------------------------------------------
Quiet == (\A w \in Worker : At(w, "idle")) /\ \A e \in DOMAIN feed : feed[e].acked
Wanted(l) ==
    LET of == {e \in DOMAIN feed : feed[e].kind = "property" /\ feed[e].line = l}
    IN  IF of = {} THEN 0 ELSE CHOOSE e \in of : \A d \in of : d <= e
Priced(l) == line[l].on => line[l].price = Wanted(l) /\ line[l].input = Wanted(l)

\* At rest, with every event answered, every line of the deal carries the price of the
\* advisor's last edit, but for a line edited after a reading that still counted (in flight,
\* or within the window its record silences webhooks) and one that a successful execution left
\* out and none has written since; unless a process died, or an attempt failed whose event
\* another attempt, at work beside it, answers to HubSpot (preparePayload,
\* handlePropertyChangeEvent, handlePropertyChangeEventSkipped).
PriceFollowsEdits ==
    (Quiet /\ ~lost /\ ~crashed) => \A l \in Line \ (raced \cup omitted) : Priced(l)

\* However often and however close together HubSpot delivers an association, at most one
\* handler works on it, and none after its record is marked sent (claimFailedAttempt).
AssociationPricedOnce ==
    \A e \in DOMAIN feed : feed[e].kind = "association" =>
        LET at == {w \in Worker : worker[w].pc \in Executing /\ Edit(w) = e}
        IN  /\ Cardinality(at) <= 1
            /\ at # {} => \A i \in DOMAIN record : SameEvent(record[i], e) => ~record[i].isSend

\* A record that says in flight, which turns every repetition away, has a handler behind it
\* as long as no process died.
InFlightIsHeld ==
    ~crashed => \A i \in DOMAIN record :
        (~record[i].isSend /\ ~record[i].error) =>
            \E w \in Worker : worker[w].rec = i /\ worker[w].pc \in Executing

\* What the code says of the debounce (lineItemPriceWebhook.service.js:386-388, 429-431): a
\* webhook it drops was not needed, and a race never leaves a wrong price.
RaceCausesNoBadPrice ==
    (Quiet /\ ~lost /\ ~crashed /\ tenant.strategy = "skipped") => \A l \in Line \ omitted : Priced(l)

\* What dealPriceListLineItemPriceWebhook.service.js:201-202 says: HubSpot's retry of an event
\* we failed is carried out.
RetryIsExecuted ==
    [][\A w \in Worker :
        (At(w, "create") /\ \E i \in DOMAIN record : SameEvent(record[i], Edit(w)) /\ FailedAttempt(record[i]))
            => worker[w]'.pc # "error"]_priceVars
=============================================================================
