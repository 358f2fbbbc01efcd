------------------------------ MODULE CrmBatches ------------------------------
(* The batched synchronisation of a tenant's business partners to HubSpot      *)
(* contacts (ProcessCrmObjectBatches.js): one sweep of the portal, a plan of   *)
(* creates and updates, waves of batches, and the one-by-one path of           *)
(* SendMappedItemsToHubspot.js for what a batch cannot take. The same rows are *)
(* synchronised run after run. HubSpot refuses a contact whose email another   *)
(* has, and its search does not find at once what has just been created.       *)
EXTENDS CrmIndex

CONSTANTS
    Data,           \* the SAP rows considered, each with its contact employees
    Portals,        \* what HubSpot may hold before the first run
    Configs,        \* <<bypass, mode, bad, writable, codeWritable>> considered
    ChunkSize, Concurrency,
    MaxRuns,        \* bound of the runs
    MaxFaults       \* bound of failed calls and of contacts made by others

\* A partner is looked for by its identity first; its rows have no key of an employee.
ASSUME PartnerTiers == Tiers \in Seq(Property) /\ Len(Tiers) > 1 /\ Tiers[1] = "idsap"
ASSUME DataAssumption ==
    \A d \in Data :
        /\ d.rows \in Seq(ToSet(d.rows)) /\ DOMAIN d.children = DOMAIN d.rows
        /\ \A r \in DOMAIN d.rows :
              /\ DOMAIN d.rows[r] = Property /\ d.rows[r].code = ""
              /\ d.children[r] \in Seq(ToSet(d.children[r]))
              /\ \A j \in DOMAIN d.children[r] : DOMAIN d.children[r][j] = Property
ASSUME PortalsAssumption ==
    \A p \in Portals : p \in Seq(ToSet(p)) /\ \A i \in DOMAIN p : DOMAIN p[i] = Property
ASSUME CrmBounds == {ChunkSize, Concurrency} \subseteq Nat \ {0} /\ {MaxRuns, MaxFaults} \subseteq Nat

VARIABLES
    rows, children,         \* business partners, and row -> contact employees
    bypass, mode,           \* the tenant's configuration
    bad,                    \* rows with a property HubSpot refuses
    writable, codeWritable, \* whether the portal can write idsap, internalcode
    portal,                 \* records, with the ghosts by, run and how
    registry,               \* SAP id -> HubSpot id of the association registry
    run, pc,
    index,                  \* the sweep
    known,                  \* what is known of writable: "yes", "no" or "null"
    tasks,                  \* the chunks of a phase
    processed,              \* row -> HubSpot id
    updates,                \* <<row, HubSpot id>> planned
    sent, failed,
    adopted,                \* ghost: records the one-by-one path has put an identity on
    faults

config == <<rows, children, bypass, mode, bad, writable, codeWritable>>
vars == <<config, portal, registry, run, pc, index, known, tasks, processed,
          updates, sent, failed, adopted, faults>>

Row == DOMAIN rows
SapIds == {rows[r].idsap : r \in Row} \ {""}
Lead == [by |-> 0, run |-> 0, how |-> "user"]

Init ==
    /\ \E d \in Data : rows = d.rows /\ children = d.children
    /\ \E c \in Configs :
          bypass = c[1] /\ mode = c[2] /\ bad = c[3]
          /\ writable = c[4] /\ codeWritable = c[5]
    /\ \E p \in Portals : portal = [i \in DOMAIN p |-> Marked(p[i], Lead)]
    /\ registry = << >>
    /\ run = 0
    /\ pc = "idle"
    /\ index = <<>>
    /\ known = "null"
    /\ tasks = <<>>
    /\ processed = << >>
    /\ updates = <<>>
    /\ sent = 0
    /\ failed = 0
    /\ adopted = {}
    /\ faults = 0

Fault == faults < MaxFaults /\ faults' = faults + 1

\* Registered mappings replace what the SAP id was mapped to.
Register(mappings) == registry' = mappings @@ registry

MappingOf(r, id) == IF rows[r].idsap = "" THEN << >> ELSE rows[r].idsap :> id
-----------------------------------------------------------------------------
(* HubSpot                                                                   *)

\* sanitizeProperties: what the portal cannot write is not sent.
Payload(r) == IF known = "no" THEN [rows[r] EXCEPT !.idsap = ""] ELSE rows[r]

\* 400: a property HubSpot does not take, in any input.
Rejected(chunk) ==
    \/ \E i \in DOMAIN chunk : chunk[i] \in bad
    \/ ~writable /\ known # "no"

\* The one-by-one path sends the properties as they are.
ItemRejected(r) == r \in bad \/ ~writable

Record(r, how) ==
    Marked(IF how = "item" THEN rows[r] ELSE Payload(r), [by |-> r, run |-> run, how |-> how])

\* The inputs are applied in an order of HubSpot's.
Created(order) == portal \o [i \in DOMAIN order |-> Record(order[i], "batch")]

IdentityOnly(r, id) == [portal EXCEPT ![id].idsap = rows[r].idsap]

\* The search finds the identity, or else a record of the second property that
\* no SAP row owns; it may miss what this run has created.
SearchHits(r, name, seen) ==
    {i \in Same(portal, name, rows[r]) \cap seen :
        name = Tiers[1] \/ \A o \in Ownership : portal[i][o] = ""}

Find(r, seen) ==
    LET own == SearchHits(r, Tiers[1], seen)
        second == SearchHits(r, Tiers[2], seen)
    IN  IF own # {} THEN Min(own) ELSE IF second # {} THEN Min(second) ELSE 0

Visible == {seen \in SUBSET DOMAIN portal :
               {i \in DOMAIN portal : portal[i].run < run} \subseteq seen}
-----------------------------------------------------------------------------
(* execute: validation, sweep, writable properties                           *)

\* Rows without an email are left out unless the tenant bypasses the check;
\* they count as sent and are registered without a HubSpot id.
Syncable == {r \in Row : bypass \/ rows[r].email # ""}

Skipped == Row \ Syncable

BeginRun ==
    /\ pc = "idle"
    /\ run < MaxRuns
    /\ run' = run + 1
    /\ pc' = IF Syncable = {} THEN "idle" ELSE "sweep"
    /\ Register([s \in {rows[r].idsap : r \in Skipped} \ {""} |-> 0])
    /\ sent' = Cardinality(Skipped)
    /\ failed' = 0
    /\ adopted' = {}
    /\ processed' = << >>
    /\ updates' = <<>>
    /\ tasks' = <<>>
    /\ known' = "null"
    /\ UNCHANGED <<config, portal, index, faults>>

Task(chunk) ==
    [chunk |-> chunk, queue |-> <<chunk>>, created |-> {}, conflicts |-> << >>,
     errors |-> 0, failedRows |-> 0, items |-> <<>>]

\* Every row one by one, and nothing after that.
Degrade(chunk) ==
    /\ tasks' = <<[Task(chunk) EXCEPT !.queue = <<>>, !.items = chunk]>>
    /\ pc' = "items"

Sweep ==
    /\ pc = "sweep"
    /\ \/ /\ index' = portal
          /\ pc' = "properties"
          /\ UNCHANGED <<tasks, faults>>
       \/ /\ Fault
          /\ Degrade(Ordered(Syncable))
          /\ UNCHANGED index
    /\ UNCHANGED <<config, adopted, portal, registry, run, known, processed, updates, sent, failed>>

RefusesPortal == ~writable

ReadProperties ==
    /\ pc = "properties"
    /\ \/ /\ known' = IF writable THEN "yes" ELSE "no"
          /\ IF RefusesPortal THEN Degrade(Ordered(Syncable)) ELSE pc' = "plan" /\ UNCHANGED tasks
          /\ UNCHANGED faults
       \/ /\ Fault
          /\ known' = "null"
          /\ pc' = "plan"
          /\ UNCHANGED tasks
    /\ UNCHANGED <<config, adopted, portal, registry, run, index, processed, updates, sent, failed>>
-----------------------------------------------------------------------------
(* execute: the plan                                                         *)

Hit(r) == Match(index, rows[r])

\* A record is handed to one row of a run, the first that finds it.
Recognised == {r \in Syncable : Hit(r).id # 0 /\ \A q \in Syncable : q < r => Hit(q).id # Hit(r).id}

\* A row that finds a record taken already is its double if it is the identity that finds it.
Unmatched == {r \in Syncable \ Recognised : Hit(r).via # 1}

\* A row is a double of an earlier one only by its own first key.
Double(r, q) == q < r /\ KeyTiers(rows[r]) # {} /\ OwnKey(rows[r]) \in DedupeKeys(rows[q])

\* What is created: the unmatched rows that are no double of one that is.
Creates == CHOOSE C \in SUBSET Unmatched : \A r \in Unmatched : r \in C <=> ~\E q \in C : Double(r, q)

\* buildBatchUpdateEntry: only identifiers are written, and only when a key
\* field differs.
NeedsUpdate(r, id) ==
    /\ rows[r].idsap # ""
    /\ index[id].idsap # rows[r].idsap \/ index[id].phone # rows[r].phone

Plan ==
    /\ pc = "plan"
    /\ LET wanted == {r \in Recognised : mode = "SAP" \/ NeedsUpdate(r, Hit(r).id)}
           doubles == Syncable \ (Recognised \cup Creates)
           chunks == ChunkArray(Ordered(Creates), ChunkSize)
       IN  /\ processed' = [r \in Recognised |-> Hit(r).id]
           /\ updates' = [i \in DOMAIN Ordered(wanted) |-> <<Ordered(wanted)[i], Hit(Ordered(wanted)[i]).id>>]
           /\ sent' = sent + Cardinality(doubles) + Cardinality(Recognised \ wanted)
           /\ tasks' = [i \in DOMAIN chunks |-> Task(chunks[i])]
    /\ pc' = IF mode = "SAP" THEN "sap" ELSE "create"
    /\ UNCHANGED <<config, adopted, portal, registry, run, index, known, failed, faults>>

\* SAP is written one business partner after the other.
UpdateSap ==
    /\ pc = "sap"
    /\ \/ /\ updates # <<>>
          /\ updates' = Tail(updates)
          /\ \/ sent' = sent + 1 /\ UNCHANGED <<failed, faults>>
             \/ Fault /\ failed' = failed + 1 /\ UNCHANGED sent
          /\ UNCHANGED pc
       \/ /\ updates = <<>>
          /\ pc' = "create"
          /\ UNCHANGED <<updates, sent, failed, faults>>
    /\ UNCHANGED <<config, adopted, portal, registry, run, index, known, tasks, processed>>
-----------------------------------------------------------------------------
(* execute: the create waves, createWithConflictSplit                        *)

Finished(task) == task.queue = <<>> /\ task.items = <<>> /\ task.chunk = <<>>

\* runInWaves: a chunk starts when every chunk of the wave before has ended.
Running(k) ==
    \A j \in DOMAIN tasks :
        (j - 1) \div Concurrency < (k - 1) \div Concurrency => Finished(tasks[j])

AmplifiesUnknown(failure) == failure \in {"payload", "unknown"}

\* Only a payload failure is taken apart row by row.
OneByOne(failure) == failure = "payload"

\* A failed chunk goes to the one-by-one path or is counted.
GiveUp(task, chunk, failure) ==
    IF OneByOne(failure) THEN [task EXCEPT !.items = @ \o chunk]
    ELSE [task EXCEPT !.failedRows = @ + Len(chunk)]

Answered(k, task) == tasks' = [tasks EXCEPT ![k] = [task EXCEPT !.queue = Tail(@)]]

SendCreate(k) ==
    LET task == tasks[k]
        chunk == Head(task.queue)
        refused == Rejected(chunk)
        conflict == ~refused /\ Collides(portal, rows, chunk)
    IN  /\ pc = "create"
        /\ Running(k)
        /\ task.queue # <<>>
        /\ \/ /\ refused
              /\ Answered(k, GiveUp(task, chunk, "payload"))
              /\ UNCHANGED <<portal, faults>>
           \/ /\ conflict /\ Len(chunk) > 1
              /\ Answered(k, [task EXCEPT !.queue = @ \o Halves(chunk)])
              /\ UNCHANGED <<portal, faults>>
           \/ /\ conflict /\ Len(chunk) = 1
              /\ \/ /\ Answered(k, [task EXCEPT !.conflicts =
                              @ @@ (chunk[1] :> Min(Same(portal, "email", rows[chunk[1]])))])
                    /\ UNCHANGED faults
                 \/ Fault /\ Answered(k, [task EXCEPT !.failedRows = @ + 1])
              /\ UNCHANGED portal
           \/ /\ ~refused /\ ~conflict
              /\ \E order \in SetToSeqs(ToSet(chunk)) :
                    /\ portal' = Created(order)
                    /\ Answered(k, [task EXCEPT !.created =
                           @ \cup {Len(portal) + i : i \in DOMAIN order}])
              /\ UNCHANGED faults
           \/ /\ ~refused /\ ~conflict        \* 207
              /\ Fault
              /\ \E some \in SUBSET ToSet(chunk) \ {ToSet(chunk)} : \E order \in SetToSeqs(some) :
                    /\ portal' = Created(order)
                    /\ Answered(k, [task EXCEPT
                           !.created = @ \cup {Len(portal) + i : i \in DOMAIN order},
                           !.errors = @ + Len(chunk) - Len(order)])
           \/ /\ Fault                        \* a rate limit, a fatal, no answer
              /\ \/ /\ UNCHANGED portal
                    /\ \E failure \in {"fatal", "unknown"} :
                          Answered(k, GiveUp(task, chunk, failure))
                 \/ /\ ~refused /\ ~conflict
                    /\ portal' = Created(chunk)
                    /\ Answered(k, GiveUp(task, chunk, "unknown"))
        /\ UNCHANGED <<config, adopted, registry, run, pc, index, known, processed, updates, sent, failed>>

ByPosition(task) ==
    LET ids == SetToSortSeq(task.created, <)
    IN  [r \in {task.chunk[i] : i \in DOMAIN task.chunk \cap DOMAIN ids} |->
            ids[CHOOSE i \in DOMAIN ids : task.chunk[i] = r]]

Echoes(task, name, id) ==
    {i \in DOMAIN task.chunk :
        portal[id][name] # "" /\ rows[task.chunk[i]][name] = portal[id][name]}

\* matchCreatedRecords: a record is its row's by the identity it echoes, or
\* else by the second property.
RowOf(task, id) ==
    LET own == Echoes(task, Tiers[1], id)
        second == Echoes(task, Tiers[2], id)
    IN  IF own # {} THEN task.chunk[Min(own)]
        ELSE IF second # {} THEN task.chunk[Min(second)] ELSE 0

Matched(task) ==
    LET owners == {RowOf(task, id) : id \in task.created} \ {0}
    IN  [r \in owners |-> CHOOSE id \in task.created : RowOf(task, id) = r]

Mappings(found) ==
    [s \in {rows[r].idsap : r \in DOMAIN found} \ {""} |->
        found[CHOOSE r \in DOMAIN found : rows[r].idsap = s]]

CountsTwice(task) == 2 * Cardinality(task.created)

CountsCreated(task) == Cardinality(task.created)

CountsSent(task) == Cardinality(task.created) + Cardinality(DOMAIN task.conflicts)

\* What a chunk's answers mean, once its last part has been answered.
Settle(k) ==
    LET task == tasks[k]
        found == Matched(task) @@ task.conflicts
    IN  /\ pc = "create"
        /\ Running(k)
        /\ task.queue = <<>> /\ task.chunk # <<>>
        /\ processed' = found @@ processed
        /\ Register(Mappings(found))
        /\ sent' = sent + CountsSent(task)
        /\ failed' = failed + task.errors + task.failedRows
        /\ tasks' = [tasks EXCEPT ![k].chunk = <<>>]
        /\ UNCHANGED <<config, adopted, portal, run, pc, index, known, updates, faults>>
-----------------------------------------------------------------------------
(* processSingleItem                                                         *)

CreateItem(r) ==
    \/ /\ ~ItemRejected(r) /\ ~EmailTaken(portal, rows[r])
       /\ portal' = Append(portal, Record(r, "item"))
       /\ \/ /\ Register(MappingOf(r, Len(portal) + 1))
             /\ sent' = sent + 1
             /\ UNCHANGED <<failed, faults>>
          \/ /\ Fault
             /\ failed' = failed + 1
             /\ UNCHANGED sent
             /\ Register(MappingOf(r, Len(portal) + 1)) \/ UNCHANGED registry
    \/ /\ \/ (ItemRejected(r) \/ EmailTaken(portal, rows[r])) /\ UNCHANGED faults
          \/ Fault
       /\ failed' = failed + 1
       /\ UNCHANGED <<portal, registry, sent>>

\* update: nothing is sent when there is no identifier or no key field differs.
ItemUnchanged(r, id) ==
    \/ rows[r].idsap = ""
    \/ portal[id].idsap = rows[r].idsap /\ portal[id].phone = rows[r].phone

UpdateItem(r, id) ==
    /\ \/ /\ \/ (mode = "SAP" \/ ItemUnchanged(r, id)) /\ UNCHANGED portal
             \/ /\ mode = "HUBSPOT" /\ ~ItemUnchanged(r, id) /\ ~ItemRejected(r)
                /\ portal' = IdentityOnly(r, id)
          /\ sent' = sent + 1
          /\ UNCHANGED <<failed, faults>>
       \/ /\ \/ /\ mode = "HUBSPOT" /\ ~ItemUnchanged(r, id) /\ ItemRejected(r)
                /\ UNCHANGED <<portal, faults>>
             \/ /\ Fault                     \* no answer: it may have been written
                /\ \/ UNCHANGED portal
                   \/ /\ mode = "HUBSPOT" /\ ~ItemUnchanged(r, id) /\ ~ItemRejected(r)
                      /\ portal' = IdentityOnly(r, id)
          /\ failed' = failed + 1
          /\ UNCHANGED sent
    /\ UNCHANGED registry

\* processItemsSequentially: one row after the other within its chunk.
Item(k) ==
    LET r == Head(tasks[k].items)
    IN  /\ pc \in {"items", "create", "update"}
        /\ Running(k)
        /\ tasks[k].items # <<>>
        /\ tasks[k].queue = <<>>
        /\ pc = "items" \/ tasks[k].chunk = <<>>
        /\ \E seen \in Visible :
              LET id == Find(r, seen)
              IN  /\ IF id = 0 THEN CreateItem(r) ELSE UpdateItem(r, id)
                  /\ adopted' = IF id # 0 /\ portal[id].idsap = "" THEN adopted \cup {id} ELSE adopted
        /\ tasks' = [tasks EXCEPT ![k].items = Tail(@)]
        /\ UNCHANGED <<config, run, pc, index, known, processed, updates>>

BeginUpdates ==
    /\ pc = "create"
    /\ \A k \in DOMAIN tasks : Finished(tasks[k])
    /\ pc' = "update"
    /\ LET chunks == ChunkArray(updates, ChunkSize) IN tasks' = [i \in DOMAIN chunks |-> Task(chunks[i])]
    /\ UNCHANGED <<config, adopted, portal, registry, run, index, known, processed, updates,
                   sent, failed, faults>>
-----------------------------------------------------------------------------
(* execute: the update waves                                                 *)

RowsOf(chunk) == [i \in DOMAIN chunk |-> chunk[i][1]]
IdsOf(chunk) == [i \in DOMAIN chunk |-> chunk[i][2]]

Written(chunk, done) ==
    [id \in DOMAIN portal |->
        IF \E i \in done : chunk[i][2] = id
        THEN [portal[id] EXCEPT !.idsap = rows[chunk[CHOOSE i \in done : chunk[i][2] = id][1]].idsap]
        ELSE portal[id]]

UpdateRefused(chunk) == Rejected(RowsOf(chunk)) \/ ~IsInjective(IdsOf(chunk))

Closed(k, items) ==
    tasks' = [tasks EXCEPT ![k] = [@ EXCEPT !.queue = <<>>, !.chunk = <<>>, !.items = items]]

Count(good, chunk) ==
    /\ sent' = sent + good
    /\ failed' = failed + Len(chunk) - good

SendUpdate(k) ==
    LET chunk == tasks[k].chunk
    IN  /\ pc = "update"
        /\ Running(k)
        /\ tasks[k].queue # <<>>
        /\ \/ /\ UpdateRefused(chunk)
              /\ Closed(k, RowsOf(chunk))
              /\ processed' = [r \in DOMAIN processed \ ToSet(RowsOf(chunk)) |-> processed[r]]
              /\ UNCHANGED <<portal, sent, failed, faults>>
           \/ /\ ~UpdateRefused(chunk)
              /\ Closed(k, <<>>)
              /\ \/ portal' = Written(chunk, DOMAIN chunk) /\ Count(Len(chunk), chunk)
                    /\ UNCHANGED faults
                 \/ \E done \in SUBSET DOMAIN chunk :       \* 207, or no answer
                       /\ Fault
                       /\ portal' = Written(chunk, done)
                       /\ Count(Cardinality(done), chunk) \/ Count(0, chunk)
              /\ UNCHANGED processed
        /\ UNCHANGED <<config, adopted, registry, run, pc, index, known, updates>>

\* The contact employees of what the run has placed; the one-by-one path has
\* synchronised its own.
HasChildren == pc = "update" /\ \E r \in DOMAIN processed : children[r] # <<>>

\* handleAssociations: what is left to do for the rows that have a record.
EndRun ==
    /\ pc \in {"update", "items"}
    /\ \A k \in DOMAIN tasks : tasks[k].queue = <<>> /\ tasks[k].items = <<>>
    /\ pc' = IF HasChildren THEN "children" ELSE "idle"
    /\ tasks' = <<>>
    /\ index' = <<>>
    /\ UNCHANGED <<config, adopted, portal, registry, run, known, processed, updates, sent, failed, faults>>

\* Somebody, or another integration, makes a contact while a run is on.
SomeoneCreates ==
    /\ pc \in {"properties", "plan", "create"}
    /\ Fault
    /\ \E r \in Row :
          /\ rows[r].email # ""
          /\ ~EmailTaken(portal, rows[r])
          /\ portal' = Append(portal, Marked([rows[r] EXCEPT !.idsap = "", !.phone = ""], Lead))
    /\ UNCHANGED <<config, adopted, registry, run, pc, index, known, tasks, processed, updates,
                   sent, failed>>

\* The runs of the bound are done.
Rest == pc = "idle" /\ run = MaxRuns /\ UNCHANGED vars

Next ==
    \/ BeginRun \/ Sweep \/ ReadProperties \/ Plan \/ UpdateSap \/ BeginUpdates
    \/ \E k \in DOMAIN tasks : SendCreate(k) \/ Settle(k) \/ Item(k) \/ SendUpdate(k)
    \/ SomeoneCreates \/ EndRun \/ Rest

Spec == Init /\ [][Next]_vars
-----------------------------------------------------------------------------
(* Properties                                                                *)

\* Shape of the state.
TypeOK ==
    /\ pc \in {"idle", "sweep", "properties", "plan", "sap", "create", "items", "update",
             "children", "childplan", "childcreate", "childupdate"}
    /\ run \in 0..MaxRuns
    /\ known \in {"null", "yes", "no"}
    /\ DOMAIN processed \subseteq Row
    /\ \A r \in DOMAIN processed : processed[r] \in DOMAIN portal
    /\ \A s \in DOMAIN registry : registry[s] \in 0..Len(portal)
    /\ sent \in 0..Len(rows) /\ failed \in 0..Len(rows)

\* A SAP business partner gets one HubSpot record, over all runs, conflicts,
\* lost answers and degraded runs: a create of unknown outcome is never repeated,
\* a row is not created twice in a run, and no record is created without the
\* identity the next run finds it by. Of two, one at least was made by the
\* one-by-one path, from a second row of the same partner, when the search did
\* not know the first one's yet.
OneRecordPerPartner ==
    \A i, j \in DOMAIN portal :
        (/\ i # j
         /\ portal[i].by # 0 /\ portal[j].by # 0
         /\ rows[portal[i].by].idsap # ""
         /\ rows[portal[i].by].idsap = rows[portal[j].by].idsap)
        => /\ "item" \in {portal[i].how, portal[j].how}
           /\ portal[i].by # portal[j].by /\ portal[i].run = portal[j].run

\* A record that carries the key of a SAP object keeps it: no other row adopts
\* it through a shared phone or email (belongsToAnotherSapRecord), but for one
\* the one-by-one path has taken in the same run.
OwnedRecordKept ==
    [][\A i \in DOMAIN portal \ adopted :
          /\ portal[i].idsap # "" => portal'[i].idsap = portal[i].idsap
          /\ portal[i].code # "" =>
                portal'[i].code = portal[i].code /\ portal'[i].idsap = portal[i].idsap]_vars

\* What the comments of execute and of sap-record-ownership.js say: of two rows
\* that share a lead one takes it and the other is created; nobody writes its
\* key over another's.
LeadTakenOnce ==
    [][\A i \in DOMAIN portal :
          portal[i].idsap # "" => portal'[i].idsap = portal[i].idsap]_vars

\* At the end of a run every row was counted once, as sent or as failed.
EveryRowCounted ==
    (pc = "idle" /\ run > 0) => sent + failed = Len(rows)

\* What the registry maps a business partner to is a record that carries its
\* key, or one that HubSpot named because it has the row's email.
RegistryTrue ==
    \A s \in DOMAIN registry : registry[s] # 0 =>
        \/ portal[registry[s]].idsap = s
        \/ portal[registry[s]].code = s
        \/ \E row \in ToSet(rows) \cup UNION {ToSet(children[r]) : r \in Row} :
              (row.idsap = s \/ row.code = s) /\ row.email = portal[registry[s]].email

\* No batch update names a record twice: HubSpot would refuse all of it.
NoDoubleInUpdate ==
    pc = "update" => \A k \in DOMAIN tasks : IsInjective(IdsOf(tasks[k].chunk))

\* A run in which nothing fails and no row is bad leaves every business partner
\* it may synchronise with a HubSpot record: conflicts are isolated, and the rows
\* that shared their chunk are created all the same.
InnocentsCreated ==
    (pc = "idle" /\ run > 0 /\ faults = 0 /\ bad = {} /\ writable) =>
        /\ failed = 0
        /\ \A r \in Syncable : rows[r].idsap # "" =>
              \E p \in DOMAIN processed : rows[p].idsap = rows[r].idsap
=============================================================================
