----------------------------- MODULE ChildContacts ----------------------------
(* The contact employees of the business partners a run has placed, which go   *)
(* to HubSpot as contacts of their own, associated to the partner's record     *)
(* (SyncCompanyContactsInBatches.js). They are found by internalcode, and      *)
(* share the contacts of the portal, and their unique emails, with the         *)
(* partners of CrmBatches, whose run they end.                                 *)
EXTENDS CrmBatches

CONSTANT ChildTiers

ASSUME EmployeeTiers == ChildTiers \in Seq(Property) /\ Len(ChildTiers) > 1 /\ ChildTiers[1] = "code"

Child == INSTANCE CrmIndex WITH Tiers <- ChildTiers

VARIABLES
    entries,        \* [parent, row]: the contact employees of the run
    groups,         \* entry -> the group of entries that are one contact
    ids,            \* group -> HubSpot id
    reported,       \* entries in contactErrors
    aborted,        \* the run gave its contact employees up as a whole
    linked          \* pairs HubSpot has associated

childVars == <<entries, groups, ids, reported, aborted, linked>>

SyncInit ==
    /\ Init
    /\ entries = <<>>
    /\ groups = <<>>
    /\ ids = << >>
    /\ reported = {}
    /\ aborted = FALSE
    /\ linked = {}

Props(e) == entries[e].row

\* The rows of the plan leave what the business partners have alone.
BpUnchanged == UNCHANGED <<config, run, adopted, processed, updates, sent, failed>>
-----------------------------------------------------------------------------
(* buildEntries, buildIndex and the identity guard                           *)

Placed == Ordered(Row \cap DOMAIN processed)

EntriesOf(r) ==
    LET kept == Ordered({j \in DOMAIN children[r] : bypass \/ children[r][j].email # ""})
    IN  [i \in DOMAIN kept |-> [parent |-> processed[r], row |-> children[r][kept[i]]]]

\* Nobody is created blindly: without the sweep, or where internalcode cannot
\* be written, there is one error for all.
Abort ==
    /\ aborted' = TRUE
    /\ pc' = "idle"
    /\ UNCHANGED index

BeginChildren ==
    /\ pc = "children"
    /\ entries' = FlattenSeq([i \in DOMAIN Placed |-> EntriesOf(Placed[i])])
    /\ groups' = <<>> /\ ids' = << >> /\ reported' = {} /\ linked' = {}
    /\ \/ /\ known' = "null"
          /\ Fault
          /\ Abort
       \/ /\ known' = IF codeWritable THEN "yes" ELSE "no"
          /\ IF codeWritable
             THEN /\ index' = portal
                  /\ pc' = IF entries' = <<>> THEN "idle" ELSE "childplan"
                  /\ aborted' = FALSE
             ELSE Abort
          /\ UNCHANGED faults
       \/ /\ known' = "null"                 \* the property lookup failed
          /\ Fault
          /\ index' = portal
          /\ pc' = IF entries' = <<>> THEN "idle" ELSE "childplan"
          /\ aborted' = FALSE
    /\ UNCHANGED <<portal, registry, tasks>>
    /\ BpUnchanged
-----------------------------------------------------------------------------
(* execute: the groups                                                       *)

ChildHit(e) == Child!Match(index, Props(e))

\* The earlier entries that have the entry's own first key.
Keepers(e) == {q \in DOMAIN entries : q < e /\ Child!OwnKey(Props(e)) \in Child!DedupeKeys(Props(q))}

\* A record that exists decides; else the entry's own first key, which the
\* earliest entry that has it keeps for its group.
OwnGroup(gs, e) == <<"entry", e>>
GroupOf(gs, e) ==
    CASE ChildHit(e).id # 0 -> <<"record", ChildHit(e).id>>
      [] ChildHit(e).id = 0 /\ Child!KeyTiers(Props(e)) = {} -> <<"entry", e>>
      [] OTHER -> IF Keepers(e) = {} THEN Child!OwnKey(Props(e)) ELSE gs[Min(Keepers(e))]

GroupPlan == LET gs[e \in DOMAIN entries] == GroupOf(gs, e) IN gs

\* The entry that is written for its group, and the codes it is written for.
First(gs, e) == \A f \in 1..e - 1 : gs[f] # gs[e]

GroupCodes(group) == {Props(e).code : e \in {f \in DOMAIN entries : groups[f] = group}} \ {""}

Identifier(record) == IF record.idsap # "" THEN record.idsap ELSE record.code

ChildNeedsUpdate(e, id) ==
    /\ Props(e).code # ""
    /\ Identifier(index[id]) # Props(e).code \/ index[id].phone # Props(e).phone

PlanChildren ==
    /\ pc = "childplan"
    /\ groups' = GroupPlan
    /\ LET firsts == {e \in DOMAIN entries : First(groups', e)}
           chunks == ChunkArray(Ordered({e \in firsts : groups'[e][1] # "record"}), ChunkSize)
       IN  /\ ids' = [g \in {h \in ToSet(groups') : h[1] = "record"} |-> g[2]]
           /\ tasks' = [i \in DOMAIN chunks |-> Task(chunks[i])]
    /\ pc' = "childcreate"
    /\ UNCHANGED <<portal, registry, index, known, faults, entries, reported, aborted, linked>>
    /\ BpUnchanged
-----------------------------------------------------------------------------
(* createContactBatches                                                      *)

ChildRecord(e, how) == Marked(Props(e), [by |-> 0, run |-> run, how |-> how])

ChildRejected == ~codeWritable

EntryRows == [e \in DOMAIN entries |-> Props(e)]

NeverReported(chunk) == {}

\* recordContactChunkFailure: the whole chunk is reported, nothing is repeated.
ChunkReported(chunk) == ToSet(chunk)

SendChild(k) ==
    LET task == tasks[k]
        chunk == Head(task.queue)
        conflict == ~ChildRejected /\ Collides(portal, EntryRows, chunk)
        clear == ~ChildRejected /\ ~conflict
    IN  /\ pc = "childcreate"
        /\ Running(k)
        /\ task.queue # <<>>
        /\ \/ /\ ChildRejected
              /\ Answered(k, [task EXCEPT !.items = @ \o chunk])
              /\ UNCHANGED <<portal, reported, faults>>
           \/ /\ conflict /\ Len(chunk) > 1
              /\ Answered(k, [task EXCEPT !.queue = @ \o Halves(chunk)])
              /\ UNCHANGED <<portal, reported, faults>>
           \/ /\ conflict /\ Len(chunk) = 1
              /\ Answered(k, [task EXCEPT !.conflicts =
                     @ @@ (chunk[1] :> Min(Same(portal, "email", Props(chunk[1]))))])
              /\ UNCHANGED <<portal, reported, faults>>
           \/ /\ clear
              /\ \E order \in SetToSeqs(ToSet(chunk)) :
                    portal' = portal \o [i \in DOMAIN order |-> ChildRecord(order[i], "batch")]
              /\ Answered(k, [task EXCEPT !.created =
                     @ \cup {Len(portal) + i : i \in DOMAIN chunk}])
              /\ UNCHANGED <<reported, faults>>
           \/ /\ clear                        \* 207
              /\ Fault
              /\ \E some \in SUBSET ToSet(chunk) \ {ToSet(chunk)} : \E order \in SetToSeqs(some) :
                    /\ portal' = portal \o [i \in DOMAIN order |-> ChildRecord(order[i], "batch")]
                    /\ Answered(k, [task EXCEPT
                           !.created = @ \cup {Len(portal) + i : i \in DOMAIN order},
                           !.errors = @ + Len(chunk) - Len(order)])
              /\ UNCHANGED reported
           \/ /\ Fault          \* a conflict without an id, a rate limit, no answer
              /\ \/ UNCHANGED portal
                 \/ /\ clear
                    /\ portal' = portal \o [i \in DOMAIN chunk |-> ChildRecord(chunk[i], "batch")]
              /\ Answered(k, [task EXCEPT !.failedRows = @ + Len(chunk)])
              /\ reported' = reported \cup ChunkReported(chunk)
        /\ UNCHANGED <<registry, pc, index, known, entries, groups, ids, aborted, linked>>
        /\ BpUnchanged

\* The record HubSpot echoes an entry's internalcode on, or, for an entry that
\* has none, its second property.
EchoOf(task, e) ==
    LET name == IF Props(e)[ChildTiers[1]] # "" THEN ChildTiers[1] ELSE ChildTiers[2]
    IN  {id \in task.created : Props(e)[name] # "" /\ portal[id][name] = Props(e)[name]}

Handled(task) == DOMAIN task.conflicts \cup ToSet(task.items) \cup reported

OnlyPairable(task, unmatched) == Cardinality(unmatched) = task.errors

\* A shortfall reports every entry of the chunk that no record came back for.
ReportsUnmatched(task, unmatched) == task.errors > 0

SettleChild(k) ==
    LET task == tasks[k]
        walked == ToSet(task.chunk) \ Handled(task)
        found == [e \in {f \in walked : EchoOf(task, f) # {}} |-> Min(EchoOf(task, e))]
                   @@ task.conflicts
        unmatched == {e \in walked : EchoOf(task, e) = {}}
        mapped == {e \in DOMAIN found : GroupCodes(groups[e]) # {}}
    IN  /\ pc = "childcreate"
        /\ Running(k)
        /\ task.queue = <<>> /\ task.chunk # <<>>
        /\ ids' = [g \in {groups[e] : e \in DOMAIN found} |->
                      found[CHOOSE e \in DOMAIN found : groups[e] = g]] @@ ids
        /\ Register([s \in UNION {GroupCodes(groups[e]) : e \in mapped} |->
                        found[CHOOSE e \in mapped : s \in GroupCodes(groups[e])]])
        /\ reported' = IF ReportsUnmatched(task, unmatched) THEN reported \cup unmatched
                       ELSE reported
        /\ tasks' = [tasks EXCEPT ![k].chunk = <<>>]
        /\ UNCHANGED <<portal, pc, index, known, faults, entries, groups, aborted, linked>>
        /\ BpUnchanged

\* find of contact.handler.js, for a row without idsap: a record of the second
\* property that nobody owns.
FindChild(e, seen) ==
    LET hits == {i \in Child!Same(portal, ChildTiers[2], Props(e)) \cap seen :
                    \A o \in Ownership : portal[i][o] = ""}
    IN  IF hits = {} THEN 0 ELSE Min(hits)

\* sequentialContactFallback: a contact it finds is not registered.
ChildItem(k) ==
    LET e == Head(tasks[k].items)
        group == groups[e]
        made == Len(portal) + 1
    IN  /\ pc = "childcreate"
        /\ Running(k)
        /\ tasks[k].queue = <<>> /\ tasks[k].chunk = <<>> /\ tasks[k].items # <<>>
        /\ \E seen \in Visible :
              LET id == FindChild(e, seen)
              IN  \/ /\ id # 0
                     /\ ids' = (group :> id) @@ ids
                     /\ UNCHANGED <<portal, registry, reported>>
                  \/ /\ id = 0 /\ ~ChildRejected /\ ~EmailTaken(portal, Props(e))
                     /\ portal' = Append(portal, ChildRecord(e, "item"))
                     /\ ids' = (group :> made) @@ ids
                     /\ Register([s \in GroupCodes(group) |-> made])
                     /\ UNCHANGED reported
                  \/ /\ id = 0 /\ (ChildRejected \/ EmailTaken(portal, Props(e)))
                     /\ reported' = reported \cup {e}
                     /\ UNCHANGED <<portal, registry, ids>>
        /\ tasks' = [tasks EXCEPT ![k].items = Tail(@)]
        /\ UNCHANGED <<pc, index, known, faults, entries, groups, aborted, linked>>
        /\ BpUnchanged
-----------------------------------------------------------------------------
(* updateContactBatches                                                      *)

ChildUpdates ==
    {e \in DOMAIN entries : /\ First(groups, e) /\ groups[e][1] = "record"
                            /\ ChildNeedsUpdate(e, groups[e][2])}

BeginChildUpdates ==
    /\ pc = "childcreate"
    /\ \A k \in DOMAIN tasks : Finished(tasks[k])
    /\ pc' = "childupdate"
    /\ LET chunks == ChunkArray(Ordered(ChildUpdates), ChunkSize)
       IN  tasks' = [i \in DOMAIN chunks |-> Task(chunks[i])]
    /\ UNCHANGED <<portal, registry, index, known, faults, childVars>>
    /\ BpUnchanged

Coded(done) ==
    [id \in DOMAIN portal |->
        IF \E e \in done : groups[e][2] = id
        THEN [portal[id] EXCEPT !.code = Props(CHOOSE e \in done : groups[e][2] = id).code]
        ELSE portal[id]]

\* A 207 is not looked at; a refused chunk is sent contact by contact.
SendChildUpdate(k) ==
    LET chunk == tasks[k].chunk
    IN  /\ pc = "childupdate"
        /\ Running(k)
        /\ chunk # <<>>
        /\ \/ /\ ~ChildRejected
              /\ portal' = Coded(ToSet(chunk))
              /\ UNCHANGED <<reported, faults>>
           \/ /\ ChildRejected
              /\ reported' = reported \cup ToSet(chunk)
              /\ UNCHANGED <<portal, faults>>
           \/ /\ Fault
              /\ ~ChildRejected
              /\ \E done \in SUBSET ToSet(chunk) : portal' = Coded(done)
              /\ reported' \in {reported, reported \cup ToSet(chunk)}
        /\ tasks' = [tasks EXCEPT ![k].chunk = <<>>, ![k].queue = <<>>]
        /\ UNCHANGED <<registry, pc, index, known, entries, groups, ids, aborted, linked>>
        /\ BpUnchanged
-----------------------------------------------------------------------------
(* associateContactBatches                                                   *)

WithId == {e \in DOMAIN entries : groups[e] \in DOMAIN ids}

FirstEntries == {e \in WithId : First(groups, e)}

AllEntries == WithId

\* One pair for every partner an entry came with; the parent is a contact too,
\* and is not associated to itself.
Pairs == {<<entries[e].parent, ids[groups[e]]>> :
             e \in {f \in AllEntries : entries[f].parent # ids[groups[f]]}}

Associate ==
    /\ pc = "childupdate"
    /\ \A k \in DOMAIN tasks : Finished(tasks[k])
    /\ \/ /\ linked' = Pairs
          /\ UNCHANGED <<reported, faults>>
       \/ /\ Fault
          /\ linked' \in SUBSET Pairs
          /\ reported' \in {reported, reported \cup
                 {e \in WithId : <<entries[e].parent, ids[groups[e]]>> \in Pairs \ linked'}}
    /\ pc' = "idle"
    /\ tasks' = <<>>
    /\ index' = <<>>
    /\ UNCHANGED <<portal, registry, known, entries, groups, ids, aborted>>
    /\ BpUnchanged

ChildNext ==
    \/ BeginChildren \/ PlanChildren \/ BeginChildUpdates \/ Associate
    \/ \E k \in DOMAIN tasks : SendChild(k) \/ SettleChild(k) \/ ChildItem(k) \/ SendChildUpdate(k)

SyncNext == (Next /\ UNCHANGED childVars) \/ ChildNext

SyncSpec == SyncInit /\ [][SyncNext]_<<vars, childVars>>
-----------------------------------------------------------------------------
(* Properties                                                                *)

\* A contact employee gets one HubSpot contact, over all runs, twins, conflicts
\* and lost answers.
OneContactPerCode ==
    \A i, j \in DOMAIN portal :
        (portal[i].code # "" /\ portal[i].code = portal[j].code /\ portal[i].run > 0
            /\ portal[j].run > 0 /\ portal[i].how = "batch") => i = j

\* No contact employee is lost in silence: at the end of a run each has a HubSpot
\* contact or stands in contactErrors, unless all were given up as one, or the
\* entry has nothing to be recognised by in HubSpot's answer.
EveryChildAnswered ==
    (pc = "idle" /\ ~aborted) =>
        \A e \in DOMAIN groups :
            \/ groups[e] \in DOMAIN ids
            \/ \E f \in DOMAIN groups : groups[f] = groups[e] /\ f \in reported
            \/ Props(e)[ChildTiers[1]] = "" /\ Props(e)[ChildTiers[2]] = ""

\* Entries that are one contact are associated to each of the partners they came
\* with, and no contact to itself.
EveryParentAssociated ==
    (pc = "idle" /\ faults = 0 /\ ~aborted) =>
        \A e \in DOMAIN groups : groups[e] \in DOMAIN ids =>
            \/ <<entries[e].parent, ids[groups[e]]>> \in linked
            \/ entries[e].parent = ids[groups[e]]

\* What the comment on the primary tier says: an internalcode of its own is not
\* registered against the record of another.
CodeOnItsOwnRecord ==
    \A s \in DOMAIN registry :
        (registry[s] # 0 /\ \E e \in DOMAIN entries : Props(e).code = s)
            => portal[registry[s]].code \in {s, ""}
=============================================================================
