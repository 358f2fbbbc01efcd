---------------------------- MODULE Homologation ----------------------------
(***************************************************************************)
(* The table of equivalence between the owners of HubSpot and the sales    *)
(* persons of SAP (OwnerMappings): what the admins' requests and the seed  *)
(* do to it (ManageOwnerMappings, tenantHubspotSeed), how a run from SAP   *)
(* translates through it (owner-directory, deal.handler) and how a webhook *)
(* reads it the other way (resolveDocumentSlpCode).                        *)
(*                                                                         *)
(* A row's sapOwnerId is a text of codes separated by commas: here the     *)
(* sequence of the codes, <<"">> for the empty text, <<>> for null.  Its   *)
(* two unique indexes are on the owner and on the whole text.              *)
(***************************************************************************)
EXTENDS Integers, Sequences, FiniteSets, SequencesExt, TLC

CONSTANTS Owners,       \* owner ids of the portal
          SapCodes,        \* codes of sales persons
          Texts,        \* the texts an admin gives a row
          Admins,
          MaxTableEdits, MaxOwnerRuns, MaxOwnerFaults, MaxPortalEdits

NoOwner == "nobody"
Unset == <<>>
NoCode == ""
Omitted == "omitted"

ASSUME OwnersAreFinite == IsFiniteSet(Owners)
ASSUME TextsHoldCodes == Texts \subseteq Seq(SapCodes \union {NoCode})
\* The ids of HubSpot's owners are none of the codes SAP gives its sales persons: a field that
\* is of the user and of the deal looks up what it was translated to once more (PreprocessOwner).
ASSUME OwnersAreNoCodes == Owners \intersect (SapCodes \union {NoCode, Omitted, NoOwner}) = {}

VARIABLES table,        \* the rows: id, owner, text, active
          lastId,
          present,       \* the owners HubSpot has now
          request,      \* request[a]: the upsert of an admin
          sapOwner,          \* the record in SAP: its code, and the owner a webhook took it from
          dealOwner,    \* the owner of its object in HubSpot
          flavor,       \* "B1" or "S4"
          field,        \* its mapping: "user", "deal" (a plain field of a deal) or "both"
          sync,         \* the run
          undisturbed,       \* no row changed since a webhook wrote sap
          tableEdits, ownerRuns, ownerFaults, portalEdits

ownerVars == <<table, lastId, present, request, sapOwner, dealOwner, flavor, field, sync, undisturbed,
               tableEdits, ownerRuns, ownerFaults, portalEdits>>

CodesOf(text) == Range(text) \ {NoCode}
OwnerRow(id, owner, text) == [id |-> id, owner |-> owner, text |-> text, active |-> TRUE]

NoRequest == [pc |-> "idle", owner |-> NoOwner, text |-> Unset, held |-> {},
              touched |-> FALSE, reply |-> "none"]
NoOwnerRun == [pc |-> "idle", rec |-> [code |-> NoCode, from |-> NoOwner], seen |-> {},
          known |-> FALSE, value |-> NoCode, steady |-> FALSE]

OwnerInit ==
    /\ table = {} /\ lastId = 0 /\ present = Owners
    /\ request = [a \in Admins |-> NoRequest]
    /\ sapOwner = [code |-> NoCode, from |-> NoOwner]
    /\ dealOwner \in Owners
    /\ flavor \in {"B1", "S4"} /\ field \in {"user", "deal", "both"}
    /\ sync = NoOwnerRun /\ undisturbed = FALSE
    /\ tableEdits = 0 /\ ownerRuns = 0 /\ ownerFaults = 0 /\ portalEdits = 0

Fixed == UNCHANGED <<flavor, field>>
TableRests == UNCHANGED <<table, lastId, request, tableEdits>>
Outside == UNCHANGED <<present, portalEdits, sapOwner, dealOwner>>
Counts == UNCHANGED <<ownerRuns, ownerFaults>>

-----------------------------------------------------------------------------
(* The table. *)

\* Mutant: the partial index of the text is not there.
FreeOwner(rows, row) == \A r \in rows : r.id # row.id => r.owner # row.owner

\* The unique indexes of OwnerMapping.
Free(rows, row) == \A r \in rows : r.id # row.id =>
                      r.owner # row.owner /\ (row.text # Unset => r.text # row.text)

\* Rows change: whoever read one of them before holds a stale copy.
TableBecomes(rows) ==
    /\ table' = rows
    /\ undisturbed' = FALSE /\ sync' = [sync EXCEPT !.steady = FALSE]
    /\ Outside /\ Counts /\ Fixed

Touched(id) == [a \in Admins |-> [request[a] EXCEPT !.touched =
                   @ \/ \E r \in request[a].held : r.id = id]]

AnEdit == tableEdits < MaxTableEdits /\ tableEdits' = tableEdits + 1

\* Mutant: what HubSpot does not know of a row is reset.
ReseededRows == {OwnerRow(r.id, r.owner, IF r.owner \in present THEN Unset ELSE r.text) : r \in table}

\* Every update of the seed is $setOnInsert: rows that are there stay as they are.
SeededRows == table

\* seedHubspotMappings, after every OAuth callback: a row for each owner without one.
SeedOwners ==
    LET missing == SetToSeq(present \ {r.owner : r \in table})
    IN /\ TableBecomes(SeededRows \union {OwnerRow(lastId + n, missing[n], Unset) : n \in DOMAIN missing})
       /\ lastId' = lastId + Len(missing)
       /\ UNCHANGED <<request, tableEdits>>

\* upsert looks for the row of the text.
UpsertFinds(a) ==
    /\ request[a].pc # "found" /\ AnEdit
    /\ \E o \in Owners, text \in {t \in Texts : CodesOf(t) # {}} :
          request' = [request EXCEPT ![a] =
             [NoRequest EXCEPT !.pc = "found", !.owner = o, !.text = text,
                               !.held = {r \in table : r.text = text}]]
    /\ UNCHANGED <<table, lastId, sync, undisturbed>> /\ Outside /\ Counts /\ Fixed

\* Mutant: a row that was switched off stays off.
MovedRow(row, held, owner) == [row EXCEPT !.owner = IF held.owner # owner THEN owner ELSE @]

\* save sends what differs from the copy that was read.
SavedRow(row, held, owner) == [row EXCEPT !.owner = IF held.owner # owner THEN owner ELSE @,
                                          !.active = IF held.active THEN @ ELSE TRUE]

\* upsert writes: create, or save of the copy it holds; a duplicate key is a conflict, and
\* a row that is gone an error.
UpsertSaves(a) ==
    LET q == request[a]
        answer(requests, reply) ==
            request' = [requests EXCEPT ![a] =
                [NoRequest EXCEPT !.pc = "answered", !.reply = reply]]
        put(row) == IF Free(table, row)
                    THEN /\ TableBecomes({r \in table : r.id # row.id} \union {row})
                         /\ answer(Touched(row.id), "ok")
                    ELSE TableBecomes(table) /\ answer(request, "conflict")
    IN /\ q.pc = "found"
       /\ IF q.held = {} THEN put(OwnerRow(lastId + 1, q.owner, q.text)) /\ lastId' = lastId + 1
          ELSE /\ UNCHANGED lastId
               /\ \E held \in q.held :
                     \/ \E row \in {r \in table : r.id = held.id} :
                           put(SavedRow(row, held, q.owner))
                     \/ /\ \A r \in table : r.id # held.id
                        /\ TableBecomes(table) /\ answer(request, "error")
       /\ UNCHANGED tableEdits

\* create, patch and delete are one write each; one that would break an index changes nothing.
CreateRow ==
    /\ AnEdit
    /\ \E o \in Owners, text \in Texts \union {Unset} :
          LET row == OwnerRow(lastId + 1, o, text)
          IN Free(table, row) /\ TableBecomes(table \union {row})
    /\ lastId' = lastId + 1 /\ UNCHANGED request

PatchRow ==
    /\ AnEdit
    /\ \E row \in table :
          /\ \E text \in Texts \union {Unset}, active \in BOOLEAN :
                LET patched == [row EXCEPT !.text = text, !.active = active] IN
                /\ patched # row /\ Free(table, patched)
                /\ TableBecomes((table \ {row}) \union {patched})
          /\ request' = Touched(row.id)
    /\ UNCHANGED lastId

DeleteRow ==
    /\ AnEdit
    /\ \E row \in table : TableBecomes(table \ {row}) /\ request' = Touched(row.id)
    /\ UNCHANGED lastId

-----------------------------------------------------------------------------
(* Outside: people in HubSpot and in SAP. *)

OwnerLeaves ==
    /\ portalEdits < MaxPortalEdits /\ portalEdits' = portalEdits + 1
    /\ \E o \in present : present' = present \ {o} /\ dealOwner' = IF dealOwner = o THEN NoOwner ELSE dealOwner
    /\ TableRests /\ Fixed /\ Counts /\ UNCHANGED <<sapOwner, sync, undisturbed>>

SomeoneReassigns ==
    /\ portalEdits < MaxPortalEdits /\ portalEdits' = portalEdits + 1
    /\ \E o \in present \ {dealOwner} : dealOwner' = o
    /\ TableRests /\ Fixed /\ Counts /\ UNCHANGED <<present, sapOwner, sync, undisturbed>>

SapReassigns ==
    /\ portalEdits < MaxPortalEdits /\ portalEdits' = portalEdits + 1
    /\ \E c \in (SapCodes \union {NoCode}) \ {sapOwner.code} : sapOwner' = [code |-> c, from |-> NoOwner]
    /\ undisturbed' = FALSE
    /\ TableRests /\ Fixed /\ Counts /\ UNCHANGED <<present, dealOwner, sync>>

-----------------------------------------------------------------------------
(* The webhook: a document of the deal names its owner's sales person. *)

\* Mutant: a row that was switched off names the sales person too.
AnySlpCodes(owner) == {Head(r.text) : r \in {r \in table :
                         r.owner = owner /\ Len(r.text) = 1 /\ CodesOf(r.text) # {}}}

\* resolveDocumentSlpCode: the code of the owner's row when it has exactly one.
SlpCodes(owner) == {Head(r.text) : r \in {r \in table :
                      r.active /\ r.owner = owner /\ Len(r.text) = 1 /\ CodesOf(r.text) # {}}}

WriteDocument ==
    /\ \E code \in SlpCodes(dealOwner) : sapOwner' = [code |-> code, from |-> dealOwner]
    /\ undisturbed' = TRUE
    /\ TableRests /\ Fixed /\ Counts /\ UNCHANGED <<present, portalEdits, dealOwner, sync>>

-----------------------------------------------------------------------------
(* The run. *)

OwnerRunStep == TableRests /\ Fixed /\ UNCHANGED <<present, portalEdits, sapOwner, undisturbed>>

FetchRecord ==
    /\ sync.pc = "idle" /\ ownerRuns < MaxOwnerRuns /\ ownerRuns' = ownerRuns + 1
    /\ sync' = [NoOwnerRun EXCEPT !.pc = "load", !.rec = sapOwner, !.steady = undisturbed]
    /\ OwnerRunStep /\ UNCHANGED <<dealOwner, ownerFaults>>

\* Mutant: rows that were switched off translate too.
AnyHolders(code) == {r \in table : code \in CodesOf(r.text)}

OwnersOfCode(code) == {r \in table : r.active /\ code \in CodesOf(r.text)}

\* Mutant: a code without equivalence goes as it is.
AsItWas(code) == code

\* translateSapOwnerValue: the key of a code without equivalence is left out.
Unresolved(code) == Omitted

\* The owner a field of the user gets: of the holders of a code the first one read.
Translations(code) ==
    IF code = NoCode THEN {NoCode}
    ELSE IF OwnersOfCode(code) = {} THEN {Unresolved(code)}
    ELSE {r.owner : r \in OwnersOfCode(code)}

\* The directory is loaded for B1 alone, and is none when it is empty or was not read.
LoadDirectory ==
    /\ sync.pc = "load"
    /\ \E read \in {TRUE, FALSE} :
          LET known == read /\ flavor = "B1" /\ \E c \in SapCodes : OwnersOfCode(c) # {}
              values == IF known /\ field # "deal" THEN Translations(sync.rec.code)
                        ELSE {sync.rec.code}
          IN /\ \E v \in values :
                   sync' = [sync EXCEPT !.pc = IF field = "user" THEN "write" ELSE "preprocess",
                                        !.known = known, !.value = v, !.seen = table]
             /\ read \/ ownerFaults < MaxOwnerFaults
             /\ ownerFaults' = IF read THEN ownerFaults ELSE ownerFaults + 1
    /\ OwnerRunStep /\ UNCHANGED <<dealOwner, ownerRuns>>

\* preprocess of a deal looks a value up again, as a code.
PreprocessOwner ==
    /\ sync.pc = "preprocess"
    /\ LET found == {r.owner : r \in IF sync.value = NoCode THEN {} ELSE OwnersOfCode(sync.value)}
       IN \E v \in IF found = {} THEN {sync.value} ELSE found :
             sync' = [sync EXCEPT !.pc = "write", !.value = v, !.seen = @ \union table]
    /\ OwnerRunStep /\ Counts /\ UNCHANGED dealOwner

\* HubSpot refuses the whole record when it does not know the owner; an empty one clears it.
WriteRecord ==
    /\ sync.pc = "write"
    /\ dealOwner' = CASE sync.value \in present -> sync.value
                      [] sync.value = NoCode -> NoOwner
                      [] OTHER -> dealOwner
    /\ sync' = NoOwnerRun
    /\ OwnerRunStep /\ Counts

OwnerNext ==
    \/ SeedOwners \/ CreateRow \/ PatchRow \/ DeleteRow
    \/ \E a \in Admins : UpsertFinds(a) \/ UpsertSaves(a)
    \/ OwnerLeaves \/ SomeoneReassigns \/ SapReassigns \/ WriteDocument
    \/ FetchRecord \/ LoadDirectory \/ PreprocessOwner \/ WriteRecord

OwnerSpec == OwnerInit /\ [][OwnerNext]_ownerVars

-----------------------------------------------------------------------------
(* Properties. *)

\* The table has one row per owner and one per text, whatever requests run at once.
TableTypeOK ==
    /\ \A r \in table : r.owner \in Owners /\ r.text \in Texts \union {Unset}
    /\ \A r, s \in table : r.id # s.id => r.owner # s.owner /\ (r.text = s.text => r.text = Unset)
    /\ sync.value \in Owners \union SapCodes \union {NoCode, Omitted}

\* An upsert tells the truth: after "ok" the owner asked for holds the text in a row that is
\* in use, unless somebody changed the row it had read; a conflict means that another row has
\* the owner or the text (ManageOwnerMappings.upsert and the two indexes of OwnerMapping).
UpsertAnswersTrue ==
    [][\A a \in Admins :
          LET q == request[a]
          IN (q.pc = "found" /\ request'[a].pc = "answered") =>
                /\ (request'[a].reply = "ok" /\ ~q.touched) =>
                      \E r \in table' : r.owner = q.owner /\ r.text = q.text /\ r.active
                /\ request'[a].reply = "conflict" =>
                      \E r \in table \ q.held : r.owner = q.owner \/ r.text = q.text
      ]_ownerVars

\* What an admin homologated stays until an admin changes it: neither a seed nor the write of
\* an upsert alters the text of a row or switches one off (seedHubspotMappings runs after every
\* OAuth callback over a table that is in use).
HomologationsSurvive ==
    [][tableEdits' = tableEdits =>
          \A r \in table : \E s \in table' :
             s.id = r.id /\ s.text = r.text /\ (r.active => s.active)]_ownerVars

\* A run changes the owner in HubSpot only to one whose row, in use when it was read, holds
\* the record's code, and clears it only when SAP names nobody: an owner put by hand is not
\* lost to a table that is incomplete (translateSapOwnerValue).
OwnersComeFromTheTable ==
    [][(sync.pc = "write" /\ sync'.pc = "idle" /\ dealOwner' # dealOwner) =>
          IF dealOwner' = NoOwner THEN sync.rec.code = NoCode
          ELSE \E r \in sync.seen : /\ r.active /\ r.owner = dealOwner'
                                    /\ sync.rec.code \in CodesOf(r.text)]_ownerVars

\* With a directory no record is lost to its owner: HubSpot, which refuses a record whose
\* owner it does not know, is never sent a code of SAP in a field of the user.
NoCodeIsSent ==
    (sync.pc = "write" /\ sync.known /\ field # "deal") => sync.value \notin SapCodes

\* There and back: a deal whose document got the code of its owner is not given to anybody
\* else by a run, as long as no row changed and one owner alone holds the code.
RoundTrip ==
    [][(/\ sync.pc = "write" /\ sync'.pc = "idle"
        /\ sync.rec.from # NoOwner /\ sync.steady
        /\ \A r, other \in OwnersOfCode(sync.rec.code) : r = other) =>
          dealOwner' \in {dealOwner, sync.rec.from}]_ownerVars

=============================================================================
