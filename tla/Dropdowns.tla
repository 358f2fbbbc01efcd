------------------------------ MODULE Dropdowns -------------------------------
(* The options of HubSpot's dropdowns, rewritten from SAP catalogs.  A run      *)
(* reads the configured sources one by one, gives every field the options of    *)
(* the first source that has any, and rewrites each property a mapping feeds    *)
(* from the field: read, merge, replace the whole list, in an order left open.  *)
(* People edit properties and SAP its catalogs at any time, and any call fails. *)
EXTENDS Integers, Sequences, FiniteSets, SequencesExt

CONSTANTS
    Value,       \* option values
    Field,       \* SAP fields
    Property,    \* HubSpot properties
    Feeds,       \* the sources in order: [fields, perRow]
    Catalogs(_), \* what SAP may hold for a source: rows, or definitions [field, rows]
    Lists,       \* option lists a property starts with
    Mappings,    \* [Field -> SUBSET Property]: active field mappings
    Cap,         \* HUBSPOT_MAX_PROPERTY_OPTIONS
    MaxRuns, MaxFaults, MaxOptionEdits

Source == DOMAIN Feeds
Label == 1 .. 2
Option == [value : Value, label : Label, hidden : BOOLEAN, note : BOOLEAN]

ASSUME FeedsAssumption == \A s \in Source : Feeds[s].fields \subseteq Field /\ Feeds[s].perRow \in BOOLEAN
ASSUME MappingsAssumption == Mappings \subseteq [Field -> SUBSET Property]
RowsOfSap(rows) == rows \in Seq(Range(rows)) /\ \A n \in DOMAIN rows : rows[n].label \in Label
Distinct(list) == \A i, j \in DOMAIN list : list[i].value = list[j].value => i = j

ASSUME FeedsAreListed == Feeds \in Seq(Range(Feeds))
ASSUME CatalogsAreRows ==
    \A s \in Source : \A rows \in Catalogs(s) :
        IF Feeds[s].perRow THEN rows \in Seq(Range(rows)) /\ \A n \in DOMAIN rows : RowsOfSap(rows[n].rows)
        ELSE RowsOfSap(rows)
\* A property of HubSpot has an option per value.
ASSUME ListsAreOptions == \A list \in Lists : list \in Seq(Option) /\ Distinct(list)
ASSUME DropdownBounds == {Cap, MaxRuns, MaxFaults, MaxOptionEdits} \subseteq Nat /\ Cap > 0

VARIABLES
    setting,   \* what stops a run before it reads: nothing, the flavor, the switch, no credentials
    catalog,   \* [Source -> what SAP holds]
    property,  \* [Property -> [kind, options]]
    mapping,
    sweep,         \* the run
    settled,   \* nothing changed since a completed run that met no failure and no change
    dropdownRuns, slips, optionEdits

dropdownVars == <<setting, catalog, property, mapping, sweep, settled, dropdownRuns, slips, optionEdits>>

Unclaimed == <<[value |-> "unclaimed", label |-> 0]>>
NoRun ==
    [pc |-> "idle", source |-> 1, sets |-> [f \in Field |-> Unclaimed], todo |-> {}, at |-> <<>>,
     seen |-> <<>>, status |-> "none", calm |-> TRUE, faultless |-> TRUE, settled |-> FALSE,
     processed |-> 0, updated |-> 0, unchanged |-> 0, skipped |-> 0, failed |-> 0]

ValuesOf(options) == {options[i].value : i \in DOMAIN options}
VisibleOf(options) == SelectSeq(options, LAMBDA o : ~o.hidden)

DropdownTypeOK ==
    /\ sweep.pc \in {"idle", "fetch", "token", "targets", "property", "patch"}
    /\ sweep.status \in {"none", "completed", "errored"}
    /\ \A p \in Property :
           /\ \A i \in DOMAIN property[p].options : property[p].options[i] \in Option
           /\ Cardinality(ValuesOf(property[p].options)) = Len(property[p].options)
    /\ \A f \in Field : sweep.sets[f] # Unclaimed => Len(sweep.sets[f]) <= Cap
    /\ sweep.pc \in {"property", "patch"} => sweep.processed <= Cardinality(Field) * Cardinality(Property)

DropdownInit ==
    /\ setting \in {"ready", "otherFlavor", "disabled", "noCredentials"}
    /\ \E choice \in [Source -> UNION {Catalogs(s) : s \in Source}] :
           (\A s \in Source : choice[s] \in Catalogs(s)) /\ catalog = choice
    /\ property \in [Property -> [kind : {"enumeration", "other", "invalidName"}, options : Lists]]
    /\ mapping \in Mappings
    /\ sweep = NoRun /\ settled = FALSE
    /\ dropdownRuns = 0 /\ slips = 0 /\ optionEdits = 0

-------------------------------------------------------------------------------
(* The catalog of a source                                                      *)

\* The rows that make an option: of usable ones with one value the first.
FirstOfItsValue(rows) ==
    {n \in DOMAIN rows : rows[n].value \in Value /\ \A m \in DOMAIN rows : m < n => rows[m].value # rows[n].value}

\* What stands at some places of a list, in its order.
UpTo(places, n) == {m \in places : m <= n}
Selected(list, places) ==
    [k \in 1 .. Cardinality(places) |-> list[CHOOSE n \in places : Cardinality(UpTo(places, n)) = k]]

BuildTargetOptions(rows) == Selected(rows, FirstOfItsValue(rows))
CapOptions(options) == SubSeq(options, 1, IF Len(options) < Cap THEN Len(options) ELSE Cap)

\* A definition that has no usable option gives the field none, and the next one of it counts.
Defines(s, f) == {n \in DOMAIN catalog[s] : /\ catalog[s][n].field = f
                                            /\ FirstOfItsValue(catalog[s][n].rows) # {}}
ExtractPerRow(s, f) ==
    IF Defines(s, f) = {} THEN <<>>
    ELSE LET first == CHOOSE n \in Defines(s, f) : \A m \in Defines(s, f) : n <= m
         IN  CapOptions(BuildTargetOptions(catalog[s][first].rows))
ExtractShared(s) == CapOptions(BuildTargetOptions(catalog[s]))
Offered(s, f) ==
    IF f \notin Feeds[s].fields THEN <<>>
    ELSE IF Feeds[s].perRow THEN ExtractPerRow(s, f) ELSE ExtractShared(s)

-------------------------------------------------------------------------------
(* A run                                                                        *)

Quiet == UNCHANGED <<setting, catalog, mapping, optionEdits>>
Works == UNCHANGED slips
Fails == slips < MaxFaults /\ slips' = slips + 1
Unfetched == sweep.pc = "fetch" /\ sweep.source <= Len(Feeds)

StartDropdownRun ==
    /\ sweep.pc = "idle" /\ dropdownRuns < MaxRuns
    /\ dropdownRuns' = dropdownRuns + 1
    /\ sweep' = [NoRun EXCEPT !.pc = IF setting = "ready" THEN "fetch" ELSE "idle",
                          !.settled = settled,
                          !.status = CASE setting = "ready" -> "none"
                                       [] setting = "disabled" -> "completed"
                                       [] OTHER -> "errored"]
    /\ UNCHANGED <<property, settled>> /\ Quiet /\ Works

EmptyClaims(s, f) == f \in Feeds[s].fields
Claims(s, f) == Offered(s, f) # <<>>
LastClaim(s, f) == IF Claims(s, f) THEN Offered(s, f) ELSE sweep.sets[f]
FirstClaim(s, f) == IF sweep.sets[f] = Unclaimed /\ Claims(s, f) THEN Offered(s, f) ELSE sweep.sets[f]

FetchRows ==
    /\ Unfetched
    /\ sweep' = [sweep EXCEPT !.source = @ + 1, !.sets = [f \in Field |-> FirstClaim(sweep.source, f)]]
    /\ UNCHANGED <<property, settled, dropdownRuns>> /\ Quiet /\ Works

FetchRowsFails ==
    /\ Unfetched
    /\ Fails
    /\ sweep' = [sweep EXCEPT !.source = @ + 1, !.faultless = FALSE]
    /\ UNCHANGED <<property, settled, dropdownRuns>> /\ Quiet

Finish(status) == [sweep EXCEPT !.pc = "idle", !.status = status]
Settles(status) == status = "completed" /\ sweep.calm /\ sweep.faultless

ResolveAccessToken ==
    /\ sweep.pc = "fetch" /\ sweep.source > Len(Feeds)
    /\ sweep' = [sweep EXCEPT !.pc = "targets"]
    /\ UNCHANGED <<property, settled, dropdownRuns>> /\ Quiet /\ Works

Claimed == {f \in Field : sweep.sets[f] # Unclaimed}

\* No token, or the mappings cannot be read: nothing was written yet.
RunFails ==
    /\ (sweep.pc = "fetch" /\ sweep.source > Len(Feeds)) \/ (sweep.pc = "targets" /\ Claimed # {})
    /\ Fails
    /\ sweep' = Finish("errored")
    /\ settled' = FALSE
    /\ UNCHANGED <<property, dropdownRuns>> /\ Quiet

Targets == {target \in Claimed \X Property : target[2] \in mapping[target[1]]}
Unmapped == {f \in Claimed : mapping[f] = {}}

FindTargets ==
    /\ sweep.pc = "targets"
    /\ sweep' = [sweep EXCEPT !.pc = "property", !.todo = Targets, !.skipped = Cardinality(Unmapped)]
    /\ UNCHANGED <<property, settled, dropdownRuns>> /\ Quiet /\ Works

TakeTarget(f, p) == sweep.pc = "property" /\ <<f, p>> \in sweep.todo
Counted(f, p, run) == [run EXCEPT !.processed = @ + 1, !.todo = @ \ {<<f, p>>}]

SkipTarget(f, p) ==
    /\ TakeTarget(f, p)
    /\ property[p].kind \in {"other", "invalidName"}
    /\ sweep' = Counted(f, p, [sweep EXCEPT !.skipped = @ + 1])
    /\ UNCHANGED <<property, settled, dropdownRuns>> /\ Quiet /\ Works

UncountedRead(f, p) == Counted(f, p, [sweep EXCEPT !.faultless = FALSE])
FailedRead(f, p) == Counted(f, p, [sweep EXCEPT !.failed = @ + 1, !.faultless = FALSE])

FindPropertyFails(f, p) ==
    /\ TakeTarget(f, p)
    /\ property[p].kind # "invalidName"
    /\ Fails
    /\ sweep' = FailedRead(f, p)
    /\ UNCHANGED <<property, settled, dropdownRuns>> /\ Quiet

\* What SAP lists, in its order, with what people wrote beside it; the rest stays, hidden.
Noted(existing, v) == \E i \in DOMAIN existing : existing[i].value = v /\ existing[i].note
Shown(existing, sap) ==
    [i \in DOMAIN sap |-> [value |-> sap[i].value, label |-> sap[i].label, hidden |-> FALSE,
                           note |-> Noted(existing, sap[i].value)]]
NoObsolete(existing, sap) == <<>>
Obsolete(existing, sap) ==
    LET gone == Selected(existing, {n \in DOMAIN existing : existing[n].value \notin ValuesOf(sap)})
    IN  [i \in DOMAIN gone |-> [gone[i] EXCEPT !.hidden = TRUE]]
MergePropertyOptions(existing, sap) == Shown(existing, sap) \o Obsolete(existing, sap)

NeverEqual(left, right) == FALSE
PropertyOptionsAreEqual(left, right) ==
    /\ Len(left) = Len(right)
    /\ \A i \in DOMAIN left :
           left[i].value = right[i].value /\ left[i].label = right[i].label /\ left[i].hidden = right[i].hidden

UpToDate(f, p) ==
    PropertyOptionsAreEqual(property[p].options, MergePropertyOptions(property[p].options, sweep.sets[f]))

AlreadyUpToDate(f, p) ==
    /\ TakeTarget(f, p)
    /\ property[p].kind = "enumeration" /\ UpToDate(f, p)
    /\ sweep' = Counted(f, p, [sweep EXCEPT !.unchanged = @ + 1])
    /\ UNCHANGED <<property, settled, dropdownRuns>> /\ Quiet /\ Works

FindProperty(f, p) ==
    /\ TakeTarget(f, p)
    /\ property[p].kind = "enumeration" /\ ~UpToDate(f, p)
    /\ sweep' = Counted(f, p, [sweep EXCEPT !.pc = "patch", !.at = <<f, p>>, !.seen = property[p].options])
    /\ UNCHANGED <<property, settled, dropdownRuns>> /\ Quiet /\ Works

UpdatePropertyOptions ==
    /\ sweep.pc = "patch"
    /\ property' = [property EXCEPT ![sweep.at[2]].options = MergePropertyOptions(sweep.seen, sweep.sets[sweep.at[1]])]
    /\ sweep' = [sweep EXCEPT !.pc = "property", !.seen = <<>>, !.updated = @ + 1]
    /\ UNCHANGED <<settled, dropdownRuns>> /\ Quiet /\ Works

UpdatePropertyOptionsFails ==
    /\ sweep.pc = "patch"
    /\ Fails
    /\ sweep' = [sweep EXCEPT !.pc = "property", !.seen = <<>>, !.failed = @ + 1, !.faultless = FALSE]
    /\ UNCHANGED <<property, settled, dropdownRuns>> /\ Quiet

FinishRun ==
    /\ sweep.pc = "property" /\ sweep.todo = {}
    /\ sweep' = Finish("completed")
    /\ settled' = Settles("completed")
    /\ UNCHANGED <<property, dropdownRuns>> /\ Quiet /\ Works

-------------------------------------------------------------------------------
(* Everybody else                                                               *)

Edit ==
    /\ optionEdits < MaxOptionEdits /\ optionEdits' = optionEdits + 1
    /\ sweep' = [sweep EXCEPT !.calm = FALSE]
    /\ settled' = FALSE
    /\ UNCHANGED <<setting, mapping, dropdownRuns, slips>>

CatalogChanges(s) ==
    /\ \E rows \in Catalogs(s) \ {catalog[s]} : catalog' = [catalog EXCEPT ![s] = rows]
    /\ Edit /\ UNCHANGED property

SomeoneAdds(p, v) ==
    /\ v \notin ValuesOf(property[p].options)
    /\ property' = [property EXCEPT ![p].options =
           Append(@, [value |-> v, label |-> 1, hidden |-> FALSE, note |-> TRUE])]
    /\ Edit /\ UNCHANGED catalog

SomeoneHides(p, i) ==
    /\ ~property[p].options[i].hidden
    /\ property' = [property EXCEPT ![p].options[i].hidden = TRUE]
    /\ Edit /\ UNCHANGED catalog

DropdownNext ==
    \/ StartDropdownRun \/ FetchRows \/ FetchRowsFails \/ ResolveAccessToken \/ RunFails \/ FindTargets
    \/ \E f \in Field, p \in Property :
           SkipTarget(f, p) \/ FindPropertyFails(f, p) \/ AlreadyUpToDate(f, p) \/ FindProperty(f, p)
    \/ UpdatePropertyOptions \/ UpdatePropertyOptionsFails \/ FinishRun
    \/ \E s \in Source : CatalogChanges(s)
    \/ \E p \in Property : (\E v \in Value : SomeoneAdds(p, v))
                           \/ \E i \in DOMAIN property[p].options : SomeoneHides(p, i)

DropdownSpec == DropdownInit /\ [][DropdownNext]_dropdownVars

-------------------------------------------------------------------------------
\* A rewrite removes no option a property had, and no description people gave one, unless
\* somebody wrote it while the run was between reading and replacing (mergePropertyOptions:
\* records that hold an old value keep a readable label).
NothingVanishes ==
    [][sweep'.calm => \A p \in Property : \A i \in DOMAIN property[p].options :
           \E j \in DOMAIN property'[p].options :
               /\ property'[p].options[j].value = property[p].options[i].value
               /\ property'[p].options[j].note = property[p].options[i].note]_dropdownVars

\* An option disappears from a dropdown only if a source of a field mapped to it lists
\* other options, and not because SAP could not be read or had no usable row
\* (collectOptionSets, extractPerRow, extractShared).
HiddenOnlyWhenSapDropsIt ==
    [][sweep'.calm => \A p \in Property : \A i \in DOMAIN property[p].options :
           LET o == property[p].options[i]
           IN  (~o.hidden /\ \E j \in DOMAIN property'[p].options :
                    property'[p].options[j].value = o.value /\ property'[p].options[j].hidden) =>
               \E s \in Source, f \in Field :
                   p \in mapping[f] /\ Offered(s, f) # <<>> /\ o.value \notin ValuesOf(Offered(s, f))]_dropdownVars

FirstSource(f) == {s \in Source : Offered(s, f) # <<>> /\ \A r \in Source : r < s => Offered(r, f) = <<>>}
OnlyField(f, p) == \A g \in Field \ {f} : p \notin mapping[g]
JustFinished == sweep.pc = "idle" /\ sweep.status = "completed" /\ setting = "ready" /\ sweep.calm /\ sweep.faultless

\* After a run that met no failure and no change, a dropdown fed by one field offers what
\* the first source that has options for the field lists, in its order and with its labels
\* (collectOptionSets, applyOptionSetToTarget).
VisibleIsSap ==
    JustFinished =>
        \A f \in Field, s \in Source : \A p \in mapping[f] :
            (s \in FirstSource(f) /\ OnlyField(f, p) /\ property[p].kind = "enumeration") =>
                LET shown == VisibleOf(property[p].options)
                IN  [i \in DOMAIN shown |-> [value |-> shown[i].value, label |-> shown[i].label]] = Offered(s, f)

\* A run after one that met no failure and no change writes nothing, if nothing changed
\* since, unless two fields feed one property (propertyOptionsAreEqual).
SettledRunWritesNothing ==
    (sweep.settled /\ sweep.calm /\ sweep.faultless /\ \A f \in Field : \A p \in mapping[f] : OnlyField(f, p)) =>
        sweep.updated = 0

\* When a run has finished, every property of every field it had options for was counted
\* once, as updated, up to date, skipped or failed, and every field without one as skipped.
EveryTargetCounted ==
    (sweep.pc = "idle" /\ sweep.status = "completed" /\ setting = "ready") =>
        /\ sweep.processed = Cardinality(Targets)
        /\ sweep.updated + sweep.unchanged + sweep.skipped + sweep.failed = sweep.processed + Cardinality(Unmapped)
=============================================================================
