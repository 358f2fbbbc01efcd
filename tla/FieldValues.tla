----------------------------- MODULE FieldValues -----------------------------
(***************************************************************************)
(* From a record of SAP to the properties HubSpot is sent: the rows of     *)
(* FieldMappings and who adds them (ManageFieldMappings), what a run asks  *)
(* SAP for, and how each row is resolved (mappingValueResolver), with the  *)
(* fallback chain, the telephones, the users and the composed description  *)
(* (dynamic-description).                                                  *)
(*                                                                         *)
(* A value is a text: the sequence of its symbols.  A field of the record  *)
(* is a sequence of items: one for a plain field, any number for a path    *)
(* through a collection.  Rows and settings are read twice in a run: once  *)
(* to ask SAP for the fields and again to map what came.                   *)
(***************************************************************************)
EXTENDS Integers, Sequences, FiniteSets, SequencesExt, TLC

CONSTANTS Sources,          \* fields of SAP
          Targets,          \* properties of HubSpot
          PhoneTargets,     \* those that the tenant declares to be telephones
          Records,          \* the records SAP may hold
          Priority,         \* the order of the kinds of items of a collection
          Directory,        \* Directory[code]: the owner of a code
          RawPhoneConfigs,  \* what the Configurations document may say
          Templates,        \* composed descriptions, sequences of tokens
          MaxDigits,        \* of a number with its country
          MaxMappingEdits, MaxMappingRuns

Null == <<"null">>
Blank == <<>>
Absent == <<"absent">>      \* the key is left out
Separator == "-"            \* a cosmetic symbol of a telephone, a separator of a text
Digits == {"0", "1", "5"}

VARIABLES rows,         \* FieldMappings, by _id
          settings,     \* the fallback chain, the telephones, the template and where it goes
          record,       \* the record in SAP
          shown,        \* the properties in HubSpot
          mapping,      \* the run
          mappingEdits, mappingRuns

mappingVars == <<rows, settings, record, shown, mapping, mappingEdits, mappingRuns>>

HasMappedValue(v) == v \notin {Null, Blank, Absent}

\* A field has a sequence of items, kinds have an order, and a code has an owner or none.
ASSUME RecordsAreItems == \A r \in Records, f \in Sources : r[f] \in Seq(Range(r[f]))
ASSUME MaxDigitsIsNat == MaxDigits \in Nat
ASSUME PriorityIsAnOrder == Priority \in Seq(Range(Priority))
ASSUME DirectoryNames == \A code \in DOMAIN Directory : HasMappedValue(Directory[code])

NoTemplate == <<>>
Field(f) == [field |-> f, text |-> Blank]
Literal(text) == [field |-> "", text |-> text]

-----------------------------------------------------------------------------
(* A telephone. *)

\* normalizePhoneNormalizationConfig: prefixing needs a country and the lengths of local numbers.
PhoneConfig(raw) ==
    LET fits == {n \in raw.lengths : n > 0 /\ n + Len(raw.country) <= MaxDigits}
        enabled == raw.enabled /\ raw.country # Blank /\ raw.country[1] # "0" /\ fits # {}
    IN [enabled |-> enabled, country |-> IF enabled THEN raw.country ELSE Blank,
        lengths |-> IF enabled THEN fits ELSE {}]

AreDigits(s) == Range(s) \subseteq Digits
IsE164(s) ==
    /\ Len(s) \in 3 .. MaxDigits + 1 /\ s[1] = "+" /\ AreDigits(Tail(s)) /\ s[2] # "0"

Compact(v) == SelectSeq(v, LAMBDA c : c # Separator)

\* Mutant: a number that begins with the country's digits is taken to have them.
CountryFirst(s, config) ==
    IF ~config.enabled \/ ~AreDigits(s) THEN Null
    ELSE LET candidate == IF IsPrefix(config.country, s) THEN <<"+">> \o s
                          ELSE <<"+">> \o config.country \o s
         IN IF IsE164(candidate) THEN candidate ELSE Null

\* applyDefaultCountryCode: a local length first; then country and local number without "+".
WithCountry(s, config) ==
    IF ~config.enabled \/ ~AreDigits(s) THEN Null
    ELSE LET candidate ==
               IF Len(s) \in config.lengths THEN <<"+">> \o config.country \o s
               ELSE IF IsPrefix(config.country, s) /\ Len(s) - Len(config.country) \in config.lengths
                    THEN <<"+">> \o s
               ELSE Null
         IN IF IsE164(candidate) THEN candidate ELSE Null

\* Mutant: what cannot be made E.164 goes as it is.
AsGiven(v, config) == IF IsE164(Compact(v)) THEN Compact(v) ELSE v

\* normalizeHubspotPhone, extensions left out: blanks stay, the rest is E.164 or null.
NormalizedPhone(v, config) ==
    IF ~HasMappedValue(v) THEN v
    ELSE IF IsE164(Compact(v)) THEN Compact(v)
    ELSE WithCountry(Compact(v), config)

-----------------------------------------------------------------------------
(* A field of the record. *)

Rank(item) == IF item.kind \in Range(Priority)
              THEN CHOOSE n \in DOMAIN Priority : Priority[n] = item.kind
              ELSE Len(Priority) + 1

\* The order in which the items are looked at: with the chain by kind, then as they came.
Precedes(items, chain, m, n) ==
    IF chain /\ Rank(items[m]) # Rank(items[n]) THEN Rank(items[m]) < Rank(items[n]) ELSE m < n

\* Mutant: the first item, blank or not, in the chain too.
FirstItem(items, chain) == IF items = <<>> THEN Null ELSE items[1].value

\* walk: without the chain the first item, blank or not; with it the first that has a value.
Resolved(items, chain) ==
    LET full == {n \in DOMAIN items : HasMappedValue(items[n].value)}
        among == IF chain /\ full # {} THEN full ELSE DOMAIN items
    IN IF items = <<>> THEN Null
       ELSE items[CHOOSE n \in among :
                    \A k \in among \ {n} : Precedes(items, chain, n, k)].value

\* Mutant: a code without equivalence is written as null.
Erased(code) == Null

\* The key of a code without equivalence is left out.
Untranslated(code) == Absent

\* translateSapOwnerValue
Translated(v) == IF ~HasMappedValue(v) THEN v
                 ELSE IF v \in DOMAIN Directory THEN Directory[v] ELSE Untranslated(v)

\* The value one row gives a property.
RowValue(row, data, chain, phones) ==
    LET v == Resolved(data[row.source], chain)
    IN IF row.user THEN Translated(v)
       ELSE IF row.target \in PhoneTargets THEN NormalizedPhone(v, phones)
       ELSE v

-----------------------------------------------------------------------------
(* The composed description. *)

\* Mutant: the separator before an empty field stays.
KeepLiteral(state) == [state EXCEPT !.empty = TRUE]

DropLiteral(state) == [state EXCEPT !.pending = Blank, !.empty = TRUE]

Render(state, token, data) ==
    IF token.field = "" THEN [state EXCEPT !.pending = @ \o token.text]
    ELSE LET v == Resolved(data[token.field], FALSE)
         IN IF ~HasMappedValue(v) THEN DropLiteral(state)
            ELSE [text |-> state.text \o state.pending \o v, pending |-> Blank, empty |-> FALSE]

\* EDGE_SEPARATORS
Trimmed(s) == LET kept == {n \in DOMAIN s : s[n] # Separator}
              IN IF kept = {} THEN Blank
                 ELSE SubSeq(s, CHOOSE n \in kept : \A k \in kept : n <= k,
                                CHOOSE n \in kept : \A k \in kept : n >= k)

\* renderTemplate; Blank when nothing resolved.
Composed(template, data) ==
    LET end == FoldLeft(LAMBDA state, token : Render(state, token, data),
                        [text |-> Blank, pending |-> Blank, empty |-> FALSE], template)
    IN Trimmed(IF end.empty THEN end.text ELSE end.text \o end.pending)

TemplateFields(template) == {token.field : token \in Range(template)} \ {""}

-----------------------------------------------------------------------------
(* The rows and the settings. *)

NoRun == [pc |-> "idle", select |-> {}, data |-> <<>>, rows |-> <<>>, next |-> 1,
          settings |-> <<>>, props |-> <<>>, was |-> <<>>, steady |-> FALSE]

MappingInit ==
    /\ rows = <<>>
    /\ settings \in [chain : BOOLEAN, phones : {PhoneConfig(raw) : raw \in RawPhoneConfigs},
                     template : Templates \union {NoTemplate}, into : Targets]
    /\ record \in Records
    /\ shown = [t \in Targets |-> Null]
    /\ mapping = NoRun
    /\ mappingEdits = 0 /\ mappingRuns = 0

Edited ==
    /\ mappingEdits < MaxMappingEdits /\ mappingEdits' = mappingEdits + 1
    /\ mapping' = [mapping EXCEPT !.steady = FALSE]
    /\ UNCHANGED <<shown, mappingRuns>>

\* Mutant: the look-up before is all there is, and two requests may both have made it.
AnySource(source) == TRUE

\* The unique index on the field of SAP.
FreeSource(source) == \A n \in DOMAIN rows : rows[n].source # source

\* createTenantMapping and createAdminMapping.
CreateMapping ==
    /\ Edited
    /\ \E row \in [source : Sources, target : Targets, user : BOOLEAN, select : BOOLEAN,
                   active : {TRUE}] :
          FreeSource(row.source) /\ rows' = Append(rows, row)
    /\ UNCHANGED <<settings, record>>

\* Someone edits the collections: a row is switched, the chain or the template changes.
SwitchRow ==
    /\ Edited
    /\ \E n \in DOMAIN rows : rows' = [rows EXCEPT ![n].active = ~@]
    /\ UNCHANGED <<settings, record>>

ChangeSettings ==
    /\ Edited
    /\ \E t \in Templates \union {NoTemplate}, c \in BOOLEAN :
          settings' = [settings EXCEPT !.template = t, !.chain = c] /\ settings' # settings
    /\ UNCHANGED <<rows, record>>

SapChanges ==
    /\ mappingEdits < MaxMappingEdits /\ mappingEdits' = mappingEdits + 1
    /\ \E r \in Records \ {record} : record' = r
    /\ UNCHANGED <<rows, settings, shown, mapping, mappingRuns>>

-----------------------------------------------------------------------------
(* The run. *)

\* The items of a sequence at some of its indices, in order.
UpTo(chosen, n) == {m \in chosen : m <= n}
Selected(s, chosen) ==
    [k \in 1 .. Cardinality(chosen) |->
        s[CHOOSE n \in chosen : Cardinality(UpTo(chosen, n)) = k]]

Active == Selected(rows, {n \in DOMAIN rows : rows[n].active})
Step == UNCHANGED <<rows, settings, record, mappingEdits>>

AskedFields == {row.source : row \in {row \in Range(Active) : row.select}}

\* Mutant: a row that keeps its field out of the request counts as asking for it.
UnmappedFields == TemplateFields(settings.template) \ {row.source : row \in Range(Active)}

\* withDynamicDescriptionSelectFields: the fields of the template that no row asks for.
TemplateNeeds == TemplateFields(settings.template) \ AskedFields

\* findMappings and the fetch: a field that is not asked for is not there.
FetchFields ==
    /\ mapping.pc = "idle" /\ mappingRuns < MaxMappingRuns /\ mappingRuns' = mappingRuns + 1
    /\ rows # <<>>
    /\ LET select == AskedFields \union TemplateNeeds
       IN mapping' = [NoRun EXCEPT !.pc = "read", !.select = select, !.was = record,
                                   !.steady = TRUE,
                                   !.data = [f \in Sources |-> IF f \in select THEN record[f] ELSE <<>>]]
    /\ Step /\ UNCHANGED shown

\* mapRecords reads rows and settings again, once for all records.
ReadMappings ==
    /\ mapping.pc = "read"
    /\ mapping' = [mapping EXCEPT !.pc = "map", !.rows = Active, !.settings = settings, !.next = 1,
                                  !.props = [t \in Targets |-> Absent]]
    /\ Step /\ UNCHANGED <<shown, mappingRuns>>

\* Mutant: a later row overwrites in the chain too.
NeverSettled(props, row) == FALSE

\* A property that has a value is left to it when the chain is on.
Settled(props, row) == mapping.settings.chain /\ HasMappedValue(props[row.target])

MapRow ==
    /\ mapping.pc = "map" /\ mapping.next <= Len(mapping.rows)
    /\ LET row == mapping.rows[mapping.next]
           v == RowValue(row, mapping.data, mapping.settings.chain, mapping.settings.phones)
       IN mapping' = [mapping EXCEPT !.next = @ + 1,
                        !.props = IF Settled(@, row) \/ v = Absent THEN @
                                  ELSE [@ EXCEPT ![row.target] = v]]
    /\ Step /\ UNCHANGED <<shown, mappingRuns>>

\* applyDynamicDescription: what was composed overwrites, nothing composed changes nothing.
Compose ==
    /\ mapping.pc = "map" /\ mapping.next > Len(mapping.rows)
    /\ LET s == mapping.settings
           text == Composed(s.template, mapping.data)
       IN mapping' = [mapping EXCEPT !.pc = "send",
                        !.props[s.into] = IF HasMappedValue(text) THEN text ELSE @]
    /\ Step /\ UNCHANGED <<shown, mappingRuns>>

\* HubSpot clears a property that it gets null or empty and keeps one it does not get.
Send ==
    /\ mapping.pc = "send"
    /\ shown' = [t \in Targets |-> IF mapping.props[t] = Absent THEN shown[t]
                                   ELSE IF HasMappedValue(mapping.props[t]) THEN mapping.props[t]
                                   ELSE Null]
    /\ mapping' = NoRun
    /\ Step /\ UNCHANGED mappingRuns

MappingNext ==
    \/ CreateMapping \/ SwitchRow \/ ChangeSettings \/ SapChanges
    \/ FetchFields \/ ReadMappings \/ MapRow \/ Compose \/ Send

MappingSpec == MappingInit /\ [][MappingNext]_mappingVars

-----------------------------------------------------------------------------
(* Properties. *)

\* A field of SAP has one row, and what HubSpot shows is never the mark of a key left out.
MappingTypeOK ==
    /\ \A m, n \in DOMAIN rows : m # n => rows[m].source # rows[n].source
    /\ \A t \in Targets : shown[t] = Null \/ HasMappedValue(shown[t])
    /\ mapping.next \in 1 .. Len(mapping.rows) + 1

Mapped == mapping.pc = "map" /\ mapping.next > Len(mapping.rows)

\* What the rows of a property yield, in their order, without the keys left out.
Yields(t) ==
    LET mine == SelectSeq(mapping.rows, LAMBDA row : row.target = t)
        s == mapping.settings
    IN SelectSeq([n \in DOMAIN mine |-> RowValue(mine[n], mapping.data, s.chain, s.phones)],
                 LAMBDA v : v # Absent)

\* In a chain the first row that yields a value has the property, whatever comes after it;
\* without the chain, or when none does, the last one; and a user that is not homologated
\* neither takes a property nor ends a chain (buildMappedProperties).
ChainKeepsFirst ==
    Mapped => \A t \in Targets :
        LET all == Yields(t)
            full == SelectSeq(all, HasMappedValue)
        IN mapping.props[t] = IF all = <<>> THEN Absent
                              ELSE IF mapping.settings.chain /\ full # <<>> THEN Head(full)
                              ELSE Last(all)

\* A row has something to say in SAP: its field has items that are filled, and each of them
\* is a telephone with its country, or a user with an equivalence, where one is needed.
Speaks(row, data) ==
    LET filled == {it \in Range(data[row.source]) : HasMappedValue(it.value)}
    IN /\ filled # {} /\ row.select
       /\ \A it \in filled : IF row.user THEN it.value \in DOMAIN Directory
                               ELSE row.target \in PhoneTargets => IsE164(Compact(it.value))

\* With the chain on, a run erases a property only when no row of it had anything to say when
\* SAP was asked, as long as rows and settings stayed: the blank that SAP leaves in the field
\* it does not use never wins over the one it does (hasMappedValue, walk).
ErasedOnlyWhenSilent ==
    [][\A t \in Targets :
          (/\ mapping.pc = "send" /\ mapping'.pc = "idle" /\ mapping.steady
           /\ mapping.settings.chain /\ shown[t] # Null /\ shown'[t] = Null) =>
              \A row \in Range(mapping.rows) : row.target = t => ~Speaks(row, mapping.was)
      ]_mappingVars

\* An owner put by hand outlives a code that is not homologated: a property with one row, of
\* a user, is erased only when SAP names nobody (translateSapOwnerValue).
HandPutUserStays ==
    [][\A t \in Targets :
          (mapping.pc = "send" /\ mapping'.pc = "idle" /\ shown[t] # Null /\ shown'[t] = Null) =>
              \A row \in Range(mapping.rows) :
                 (/\ row.user /\ row.target = t
                  /\ \A other \in Range(mapping.rows) : other.target = t => other = row) =>
                     ~HasMappedValue(Resolved(mapping.data[row.source], mapping.settings.chain))
      ]_mappingVars

\* HubSpot is never sent a telephone it refuses, and with it the whole record.
PhonesAreDialable ==
    mapping.pc = "send" => \A t \in PhoneTargets :
        (/\ \A row \in Range(mapping.rows) : row.target = t => ~row.user
         /\ HasMappedValue(mapping.props[t])) => IsE164(mapping.props[t])

\* A number of a declared local length is that country's local number even when it happens to
\* begin with the country's digits; no number gets a country nobody declared.
LocalNumbersStayLocal ==
    mapping.pc = "send" => \A t \in PhoneTargets, row \in Range(mapping.rows) :
        LET config == mapping.settings.phones
            v == Resolved(mapping.data[row.source], mapping.settings.chain)
        IN (row.target = t /\ ~row.user /\ Len(mapping.rows) = 1 /\ AreDigits(Compact(v))
            /\ HasMappedValue(mapping.props[t])) =>
               /\ config.enabled
               /\ IF Len(Compact(v)) \in config.lengths
                  THEN mapping.props[t] = <<"+">> \o config.country \o Compact(v)
                  ELSE mapping.props[t] = <<"+">> \o Compact(v)

\* A composed description has the values of its fields in order, and no separator at its ends
\* or beside another: one that an empty field leaves behind goes with the field.
DescriptionIsClean ==
    mapping.pc = "send" =>
        LET s == mapping.settings
            text == Composed(s.template, mapping.data)
            values == [n \in DOMAIN s.template |->
                         IF s.template[n].field = "" THEN Blank
                         ELSE Resolved(mapping.data[s.template[n].field], FALSE)]
        IN /\ Compact(text) = FlattenSeq(SelectSeq(values, HasMappedValue))
           /\ (text # Blank => (text[1] # Separator /\ Last(text) # Separator))
           /\ \A n \in 1 .. Len(text) - 1 : text[n] = Separator => text[n + 1] # Separator

\* The template of a run finds every field it names, also one that has no row, or whose row
\* keeps it out of the request, unless rows or settings changed after SAP was asked.
TemplateIsFed ==
    (mapping.pc = "send" /\ mapping.steady) =>
        TemplateFields(mapping.settings.template) \subseteq mapping.select

=============================================================================
