------------------------------ MODULE MCTenant ------------------------------
(* Instance for TLC of what a tenant is set up with: SapSyncSchedule (its      *)
(* jobs), TenantSetup (its configs and rows) and FieldValues (what its rows    *)
(* do to a record).  Each is explored with the others at rest.                 *)
EXTENDS SapSyncSchedule, TenantSetup, FieldValues, TLC

-----------------------------------------------------------------------------
\* SapSyncSchedule.

AllInFirst == LET first == CHOOSE t \in Tenant : TRUE IN [c \in Config |-> first]

Full(T) == [mode |-> "FULL", times |-> T]

\* No time, one, two: slots appear and disappear.
FewSettings == {Full({}), Full({1}), Full({0, 2}), [mode |-> "EVERY", interval |-> 2]}

\* Windows with a run each hour: around midnight, over several hours, of one instant; one
\* whose interval has no pattern.  What a window fires at is proved for all of them.
Windows ==
    [mode : {"WINDOW"},
     window : [start : {1, 4}, end : {1, 4}, interval : {MinutesPerHour}]
              \union {[start |-> 1, end |-> 4, interval |-> MinutesPerHour + 1]}]

AllSettings == FewSettings \union Windows

-----------------------------------------------------------------------------
\* TenantSetup.

CONSTANTS p1, p2, k1, k2

MCFlavorOf == [p \in {p1, p2} |-> IF p = p1 THEN "S4" ELSE "B1"]
MCConfigTemplates == <<[name |-> "companies", flavor |-> "B1", object |-> "company"],
                 [name |-> "products",  flavor |-> "B1", object |-> "product"],
                 [name |-> "partners",  flavor |-> "S4", object |-> "company"]>>
MCAdminConfigs == {[name |-> "products", object |-> "product", credential |-> TRUE]}
SetupSymmetry == Permutations({k1, k2})

-----------------------------------------------------------------------------
\* FieldValues.

VARIABLE part

Fields == {"tax", "list", "cell"}
Item(kind, v) == [kind |-> kind, value |-> v]
PlainValue(v) == <<Item("plain", v)>>
Texts == {Blank, <<"x">>, <<"y">>}
Numbers == UNION {[1 .. n -> {"+", "5", "1", "0", Separator}] : n \in 1 .. 3}
           \union {<<"+">> \o s : s \in [1 .. 3 -> {"5", "1", "0"}]} \union [1 .. 4 -> {"5", "1"}]

Rec(tax, list, cell) == [f \in Fields |-> CASE f = "tax" -> tax [] f = "list" -> list [] OTHER -> cell]

ChainRecords ==
    {Rec(PlainValue(v), list, <<>>) :
        v \in Texts \union {Null},
        list \in {<<>>} \union {<<Item("a", x), Item("b", y)>> : x \in Texts, y \in Texts}}
PhoneRecords == {Rec(<<>>, <<>>, PlainValue(v)) : v \in Numbers \union {Null, Blank}}
TemplateRecords == {Rec(PlainValue(x), PlainValue(y), PlainValue(z)) :
                      x \in {Blank, <<"x">>}, y \in {Null, <<"y">>}, z \in {Blank, <<"z">>}}

RecordsOf == [p \in {"chain", "phones", "template"} |->
                CASE p = "chain" -> ChainRecords [] p = "phones" -> PhoneRecords
                  [] OTHER -> TemplateRecords]
MCRecords == ChainRecords \union TemplateRecords \union PhoneRecords
MCDirectory == (<<"x">> :> <<"ana">>)
MCPriority == <<"b">>
MCRawPhoneConfigs == {[enabled |-> TRUE, country |-> <<"5">>, lengths |-> {2}],
                      [enabled |-> TRUE, country |-> Blank, lengths |-> {2}]}
MCTemplates == {<<Field("tax"), Literal(<<Separator>>), Field("list"), Literal(<<Separator>>), Field("cell")>>}

FieldsOf == [p \in {"chain", "phones", "template"} |->
               CASE p = "chain" -> {"tax", "list"} [] p = "phones" -> {"cell"} [] OTHER -> {"list", "cell"}]

FieldValuesInit ==
    /\ part \in DOMAIN FieldsOf /\ record \in RecordsOf[part]
    /\ MappingInit
    /\ settings.into = "id"
    /\ (part # "template" => settings.template = NoTemplate)
    /\ (part # "phones" => ~settings.phones.enabled)

FieldValuesNext ==
    /\ UNCHANGED part
    /\ \/ part # "phones" /\ mapping.pc = "idle" /\ SapChanges /\ record' \in RecordsOf[part]
       \/ /\ CreateMapping
          /\ \A n \in DOMAIN rows' : rows'[n].source \in FieldsOf[part]
                                   /\ (part = "phones" <=> rows'[n].target \in PhoneTargets)
       \/ SwitchRow
       \/ part # "phones" /\ ChangeSettings /\ (part = "chain" => settings'.template = NoTemplate)
       \/ FetchFields \/ ReadMappings \/ MapRow \/ Compose \/ Send
    \* A telephone is mapped once by one row; what SAP changes while a run maps is not seen by it.
    /\ (part = "phones" => mappingEdits' <= 1 /\ mappingRuns' <= 1)

FieldValuesSpec == FieldValuesInit /\ [][FieldValuesNext]_<<mappingVars, part>>

-----------------------------------------------------------------------------
\* One component at a time.

VARIABLE explored

\* The component that is not explored waits in one of its initial states.
ScheduleRests ==
    /\ saved = [c \in Config |-> [active |-> FALSE, setting |-> Full({})]] /\ jobs = [c \in Config |-> NoJobs]
    /\ Init
MappingRests ==
    /\ part = "template" /\ record = Rec(PlainValue(Blank), PlainValue(Null), PlainValue(Blank))
    /\ settings = [chain |-> FALSE, template |-> NoTemplate, into |-> "id",
                   phones |-> [enabled |-> FALSE, country |-> Blank, lengths |-> {}]]
    /\ FieldValuesInit

MCInit ==
    /\ explored \in {"schedule", "setup", "mapping"}
    /\ SetupInit
    /\ IF explored = "schedule" THEN Init ELSE ScheduleRests
    /\ IF explored = "mapping" THEN FieldValuesInit ELSE MappingRests

MCNext ==
    /\ UNCHANGED explored
    /\ \/ explored = "schedule" /\ Next /\ UNCHANGED <<setupVars, mappingVars, part>>
       \/ explored = "setup" /\ SetupNext /\ UNCHANGED <<vars, mappingVars, part>>
       \/ explored = "mapping" /\ FieldValuesNext /\ UNCHANGED <<vars, setupVars>>

MCSpec == MCInit /\ [][MCNext]_<<explored, vars, setupVars, mappingVars, part>>
=============================================================================
