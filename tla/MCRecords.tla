------------------------------ MODULE MCRecords ------------------------------
(* Instance for TLC of the runs that send records: CrmBatches and ChildContacts *)
(* (partners and contact employees in batches), ItemSync (partners one by one), *)
(* ProductBatches and DealSync.  One is explored at a time, the others rest.    *)
EXTENDS ChildContacts, ProductBatches, DealSync, ItemSync, TLC

-----------------------------------------------------------------------------
\* CrmBatches and ChildContacts.

P(idsap, code, phone, email) ==
    [idsap |-> idsap, code |-> code, phone |-> phone, email |-> email]

\* Three partners, without contact employees: two that may be one partner, and
\* one that may have no key.
Partners ==
    {[rows |-> <<P("A", "", p1, e1), P(i2, "", p2, e2), P(i3, "", p3, e3)>>,
      children |-> <<<<>>, <<>>, <<>>>>] :
        i2 \in {"A", "B"}, i3 \in {"C", ""},
        p1 \in {"p"}, p2 \in {"", "p"}, p3 \in {"", "p"},
        e1 \in {"e", ""}, e2 \in {"e", "f"}, e3 \in {"e", "g"}}

\* Two partners and three contact employees, who may share codes, phones and
\* emails with each other and with their partners.
Employees ==
    {[rows |-> <<P("A", "", "", "e"), P("B", "", "p", "f")>>,
      children |-> <<<<P("", "1", p1, e1), P("", c2, p2, e2)>>, <<P("", c3, "", "g")>>>>] :
        p1 \in {"", "q"}, e1 \in {"e", "g"}, c2 \in {"", "2"}, p2 \in {"", "q"},
        e2 \in {"g", "h"}, c3 \in {"1", "3"}}

\* Five partners, the first and the fourth of which are one: the one is refused with
\* its chunk of updates and the other with its chunk of creates.
Clash == [rows |-> <<P("A", "", "p", "a"), P("C", "", "p", "c"), P("D", "", "", "d"),
                     P("A", "", "", "b"), P("E", "", "q", "e")>>,
          children |-> <<<<>>, <<>>, <<>>, <<>>, <<>>>>]

TheData == Partners \cup Employees \cup {Clash}

LeadsOfClash == <<P("", "", "p", ""), P("", "", "q", "")>>

ThePortals ==
    {<<>>, LeadsOfClash, <<P("", "", "p", "e")>>, <<P("", "1", "p", "e")>>,
     <<P("Z", "", "p", "f")>>, <<P("B", "", "p", ""), P("", "", "q", "g")>>}

TheConfigs ==
    {<<FALSE, "HUBSPOT", {}, TRUE, TRUE>>, <<TRUE, "HUBSPOT", {}, TRUE, FALSE>>,
     <<FALSE, "SAP", {}, TRUE, TRUE>>, <<TRUE, "HUBSPOT", {}, FALSE, TRUE>>}
    \cup {<<TRUE, "HUBSPOT", {r}, TRUE, TRUE>> : r \in 1..3}
    \cup {<<FALSE, "HUBSPOT", {3, 5}, TRUE, TRUE>>}

TheTiers == <<"idsap", "phone", "email">>
TheChildTiers == <<"code", "phone", "email">>

-----------------------------------------------------------------------------
\* ProductBatches and DealSync.

CONSTANTS r1, r2, r3, a, b, c

VARIABLE explored

MCRowList == <<r1, r2, r3>>
Skus(x, y, z) == [r \in Rows |-> CASE r = r1 -> x [] r = r2 -> y [] r = r3 -> z]
SkuCases == {Skus(a, b, c), Skus(a, a, b), Skus(a, b, a), Skus(a, b, NoSku)}

MCDocEntries == {1, 2}
MCOrderList == <<1, 2>>
MCInvoiceList == <<"consolidated", "other">>

Names(y) == [e \in MCDocEntries |-> IF e = 1 THEN "x" ELSE y]
Line(type, entry) == [type |-> type, entry |-> entry]
Lines(type) == [i \in Invoices |-> IF i = "consolidated" THEN {Line("order", 1), Line("order", 2)}
                                   ELSE {Line(type, 1)}]
Link(type, entry, id) == [type |-> type, doc |-> entry, deal |-> id]
Start(id, doc, name) == [id |-> id, doc |-> doc, name |-> name, stage |-> "open",
                         contact |-> FALSE]

DealCases(names, docs, types, seconds, contacts) ==
    /\ DealInit
    /\ dealName \in names
    /\ \E doc \in docs : deals = {Start(1, doc, "x"), Start(2, 0, dealName[2])}
    /\ searchable = {1, 2}
    /\ links \in {{Link("order", 1, 1), second} : second \in seconds}
    /\ lines \in {Lines(type) : type \in types}
    /\ contactIds \in contacts
    /\ DealHoldings

ItemsInit ==
    \/ /\ explored = "products"
       /\ ProductInit /\ sku \in SkuCases
       /\ DealCases({Names("y")}, {1}, {"none"}, {Link("order", 2, 2)}, {<<>>}) /\ moveStage
    \/ /\ explored = "deals"
       /\ ProductInit /\ sku = Skus(a, b, c) /\ stockKnown
       /\ DealCases({Names("x"), Names("y")}, {0, 1}, {"quotation", "none"},
                    {Link("order", 2, 2), Link("quotation", 1, 2)}, {<<>>, <<1>>})

ItemsNext ==
    /\ UNCHANGED explored
    /\ \/ explored = "products" /\ ProductNext /\ UNCHANGED dealVars
       \/ explored = "deals" /\ DealNext /\ UNCHANGED productVars

ItemsSpec == ItemsInit /\ [][ItemsNext]_<<productVars, dealVars, explored>>

-----------------------------------------------------------------------------
\* ItemSync.

HubspotRecord(idsap, code, email, phone) ==
    [idsap |-> idsap, code |-> code, email |-> email, phone |-> phone, of |-> ""]

StaffOf(code, email) == [code |-> code, email |-> email, phone |-> "q"]
Of(idsap, email, kids) == [idsap |-> idsap, email |-> email, kids |-> kids]

MCGroups ==
    {<<Of("A", ea, <<StaffOf("1", e1), StaffOf("2", e2)>>),
       Of("B", "f", IF both THEN <<StaffOf("1", e1)>> ELSE <<>>)>> :
        ea \in {"e", ""}, e1 \in {"e", "g", ""}, e2 \in {"f", "g"}, both \in BOOLEAN}

MCHoldings ==
    {[company |-> <<HubspotRecord("", "", "e", "p")>>, contact |-> contacts] :
        contacts \in {<<HubspotRecord("", "", "z", "p")>>, <<HubspotRecord("", "1", "f", "q")>>,
                      <<HubspotRecord("Z", "", "e", "p")>>}}

Setting(type, master, method, second, fields, skip, fetched) ==
    [type |-> type, master |-> master, method |-> method, second |-> second, fields |-> fields,
     bypass |-> skip, fetched |-> fetched]

MCSettings ==
    {Setting("company", "HUBSPOT", "script", "phone", FALSE, FALSE, {"1"}),
     Setting("contact", "HUBSPOT", "script", "phone", TRUE, TRUE, {}),
     Setting("contact", "HUBSPOT", "script", "email", FALSE, FALSE, {"X"}),
     Setting("contact", "SAP", "script", "phone", TRUE, FALSE, {}),
     Setting("company", "SAP", "serviceLayer", "email", TRUE, TRUE, {})}

MCPhones == {"", "p"}

-----------------------------------------------------------------------------
\* One component at a time.

VARIABLE part

\* What is not explored waits in one of its initial states.
PartnersRest ==
    /\ rows = <<P("A", "", "p", ""), P("B", "", "", "f"), P("C", "", "", "g")>>
    /\ children = <<<<>>, <<>>, <<>>>>
    /\ bypass = FALSE /\ mode = "HUBSPOT" /\ bad = {} /\ writable = TRUE
    /\ codeWritable = TRUE /\ portal = <<>>
    /\ SyncInit
ItemsRest ==
    /\ explored = "products" /\ sku = Skus(a, b, c) /\ stockKnown = TRUE
    /\ ItemsInit
OneByOneRests ==
    /\ setting = Setting("company", "HUBSPOT", "script", "phone", FALSE, FALSE, {"1"})
    /\ sapGroups = <<Of("A", "", <<StaffOf("1", ""), StaffOf("2", "f")>>), Of("B", "f", <<>>)>>
    /\ crm = [company |-> <<HubspotRecord("", "", "e", "p")>>,
              contact |-> <<HubspotRecord("", "", "z", "p")>>]
    /\ sapPhone = <<"", "">>
    /\ ItemInit

\* What a property or a right does to partners is explored without employees, what
\* internalcode does with them.
PartnersCases ==
    /\ SyncInit
    /\ Len(rows) = 5 <=> bad = {3, 5}
    /\ Len(rows) = 5 <=> portal = [i \in DOMAIN LeadsOfClash |-> Marked(LeadsOfClash[i], Lead)]
    /\ IF children[1] = <<>> THEN codeWritable ELSE writable /\ bad \subseteq {1}

\* The telephones of SAP are of both partners or of neither.
OneByOneCases == ItemInit /\ sapPhone[1] = sapPhone[2]

MCInit ==
    /\ part \in {"partners", "items", "one by one"}
    /\ IF part = "partners" THEN PartnersCases ELSE PartnersRest
    /\ IF part = "items" THEN ItemsInit ELSE ItemsRest
    /\ IF part = "one by one" THEN OneByOneCases ELSE OneByOneRests

MCNext ==
    /\ UNCHANGED part
    /\ \/ part = "partners" /\ SyncNext /\ UNCHANGED <<productVars, dealVars, explored, itemVars>>
       \/ part = "items" /\ ItemsNext /\ UNCHANGED <<vars, childVars, itemVars>>
       \/ /\ part = "one by one" /\ ItemNext
          /\ UNCHANGED <<vars, childVars, productVars, dealVars, explored>>

MCSpec == MCInit /\ [][MCNext]_<<part, vars, childVars, productVars, dealVars, explored, itemVars>>
=============================================================================
