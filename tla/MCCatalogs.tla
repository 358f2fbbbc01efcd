------------------------------ MODULE MCCatalogs ------------------------------
(* Instance for TLC of what is read from SAP as a whole: Dropdowns (the options *)
(* of HubSpot's properties), ProductStock (the stock columns) and SapFetch (the *)
(* changed records).  They share nothing and are explored one at a time.        *)
EXTENDS Dropdowns, ProductStock, SapFetch, TLC

-----------------------------------------------------------------------------
\* Dropdowns: a catalog that feeds both fields, user fields with a definition each.

CONSTANTS v1, v2, v3, f1, f2, p1, p2

Row(v, n) == [value |-> v, label |-> n]
MCFeeds == <<[fields |-> {f1}, perRow |-> FALSE], [fields |-> {f1, f2}, perRow |-> TRUE]>>

SharedCatalogs ==
    {<<>>, <<Row("", 1)>>, <<Row(v2, 1), Row(v1, 1)>>, <<Row(v1, 2), Row("a;b", 1), Row(v2, 1), Row(v3, 1)>>}
Definitions ==
    {<<>>,
     <<[field |-> f1, rows |-> <<Row(v3, 1)>>]>>,
     <<[field |-> f2, rows |-> <<>>], [field |-> f2, rows |-> <<Row(v1, 1), Row(v1, 2)>>]>>,
     <<[field |-> f1, rows |-> <<Row(v1, 1)>>], [field |-> f2, rows |-> <<Row(v2, 2), Row(v3, 1)>>]>>}
MCCatalogs(s) == IF s = 1 THEN SharedCatalogs ELSE Definitions

Existing(v, n, hide, noted) == [value |-> v, label |-> n, hidden |-> hide, note |-> noted]
MCLists == {<<>>, <<Existing(v3, 1, FALSE, TRUE), Existing(v1, 2, TRUE, FALSE)>>}
MCMappings == {(f1 :> {p1} @@ f2 :> {p2}), (f1 :> {p1, p2} @@ f2 :> {p2}), (f1 :> {} @@ f2 :> {p2})}

-----------------------------------------------------------------------------
\* ProductStock: tenants in S/4 and B1 whose columns overlap, exclude or total.

CONSTANTS i1, i2, l1, l2

MCItems == {i1, i2}
MCLocations == {l1, l2}

StockCell(i, p, l, t, s, b) == [item |-> i, plant |-> p, loc |-> l, type |-> t, special |-> s, batch |-> b]
MCS4Cells == {StockCell(i1, "P", l1, "01", FALSE, "b1"), StockCell(i1, "P", l1, "01", FALSE, "b2"),
              StockCell(i1, "P", l2, "01", FALSE, "b1"), StockCell(i1, "P", l2, "02", FALSE, "none"),
              StockCell(i1, "Q", l1, "01", FALSE, "none"), StockCell(i1, "P", l1, "01", TRUE, "b2"),
              StockCell(i2, "P", l1, "01", FALSE, "b1")}

Figures1(w) == {[item |-> i1, plant |-> w, figure |-> g] : g \in Figures}
MCB1Cells == Figures1("A") \union Figures1("B")

AllTypes == {"01", "02"}
S4Col(prop, plant, locs, types) == [prop |-> prop, plant |-> plant, locs |-> locs, types |-> types]
B1Col(prop, plant, metric) == [prop |-> prop, plant |-> plant, metric |-> metric]

Default == [add |-> {"InStock", "Ordered"}, subtract |-> {"Committed"}]
Invalid == [add |-> {"InStock"}, subtract |-> {"InStock", "Committed"}]
Lots(scope, horizon, expired) == [on |-> TRUE, scope |-> scope, types |-> {"01"},
                                  horizon |-> horizon, expired |-> expired]
NoLots == [on |-> FALSE, scope |-> {}, types |-> {"01"}, horizon |-> 1, expired |-> FALSE]

S4Tenant(columns, excluded, credential, batches) ==
    [flavor |-> "S4", known |-> TRUE, columns |-> columns, excluded |-> excluded,
     formula |-> Default, credential |-> credential, batches |-> batches]
B1Tenant(known, columns, excluded, formula) ==
    [flavor |-> "B1", known |-> known, columns |-> columns, excluded |-> excluded,
     formula |-> formula, credential |-> TRUE, batches |-> NoLots]

S4Overlapping == <<S4Col("here", "P", {l1}, {"01"}), S4Col("whole", "P", {l1, l2}, AllTypes),
                   S4Col("other", "Q", {l1, l2}, {"01"})>>
S4Apart == <<S4Col("here", "P", {l1}, {"01"}), S4Col("there", "P", {l2}, {"01"}),
             S4Col("here", "Q", {l1}, {"01"})>>
B1Columns2 == <<B1Col("a", "A", "available"), B1Col("b", "B", "available"),
                B1Col("a2", "A", "InStock"), B1Col("b2", "B", "InStock"),
                B1Col("a3", "A", "available"), B1Col("z", "B", "unknown"),
                B1Col("total", "*", "available"), B1Col("stock", "*", "InStock")>>

In(plant, locs) == [plant |-> plant, locs |-> locs]

MCSetups ==
    {S4Tenant(S4Overlapping, {In("P", {l2})}, TRUE, Lots({}, 0, FALSE)),
     S4Tenant(S4Apart, {}, TRUE, Lots({In("P", {l1})}, 1, TRUE)),
     S4Tenant(<<>>, {}, TRUE, Lots({In("P", {l1, l2})}, 1, FALSE)),
     S4Tenant(S4Apart, {}, FALSE, Lots({}, 1, FALSE)),
     B1Tenant(TRUE, B1Columns2, {In("B", {})}, Default),
     B1Tenant(TRUE, B1Columns2, {}, Default),
     B1Tenant(TRUE, B1Columns2, {}, Invalid),
     B1Tenant(FALSE, B1Columns2, {In("B", {})}, Default)}

\* At first SAP has something everywhere, or everywhere but in one place; the dates of a
\* batch matter only where batches are read.
StockCases ==
    /\ StockInit
    /\ Cardinality({c \in Cells : onHand[c] = 0}) <= 1
    /\ shelfLife[<<i2, "b1">>] = LastDay /\ shelfLife[<<i2, "b2">>] = LastDay
    /\ setup.batches.on \/ \A k \in DOMAIN shelfLife : shelfLife[k] = LastDay

-----------------------------------------------------------------------------
\* SapFetch: the filters the seeds and the panel can leave in a ClientConfig.

FetchConfig(mode, type, source, filters, interval) ==
    [mode |-> mode, type |-> type, source |-> source, filters |-> filters, interval |-> interval]

SeededCompanies == FetchConfig("INCREMENTAL", "other", "SERVICE_LAYER", {"datetime"}, 2)
MCTasks ==
    {FetchConfig("FULL", "other", "SERVICE_LAYER", {"datetime"}, 2),
     FetchConfig("FULL", "product", "S4_ODATA", {"datetime"}, 0),
     FetchConfig("INCREMENTAL", "other", "SERVICE_LAYER", {"date"}, 2),
     FetchConfig("INCREMENTAL", "other", "SERVICE_LAYER", {"date", "time"}, 2),
     FetchConfig("INCREMENTAL", "product", "SERVICE_LAYER", {}, 0),
     FetchConfig("INCREMENTAL", "other", "SERVICE_LAYER", {"datetime"}, 0),
     FetchConfig("INCREMENTAL", "other", "S4_ODATA", {}, 2),
     FetchConfig("INCREMENTAL", "other", "API", {}, 2),
     SeededCompanies}
MCSeeded == {SeededCompanies}

-----------------------------------------------------------------------------
\* One component at a time.

VARIABLE explored

\* What is not explored waits in one of its initial states.
DropdownsRest ==
    /\ setting = "disabled" /\ catalog = <<<<>>, <<>>>>
    /\ property = [k \in Property |-> [kind |-> "other", options |-> <<>>]]
    /\ mapping = (f1 :> {} @@ f2 :> {p2})
    /\ DropdownInit
StockRests ==
    /\ setup = S4Tenant(<<>>, {}, TRUE, Lots({In("P", {l1, l2})}, 1, FALSE))
    /\ onHand = [k \in S4Cells |-> 1]
    /\ shelfLife = [k \in Items \X Batches |-> LastDay]
    /\ StockCases
FetchRests == task = SeededCompanies /\ fetchSetup = "ready" /\ FetchInit

\* One of the two properties may have a name HubSpot does not take.
DropdownCases == DropdownInit /\ property[p2].kind # "invalidName"

MCInit ==
    /\ explored \in {"dropdowns", "stock", "fetch"}
    /\ IF explored = "dropdowns" THEN DropdownCases ELSE DropdownsRest
    /\ IF explored = "stock" THEN StockCases ELSE StockRests
    /\ IF explored = "fetch" THEN FetchInit ELSE FetchRests

MCNext ==
    /\ UNCHANGED explored
    /\ \/ explored = "dropdowns" /\ DropdownNext /\ UNCHANGED <<stockVars, fetchVars>>
       \/ explored = "stock" /\ StockNext /\ UNCHANGED <<dropdownVars, fetchVars>>
       \/ explored = "fetch" /\ FetchNext /\ UNCHANGED <<dropdownVars, stockVars>>

MCSpec == MCInit /\ [][MCNext]_<<explored, dropdownVars, stockVars, fetchVars>>
\* A tenant of S/4 with columns and credentials: only a plant's query can fail its stock.
FindingInit == /\ explored = "stock" /\ MCInit
               /\ setup.flavor = "S4" /\ setup.columns # <<>> /\ setup.credential
MCStockSpec == FindingInit /\ [][MCNext]_<<explored, dropdownVars, stockVars, fetchVars>>

\* Nothing but SapFetch holds SAP records.
CatalogsSymmetry == Permutations(SapRecord)
=============================================================================
