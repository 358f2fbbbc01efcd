---------------------------- MODULE ProductStock ----------------------------
(***************************************************************************)
(* The quantities of a product in HubSpot: WarehouseStockEnrichmentAdapter *)
(* and BatchExpiryEnrichmentAdapter beside a product run, the strategies   *)
(* they drive, and product.handler's preprocess, which writes what they    *)
(* attached.                                                               *)
(*                                                                         *)
(* In B1 a record carries its warehouses; in S/4 stock is read plant by    *)
(* plant from a service of its own, and the shelf life of a batch from     *)
(* another.  SAP moves while they are read.  A tenant maps each column to  *)
(* a warehouse: in B1 to one of its figures or to the total of the         *)
(* declared ones, in S/4 to a plant or to locations of it.                 *)
(***************************************************************************)
EXTENDS Integers, Sequences, FiniteSets, SequencesExt, FiniteSetsExt, TLC

CONSTANTS Items,        \* products
          S4Cells,      \* item, plant, loc, type, special, batch: a row of stock
          B1Cells,      \* item, plant, figure: a figure of a warehouse
          Locations,    \* the storage locations of a plant
          Setups,       \* the configurations of a tenant
          Deliveries,   \* the dates a batch may get
          MaxQuantity, MaxMoves, MaxStockRuns, MaxStockFaults, LastDay

All == "*"              \* valueSAP of the total of the declared warehouses
NoBatch == "none"       \* stock without a batch
NoDate == 0             \* a batch without ShelfLifeExpirationDate
Figures == {"InStock", "Committed", "Ordered"}

VARIABLES setup,        \* flavor, known, columns, excluded, formula, credential, batches
          onHand,       \* onHand[c]: the quantity of a cell in SAP
          shelfLife,    \* shelfLife[<<item, batch>>]: its date in the batch master
          today,
          shown,        \* shown[i][p]: the columns of HubSpot's product
          lots,         \* lots[i]: its batch properties
          enrich,       \* the product run
          stockMoves, stockRuns, stockFaults

stockVars == <<setup, onHand, shelfLife, today, shown, lots, enrich,
               stockMoves, stockRuns, stockFaults>>

Cells == IF setup.flavor = "S4" THEN S4Cells ELSE B1Cells
Batches == {c.batch : c \in S4Cells} \ {NoBatch}
Props == {setup.columns[n].prop : n \in DOMAIN setup.columns}

\* What the seven properties say when a product has no batches.
Blank == [next |-> {}, days |-> -1, expiring |-> 0, expired |-> 0, sellable |-> 0,
          detail |-> {}, blank |-> TRUE]

\* An attached key: absent, or what it holds for each item.
Absent == [present |-> FALSE]
Attached(f) == [present |-> TRUE, of |-> f]

\* seen: all that SAP had in a plant at the moment a query of the run read it.
Resting == [pc |-> "idle", waiting |-> {}, read |-> <<>>, seen |-> <<>>, stock |-> Absent,
            rows |-> Absent, dates |-> Absent, day |-> 0, lot |-> Absent, failed |-> {}]

StockInit ==
    /\ setup \in Setups
    /\ onHand \in [Cells -> {0, 1}]
    /\ shelfLife \in [Items \X Batches -> Deliveries]
    /\ today = 1
    /\ shown = [i \in Items |-> [p \in Props |-> 0]]
    /\ lots = [i \in Items |-> Blank]
    /\ enrich = Resting
    /\ stockMoves = 0 /\ stockRuns = 0 /\ stockFaults = 0

-----------------------------------------------------------------------------
(* S/4: columns over a service of stock rows. *)

\* One entry per property: the first wins.
S4Columns ==
    {setup.columns[n] : n \in {n \in DOMAIN setup.columns :
        \A m \in 1..(n - 1) : setup.columns[m].prop # setup.columns[n].prop}}

\* Mutant: the first list of locations of a plant wins.
FirstLocations(p) == (CHOOSE f \in S4Columns : f.plant = p).locs

\* One query per plant, for every location a column of it names.
TargetLocations(p) == UNION {f.locs : f \in {f \in S4Columns : f.plant = p}}
StockPlants == {f.plant : f \in S4Columns}

\* The rows a query returns, with what SAP has of them now.
Fetched(p, locs) == LET rows == {c \in S4Cells : onHand[c] > 0 /\ c.plant = p /\ c.loc \in locs}
                    IN [c \in rows |-> onHand[c]]

IsExcluded(plant, loc) == \E x \in setup.excluded : x.plant = plant /\ loc \in x.locs

\* buildS4StockIndex: one entry per location and type, over its batches.
IndexKey(c) == [plant |-> c.plant, loc |-> c.loc, type |-> c.type]
StockIndex(rows, i) ==
    LET own == {c \in DOMAIN rows : c.item = i /\ ~c.special /\ ~IsExcluded(c.plant, c.loc)}
    IN [k \in {IndexKey(c) : c \in own} |->
          MapThenSumSet(LAMBDA c : rows[c], {c \in own : IndexKey(c) = k})]

S4Column(f, index) ==
    MapThenSumSet(LAMBDA k : index[k],
                  {k \in DOMAIN index : k.plant = f.plant /\ k.loc \in f.locs /\ k.type \in f.types})

S4Stock(rows) ==
    [i \in Items |-> LET index == StockIndex(rows, i)
                     IN [p \in Props |-> S4Column(CHOOSE f \in S4Columns : f.prop = p, index)]]

-----------------------------------------------------------------------------
(* B1: columns over the warehouses of the record. *)

B1Columns == SelectSeq(setup.columns, LAMBDA f : f.metric # "unknown")

Figure(rows, i, w, figure) == LET c == [item |-> i, plant |-> w, figure |-> figure]
                              IN IF c \in DOMAIN rows THEN rows[c] ELSE 0

\* normalizeB1AvailableFormula: one that names a figure twice, an unknown one or none is refused.
ValidFormula == LET formula == setup.formula
                IN /\ formula.add \union formula.subtract \in SUBSET Figures \ {{}}
                   /\ formula.add \intersect formula.subtract = {}

\* getWarehouseMetricValue.
Metric(rows, i, w, metric) ==
    LET total(figures) == MapThenSumSet(LAMBDA g : Figure(rows, i, w, g), figures)
    IN IF metric = "available" THEN total(setup.formula.add) - total(setup.formula.subtract)
       ELSE Figure(rows, i, w, metric)

\* Mutant: excluded warehouses count.
AllDeclared(excluded) == {f.plant : f \in Range(B1Columns)} \ {All}

Declared(excluded) == {f.plant : f \in Range(B1Columns)} \ ({All} \union excluded)

B1Column(rows, i, f, excluded) ==
    IF f.plant \in excluded THEN 0
    ELSE IF f.plant = All
         THEN MapThenSumSet(LAMBDA w : Metric(rows, i, w, f.metric), Declared(excluded))
         ELSE Metric(rows, i, f.plant, f.metric)

\* buildB1WarehouseStockProperties: of two entries of one property the last wins;
\* with a formula that is not valid nothing that needs it is written.
B1Stock(rows, excluded) ==
    LET written == {n \in DOMAIN B1Columns :
                      \/ ValidFormula \/ B1Columns[n].metric # "available"
                      \/ B1Columns[n].plant \in excluded}
        of(p) == B1Columns[Max({n \in written : B1Columns[n].prop = p})]
    IN [i \in Items |-> [p \in {B1Columns[n].prop : n \in written} |->
                           B1Column(rows, i, of(p), excluded)]]

-----------------------------------------------------------------------------
(* Batches of S/4. *)

InScope(c) == \/ setup.batches.scope = {}
              \/ \E x \in setup.batches.scope : x.plant = c.plant /\ c.loc \in x.locs

\* buildBatchIndex: the stock of each batch.
LotsOf(rows, i) ==
    LET own == {c \in DOMAIN rows : /\ c.item = i /\ c.batch # NoBatch /\ ~c.special
                                    /\ c.type \in setup.batches.types /\ InScope(c)}
    IN [b \in {c.batch : c \in own} |->
          MapThenSumSet(LAMBDA c : rows[c], {c \in own : c.batch = b})]

\* classifyBatch.
Status(date) == IF date = NoDate THEN "undated"
                ELSE IF date < today THEN "expired"
                ELSE IF date - today <= setup.batches.horizon THEN "expiring"
                ELSE "fresh"

\* Mutant: the soonest of all the dates.
SoonestOfAll(batches, date) ==
    LET dated == {b \in batches : date[b] # NoDate}
    IN {b \in dated : \A other \in dated : date[b] <= date[other]}

\* The batches that expire soonest, of those that may still be sold.
Soonest(batches, date) ==
    LET dated == {b \in batches : Status(date[b]) \in {"expiring", "fresh"}}
    IN {b \in dated : \A other \in dated : date[b] <= date[other]}

\* summarizeBatches and the projection; of two batches of one date either is next.
Summary(stock, date) ==
    LET batches == DOMAIN stock
        of(status) == {b \in batches : Status(date[b]) = status}
        quantity(S) == MapThenSumSet(LAMBDA b : stock[b], S)
        next == Soonest(batches, date)
    IN IF batches = {} THEN Blank
       ELSE [next |-> next,
             days |-> IF next = {} THEN -1 ELSE date[CHOOSE b \in next : TRUE] - today,
             expiring |-> quantity(of("expiring")),
             expired |-> quantity(of("expired")),
             sellable |-> Cardinality(batches \ of("expired")),
             detail |-> IF setup.batches.expired THEN batches ELSE batches \ of("expired"),
             blank |-> FALSE]

LotSummaries(rows, dates) ==
    [i \in Items |-> LET stock == LotsOf(rows, i)
                     IN Summary(stock, [b \in DOMAIN stock |-> dates[<<i, b>>]])]

-----------------------------------------------------------------------------
(* SAP, which moves while a run reads. *)

Move == /\ stockMoves < MaxMoves
        /\ \E c \in Cells, n \in 0..MaxQuantity :
              n # onHand[c] /\ onHand' = [onHand EXCEPT ![c] = n]
        /\ stockMoves' = stockMoves + 1
        /\ UNCHANGED <<setup, shelfLife, today, shown, lots, enrich, stockRuns, stockFaults>>

NextDay == /\ today < LastDay /\ today' = today + 1
           /\ UNCHANGED <<setup, onHand, shelfLife, shown, lots, enrich,
                          stockMoves, stockRuns, stockFaults>>

-----------------------------------------------------------------------------
(* The run. *)

NoFault == UNCHANGED stockFaults
SapRests == UNCHANGED <<setup, onHand, shelfLife, today, stockMoves>>
HubspotRests == UNCHANGED <<shown, lots>>

Unread == IF setup.flavor = "S4" THEN StockPlants ELSE {}

\* The products are read, B1's with their warehouses.
ReadProducts ==
    /\ enrich.pc = "idle" /\ stockRuns < MaxStockRuns
    /\ stockRuns' = stockRuns + 1
    /\ enrich' = [Resting EXCEPT !.pc = "stock",
                     !.waiting = Unread,
                     !.read = IF setup.flavor = "B1" THEN onHand ELSE <<>>]
    /\ SapRests /\ HubspotRests /\ NoFault

\* Mutant: an enricher that fails ends the run.
StockAborts == enrich' = [enrich EXCEPT !.failed = @ \union {"stock"}, !.pc = "stopped"]

\* A caught error leaves the key of its enricher absent.
StockFails == enrich' = [enrich EXCEPT !.failed = @ \union {"stock"}, !.pc = "batches"]
BatchesFail == enrich' = [enrich EXCEPT !.failed = @ \union {"batches"}, !.pc = "write"]

Fault == stockFaults < MaxStockFaults /\ stockFaults' = stockFaults + 1

\* A configuration that cannot be read is one without columns.
Nothing == [i \in Items |-> <<>>]
ConfigUnread ==
    /\ enrich.pc = "stock" /\ enrich.waiting = Unread /\ Fault
    /\ enrich' = [enrich EXCEPT !.stock = Attached(Nothing), !.pc = "batches",
                                !.failed = @ \union {"config"}]
    /\ SapRests /\ HubspotRests /\ UNCHANGED stockRuns

UnknownStrategy ==
    /\ enrich.pc = "stock" /\ ~setup.known /\ StockFails
    /\ SapRests /\ HubspotRests /\ NoFault /\ UNCHANGED stockRuns

\* S/4's stock, one query per plant at once; without credentials there is none.
FetchStock ==
    /\ enrich.pc = "stock" /\ setup.known /\ setup.credential /\ enrich.waiting # {}
    /\ \/ \E p \in enrich.waiting :
            /\ enrich' = [enrich EXCEPT !.waiting = @ \ {p},
                            !.read = @ @@ Fetched(p, TargetLocations(p)),
                            !.seen = @ @@ Fetched(p, Locations)]
            /\ NoFault
       \/ StockFails /\ Fault
    /\ SapRests /\ HubspotRests /\ UNCHANGED stockRuns

\* The key is attached, holding nothing when no column is declared.
AttachStock ==
    /\ enrich.pc = "stock" /\ setup.known
    /\ enrich.waiting = {} \/ ~setup.credential
    /\ LET values == IF setup.flavor = "B1"
                     THEN B1Stock(enrich.read, {x.plant : x \in setup.excluded})
                     ELSE IF setup.credential THEN S4Stock(enrich.read) ELSE Nothing
       IN enrich' = [enrich EXCEPT !.stock = Attached(values), !.pc = "batches"]
    /\ SapRests /\ HubspotRests /\ NoFault /\ UNCHANGED stockRuns

\* The batches: their stock and their dates, each in a read of its own.
ReadsBatches == setup.batches.on /\ setup.credential

FetchBatches ==
    /\ enrich.pc = "batches" /\ ReadsBatches
    /\ \/ /\ ~enrich.rows.present /\ NoFault
          /\ enrich' = [enrich EXCEPT !.rows = Attached(
                [c \in {c \in S4Cells : onHand[c] > 0 /\ InScope(c)} |-> onHand[c]])]
       \/ /\ ~enrich.dates.present /\ NoFault
          /\ enrich' = [enrich EXCEPT !.dates = Attached(shelfLife)]
       \/ BatchesFail /\ Fault
    /\ SapRests /\ HubspotRests /\ UNCHANGED stockRuns

AttachBatches ==
    /\ enrich.pc = "batches"
    /\ \/ ~ReadsBatches /\ enrich' = [enrich EXCEPT !.pc = "write"]
       \/ /\ ReadsBatches /\ enrich.rows.present /\ enrich.dates.present
          /\ enrich' = [enrich EXCEPT !.pc = "write", !.day = today,
                          !.lot = Attached(LotSummaries(enrich.rows.of, enrich.dates.of))]
    /\ SapRests /\ HubspotRests /\ NoFault /\ UNCHANGED stockRuns

\* Without the key the columns are computed as in B1, and nothing is excluded; an S/4
\* record carries no warehouses, so there each of them is 0.
FallbackColumns ==
    IF setup.flavor = "B1" THEN B1Stock(enrich.read, {})
    ELSE [i \in Items |-> IF ValidFormula THEN [p \in Props |-> 0] ELSE <<>>]

\* Mutant: a batch read that failed is written as no batches.
BlankedLots(i) == IF enrich.lot.present THEN enrich.lot.of[i] ELSE Blank

\* Without the key of the batches HubSpot keeps what it shows.
WrittenLots(i) == IF enrich.lot.present THEN enrich.lot.of[i] ELSE lots[i]

\* preprocess and the write of the product: what is not written stays.
WriteProducts ==
    /\ enrich.pc = "write"
    /\ LET columns == IF enrich.stock.present THEN enrich.stock.of ELSE FallbackColumns
       IN shown' = [i \in Items |-> columns[i] @@ shown[i]]
    /\ lots' = [i \in Items |-> WrittenLots(i)]
    /\ enrich' = [enrich EXCEPT !.pc = "written"]
    /\ SapRests /\ NoFault /\ UNCHANGED stockRuns

FinishProducts ==
    /\ enrich.pc = "written" /\ enrich' = Resting
    /\ SapRests /\ HubspotRests /\ NoFault /\ UNCHANGED stockRuns

StockNext == \/ Move \/ NextDay \/ ReadProducts \/ ConfigUnread \/ UnknownStrategy
             \/ FetchStock \/ AttachStock \/ FetchBatches
             \/ AttachBatches \/ WriteProducts \/ FinishProducts

StockSpec == StockInit /\ [][StockNext]_stockVars

-----------------------------------------------------------------------------
(* Properties. *)

\* The columns and the batches of a product are quantities, and a run is at a step it has.
StockTypeOK ==
    /\ shown \in [Items -> [Props -> Int]]
    /\ enrich.pc \in {"idle", "stock", "batches", "write", "written"}
    /\ \A i \in Items : /\ lots[i].next \subseteq Batches /\ lots[i].detail \subseteq Batches
                        /\ {lots[i].expiring, lots[i].expired, lots[i].sellable} \subseteq Nat

Written(flavor) == enrich.pc = "written" /\ setup.flavor = flavor /\ enrich.failed \intersect {"stock", "config"} = {}

\* A column of S/4 shows what SAP had of the product, at the moment it was read, in the
\* plant, the locations and the types of that column and in no other row: however many
\* columns share a plant and whatever the queries were joined into (S4StockResolver,
\* buildS4StockQueryTargets and buildS4StockIndex); special stock and excluded locations
\* count nowhere.
ColumnsAreSap ==
    (Written("S4") /\ setup.credential) =>
        \A i \in Items, f \in S4Columns :
            LET of(c) == /\ c.item = i /\ ~c.special /\ c.plant = f.plant /\ c.loc \in f.locs
                         /\ c.type \in f.types /\ ~IsExcluded(c.plant, c.loc)
            IN shown[i][f.prop] = MapThenSumSet(LAMBDA c : enrich.seen[c],
                                                {c \in DOMAIN enrich.seen : of(c)})

\* The total of B1's declared warehouses is the sum of the columns they have of the same
\* metric: an excluded warehouse shows 0 and is not counted, and one declared twice counts
\* once (b1-item-warehouse.strategy.js, collectDeclaredWarehouseCodes).
TotalIsSumOfColumns ==
    Written("B1") =>
        \A i \in Items, n \in {n \in DOMAIN setup.columns : setup.columns[n].plant = All} :
            LET f == setup.columns[n]
                parts == {g \in Range(setup.columns) : g.metric = f.metric /\ g.plant # All}
                whole == {g.plant : g \in parts} = {g.plant : g \in Range(setup.columns)} \ {All}
                one(w) == CHOOSE g \in parts : g.plant = w
            IN (whole /\ (ValidFormula \/ f.metric # "available")) =>
                   shown[i][f.prop] = MapThenSumSet(LAMBDA w : shown[i][one(w).prop],
                                                    {g.plant : g \in parts})

\* The seven properties of a product agree with each other: there is a next batch when some
\* batch with a date may still be sold, its days are within the horizon exactly when
\* something is about to expire, and it is among those of the detail
\* (summarizeBatches; product-properties.projection.js).
LotsAgree ==
    \A i \in Items :
        LET lot == lots[i]
        IN /\ (lot.next # {}) = (lot.days >= 0)
           /\ lot.next \subseteq lot.detail
           /\ (lot.expiring > 0) = (lot.next # {} /\ lot.days <= setup.batches.horizon)
           /\ lot.sellable = 0 => (lot.next = {} /\ lot.expiring = 0)
           /\ lot.blank = (lot.sellable = 0 /\ lot.expired = 0)

\* What a product shows of its batches is blanked only by a run that read them and found
\* none, never by one that could not read them (BatchExpiryEnrichmentAdapter: to write
\* nothing is to state that there are no batches, and a failed read does not allow it).
BlankedOnlyWhenNoneRead ==
    [][\A i \in Items : (lots'[i].blank /\ ~lots[i].blank) =>
          /\ enrich.rows.present /\ enrich.dates.present
          /\ \A c \in DOMAIN enrich.rows.of :
                c.item = i => (c.batch = NoBatch \/ c.special \/ c.type \notin setup.batches.types)
      ]_stockVars

\* Counterpart for the columns, which the code does not keep: a column falls to 0 only in a
\* run whose reading of SAP succeeded (the comment of product.handler.js over the fallback
\* says that the key is always set and that this keeps S/4 from being zeroed).
ZeroedOnlyWhenRead ==
    [][\A i \in Items, p \in Props : (shown[i][p] # 0 /\ shown'[i][p] = 0) =>
          "stock" \notin enrich.failed]_stockVars

=============================================================================
