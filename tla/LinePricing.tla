---------------------------- MODULE LinePricing -------------------------------
(* One valuation of a deal's line items, by each of the three use cases:        *)
(* SyncLineItemPrices (businessPartner: two rounds, a line at a time),          *)
(* SyncDealLineItemPricesByPriceList and SyncS4LineItemPricesByPriceList.  The  *)
(* advisor adds and removes lines meanwhile, HubSpot's index of the deal's      *)
(* lines lags behind, and calls to SAP and HubSpot fail or succeed in part.     *)
EXTENDS Integers, FiniteSets, FiniteSetsExt

CONSTANTS
    Row,        \* line items, in the order a deal lists them
    Item,       \* SAP materials
    Quantity,   \* [Row -> Nat]
    MaxChanges,   \* lines the advisor adds or removes
    MaxFailures   \* calls that fail, or succeed in part

ASSUME RowAssumption == Row \subseteq Nat /\ IsFiniteSet(Row) /\ Quantity \in [Row -> Nat]
ASSUME BoundAssumption == MaxChanges \in Nat /\ MaxFailures \in Nat

Flow == {"businessPartner", "dealPriceList", "s4PriceList"}
Old == 7       \* a price or an amount of an earlier day
Price == 0 .. 1

VARIABLES
    flow,
    item,      \* [Row -> Item]
    market,    \* [Item -> [price, currency]]: what SAP answers for a material
    area,      \* the deal's sales area: "found", "notFound", "missing"
    dealCurrency,  \* the deal names its currency
    deal,      \* [Row -> [state, listed, price]] as HubSpot holds it
    amount,    \* the deal's amount
    x,         \* the valuation
    edits, failed

pricingVars == <<flow, item, market, area, dealCurrency, deal, amount, x, edits, failed>>

Empty == [pc |-> "readDeal", ids |-> {}, lines |-> {}, cache |-> {}, failures |-> {},
          enriched |-> {}, updated |-> {}, freshIds |-> {}, fresh |-> {}, zero |-> {},
          readFailures |-> {}, enriched2 |-> {}, updated2 |-> {}, failures2 |-> {},
          triggered |-> FALSE, aborted |-> FALSE]

PricingTypeOK ==
    /\ deal \in [Row -> [state : {"none", "on", "gone"}, listed : BOOLEAN, price : Price \cup {Old}]]
    /\ amount \in Nat
    /\ x.pc \in {"readDeal", "price", "update", "products", "reconcile", "readFresh", "pending",
                 "update2", "amount", "zero", "zeroAmount", "done", "errored"}
    /\ x.lines \subseteq x.ids /\ x.enriched \subseteq x.lines /\ x.updated \subseteq x.enriched
    /\ x.enriched2 \subseteq x.fresh /\ x.updated2 \subseteq x.enriched2

PricingInit ==
    /\ flow \in Flow
    /\ item \in [Row -> Item]
    /\ market \in [Item -> [price : Price, currency : {"deal", "other"}]]
    /\ IF flow = "s4PriceList"
       THEN area \in {"found", "notFound", "missing"} /\ dealCurrency \in BOOLEAN
       ELSE area = "found" /\ dealCurrency = TRUE
    /\ flow = "businessPartner" => \A i \in Item : market[i].currency = "deal"
    /\ \E on \in {{k \in Row : k <= l} : l \in Row} : \E p \in {0, Old} :
           deal = [l \in Row |-> [state |-> IF l \in on THEN "on" ELSE "none", listed |-> l \in on, price |-> p]]
    /\ amount = Old
    /\ x = Empty
    /\ edits = 0 /\ failed = 0

-------------------------------------------------------------------------------
(* The advisor and the index                                                    *)

InProgress == x.pc \notin {"done", "errored"}

PutLine(l) ==
    /\ InProgress /\ edits < MaxChanges /\ edits' = edits + 1
    /\ deal[l].state = "none" /\ \A k \in Row : k < l => deal[k].state # "none"
    /\ \E p \in {0, Old} : deal' = [deal EXCEPT ![l].state = "on", ![l].price = p]
    /\ UNCHANGED <<flow, item, market, area, dealCurrency, amount, x, failed>>

DropLine(l) ==
    /\ InProgress /\ edits < MaxChanges /\ edits' = edits + 1
    /\ deal[l].state = "on"
    /\ deal' = [deal EXCEPT ![l].state = "gone"]
    /\ UNCHANGED <<flow, item, market, area, dealCurrency, amount, x, failed>>

IndexCatchesUp(l) ==
    /\ InProgress /\ deal[l].listed # (deal[l].state = "on")
    /\ deal' = [deal EXCEPT ![l].listed = ~@]
    /\ UNCHANGED <<flow, item, market, area, dealCurrency, amount, x, edits, failed>>

-------------------------------------------------------------------------------
(* The valuation                                                                *)

CallFails == failed < MaxFailures /\ failed' = failed + 1
CallsWork == UNCHANGED failed
Go(pc) == x' = [x EXCEPT !.pc = pc]
World == <<flow, item, market, area, dealCurrency, edits>>

Listed == {l \in Row : deal[l].listed}
Gone(ids) == {l \in ids : deal[l].state # "on"}

\* A call that costs the whole valuation: the event is marked errored.
Throws ==
    /\ x.pc \in {"readDeal", "price", "update", "products", "amount"}
    /\ x.pc = "price" => flow # "businessPartner"
    /\ x.pc = "products" => flow # "s4PriceList"
    /\ CallFails
    /\ Go("errored")
    /\ UNCHANGED <<World, deal, amount>>

\* The tolerant reader: a line that cannot be read is a failure, never an error.
ReadLineItems(ids, lost) == ids \ (Gone(ids) \cup lost)
LostReads(ids, lost) ==
    /\ lost \subseteq ids \ Gone(ids)
    /\ IF lost = {} THEN CallsWork ELSE Cardinality(lost) = 1 /\ CallFails

TolerantRead ==
    /\ x.pc = "readDeal" /\ flow # "dealPriceList"
    /\ \E lost \in SUBSET Listed :
        /\ LostReads(Listed, lost)
        /\ LET lines == ReadLineItems(Listed, lost)
           IN  x' = [x EXCEPT !.ids = Listed, !.lines = lines, !.failures = Listed \ lines,
                              !.pc = IF lines = {} THEN "errored" ELSE "price"]
    /\ UNCHANGED <<World, deal, amount>>

\* Under a deal price list one line that cannot be read ends the valuation.
StrictRead ==
    /\ x.pc = "readDeal" /\ flow = "dealPriceList"
    /\ CallsWork
    /\ x' = [x EXCEPT !.ids = Listed, !.lines = ReadLineItems(Listed, {}),
                      !.pc = IF Listed = {} \/ Gone(Listed) # {} THEN "errored" ELSE "price"]
    /\ UNCHANGED <<World, deal, amount>>

\* Of the lines of one material the first that SAP answers serves those after it.
Asks(lines, known) ==
    {bad \in SUBSET lines :
        \A l \in bad : item[l] \notin known /\ \A k \in lines \ bad : k < l => item[k] # item[l]}
Answers(lines, known, bad) ==
    /\ bad \in Asks(lines, known)
    /\ IF bad = {} THEN CallsWork ELSE Cardinality(bad) = 1 /\ CallFails

PriceByPartner ==
    /\ x.pc = "price" /\ flow = "businessPartner"
    /\ \E bad \in SUBSET x.lines :
        /\ Answers(x.lines, {}, bad)
        /\ x' = [x EXCEPT !.enriched = x.lines \ bad,
                          !.failures = @ \cup bad,
                          !.cache = {item[l] : l \in x.lines \ bad},
                          !.pc = IF x.lines = bad THEN "errored" ELSE "update"]
    /\ UNCHANGED <<World, deal, amount>>

\* A price, in the deal's currency if the deal names one, in the list asked for or in a
\* default one.
Sellable(l) == market[item[l]].price > 0 /\ (dealCurrency => market[item[l]].currency = "deal")

Enrich(lines) == x' = [x EXCEPT !.enriched = lines, !.pc = IF lines = {} THEN "errored" ELSE "update"]
SellableLines == {l \in x.lines : Sellable(l)}

PriceByDealList ==
    /\ x.pc = "price" /\ flow = "dealPriceList"
    /\ CallsWork /\ Enrich(SellableLines)
    /\ UNCHANGED <<World, deal, amount>>

PriceByS4List ==
    /\ x.pc = "price" /\ flow = "s4PriceList" /\ area = "found"
    /\ CallsWork /\ Enrich(SellableLines)
    /\ UNCHANGED <<World, deal, amount>>

NoSalesArea ==
    /\ x.pc = "price" /\ flow = "s4PriceList" /\ area = "missing"
    /\ CallsWork /\ Go("errored")
    /\ UNCHANGED <<World, deal, amount>>

\* The customer is not in the deal's area: no price of another day may be quoted.
SalesAreaNotFound ==
    /\ x.pc = "price" /\ flow = "s4PriceList" /\ area = "notFound"
    /\ CallsWork /\ Go("zero")
    /\ UNCHANGED <<World, deal, amount>>

ZeroLines ==
    /\ x.pc = "zero"
    /\ \/ /\ CallsWork
          /\ deal' = [l \in Row |-> IF l \in x.lines THEN [deal[l] EXCEPT !.price = 0] ELSE deal[l]]
          /\ Go("zeroAmount")
       \/ CallFails /\ Go("errored") /\ UNCHANGED deal
    /\ UNCHANGED <<World, amount>>

ZeroAmount ==
    /\ x.pc = "zeroAmount"
    /\ \/ CallsWork /\ amount' = 0
       \/ CallFails /\ UNCHANGED amount
    /\ Go("errored")
    /\ UNCHANGED <<World, deal>>

SapPrice(l) == market[item[l]].price
NewPrices(lines) == [l \in Row |-> IF l \in lines THEN [deal[l] EXCEPT !.price = SapPrice(l)] ELSE deal[l]]

\* A batch update writes what HubSpot accepts: all of it, or all but one (207).
Accepts(lines, ok) ==
    /\ ok \subseteq lines
    /\ IF ok = lines THEN CallsWork ELSE Cardinality(lines \ ok) = 1 /\ CallFails

UpdateLineItems ==
    /\ x.pc = "update"
    /\ \E ok \in SUBSET x.enriched :
        /\ Accepts(x.enriched, ok)
        /\ deal' = NewPrices(ok)
        /\ x' = [x EXCEPT !.updated = ok, !.pc = IF flow = "s4PriceList" THEN "amount" ELSE "products"]
    /\ UNCHANGED <<World, amount>>

UpdateProducts ==
    /\ x.pc = "products"
    /\ CallsWork
    /\ Go(IF flow = "businessPartner" THEN "reconcile" ELSE "amount")
    /\ UNCHANGED <<World, deal, amount>>

\* The second pass is best effort: what it throws is a failure without a line.
Aborted == x' = [x EXCEPT !.aborted = TRUE, !.enriched2 = {}, !.failures2 = {}, !.pc = "amount"]
ReconcileThrows ==
    /\ x.pc \in {"reconcile", "update2"}
    /\ CallFails
    /\ Aborted
    /\ UNCHANGED <<World, deal, amount>>

ReadDealLineItemIds ==
    /\ x.pc = "reconcile"
    /\ CallsWork
    /\ x' = [x EXCEPT !.freshIds = Listed, !.pc = "readFresh"]
    /\ UNCHANGED <<World, deal, amount>>

NoZero(lines) == {}
ZeroPriceLines(lines) == {l \in lines : deal[l].price = 0 /\ ~(item[l] \in x.cache /\ SapPrice(l) = 0)}
CountMismatch == Cardinality(x.freshIds) # Cardinality(x.updated)

ReadFresh ==
    /\ x.pc = "readFresh"
    /\ \E lost \in SUBSET x.freshIds :
        /\ LostReads(x.freshIds, lost)
        /\ LET lines == ReadLineItems(x.freshIds, lost)
               zero  == ZeroPriceLines(lines)
               go    == CountMismatch \/ zero # {}
           IN  x' = [x EXCEPT !.fresh = lines, !.zero = zero, !.triggered = go,
                              !.failures2 = x.freshIds \ lines,
                              !.pc = IF go THEN "pending" ELSE "amount"]
    /\ UNCHANGED <<World, deal, amount>>

ByIndex == (x.freshIds \ x.updated) \cup x.zero
OnlyZero == x.zero
Pending == (x.fresh \ x.updated) \cup x.zero

PricePending ==
    /\ x.pc = "pending"
    /\ \E bad \in SUBSET Pending :
        /\ Answers(Pending, x.cache, bad)
        /\ x' = [x EXCEPT !.enriched2 = Pending \ bad,
                          !.failures2 = @ \cup bad,
                          !.cache = @ \cup {item[l] : l \in Pending \ bad},
                          !.pc = IF Pending = bad THEN "amount" ELSE "update2"]
    /\ UNCHANGED <<World, deal, amount>>

UpdatePending ==
    /\ x.pc = "update2"
    /\ \E ok \in SUBSET x.enriched2 :
        /\ Accepts(x.enriched2, ok)
        /\ deal' = NewPrices(ok)
        /\ x' = [x EXCEPT !.updated2 = ok, !.pc = "amount"]
    /\ UNCHANGED <<World, amount>>

Currencies(lines) == {market[item[l]].currency : l \in lines}
MixedCurrencies == Cardinality(Currencies(x.enriched)) > 1

LineTotal(l) == Quantity[l] * SapPrice(l)
Total(lines) == MapThenSumSet(LineTotal, lines)
FirstRound == Total(x.enriched)
TotalAmount == Total(x.enriched) + Total(x.enriched2)

UpdateDealAmount ==
    /\ x.pc = "amount"
    /\ CallsWork
    /\ amount' = IF MixedCurrencies THEN amount ELSE TotalAmount
    /\ Go("done")
    /\ UNCHANGED <<World, deal>>

Unresolved == (x.failures \ x.enriched2) \cup (x.failures2 \ x.enriched2)

PricingNext ==
    \/ \E l \in Row : PutLine(l) \/ DropLine(l) \/ IndexCatchesUp(l)
    \/ Throws \/ TolerantRead \/ StrictRead \/ PriceByPartner \/ PriceByDealList \/ PriceByS4List
    \/ NoSalesArea \/ SalesAreaNotFound \/ ZeroLines \/ ZeroAmount
    \/ UpdateLineItems \/ UpdateProducts
    \/ ReconcileThrows \/ ReadDealLineItemIds \/ ReadFresh \/ PricePending \/ UpdatePending
    \/ UpdateDealAmount

PricingSpec == PricingInit /\ [][PricingNext]_pricingVars

-------------------------------------------------------------------------------
Written == x.updated \cup x.updated2
Clean == x.updated = x.enriched /\ x.updated2 = x.enriched2

\* When the second pass runs to its end, every line the deal had or has is written or
\* reported unresolved, whichever of the two rounds failed it (reconcile,
\* collectUnresolvedFailures); a line HubSpot refuses in the second batch is not reported.
NoLineForgotten ==
    (x.pc = "done" /\ x.triggered /\ ~x.aborted) =>
        \A l \in (x.ids \ Gone(x.ids)) \cup x.freshIds :
            l \in Written \cup Unresolved \cup (x.enriched2 \ x.updated2)

\* No line the second pass could read is left at zero unless zero is SAP's price, or it is
\* reported, or HubSpot refused it twice (reconcile).
NothingLeftAtZero ==
    (x.pc = "done" /\ flow = "businessPartner" /\ ~x.aborted) =>
        \A l \in x.fresh : deal[l].price = 0 =>
            SapPrice(l) = 0 \/ l \in Unresolved \cup (x.enriched2 \ x.updated2)

\* The deal's amount is the sum of the lines written, each once and in one currency,
\* when HubSpot takes every batch whole.
AmountIsSum ==
    (x.pc = "done" /\ Clean) =>
        IF Cardinality(Currencies(Written)) > 1
        THEN amount = Old
        ELSE amount = MapThenSumSet(LAMBDA l : Quantity[l] * deal[l].price, Written)

\* What SyncLineItemPrices.js:711-712 says of the amount: it is what could be priced in the
\* two rounds.  A line priced in both counts twice.
AmountCountsLinesOnce ==
    (x.pc = "done" /\ ~MixedCurrencies) => amount = Total(x.enriched \cup x.enriched2)

\* What SyncLineItemPrices.js:88-95 says of unresolved: no line of it was written.
UnresolvedWasNotWritten == x.pc = "done" => Unresolved \cap Written = {}
=============================================================================
