------------------------------ MODULE PricesProofs ------------------------------
(* Theorems about the prices of a deal's lines: what one valuation leaves of    *)
(* the lines of its deal (LinePricing), and which webhook sees to the price of  *)
(* an edited line (PriceWebhooks).                                              *)
EXTENDS PriceWebhooks, LinePricing, SequenceTheorems, FiniteSetTheorems, TLAPS

-------------------------------------------------------------------------------
(* LinePricing.  NoLineForgotten needs that a line the valuation knows, as long *)
(* as it is on the deal, is listed (KnownAreListed), so that the second pass    *)
(* finds it, and what the second pass has done with those it found.             *)

ValuationFields ==
    {"pc", "ids", "lines", "cache", "failures", "enriched", "updated", "freshIds", "fresh", "zero",
     "readFailures", "enriched2", "updated2", "failures2", "triggered", "aborted"}
LineFields == {"state", "listed", "price"}

PricingShaped ==
    /\ DOMAIN x = ValuationFields
    /\ DOMAIN deal = Row
    /\ \A l \in Row : DOMAIN deal[l] = LineFields /\ deal[l].listed \in BOOLEAN

\* A listed line is or was on the deal; one the valuation has read the id of stays listed
\* as long as it is.
KnownAreListed ==
    /\ \A l \in Row : deal[l].listed => deal[l].state # "none"
    /\ \A l \in x.ids : l \in Row /\ deal[l].state # "none" /\ (deal[l].state = "on" => deal[l].listed)

SecondPass == {"readFresh", "pending", "update2"}
Ending == {"amount", "done"}
BeforeSecondPass == {"readDeal", "price", "update", "products", "reconcile", "readFresh"}

RanThrough == x.triggered /\ ~x.aborted

\* The lines the second pass lists are all those known that are still on the deal.
FreshIdsKnow ==
    (x.pc \in SecondPass \/ (x.pc \in Ending /\ RanThrough)) =>
        \A l \in x.ids : deal[l].state = "on" => l \in x.freshIds

FreshIdsAccounted ==
    /\ x.pc \in BeforeSecondPass => ~x.triggered
    /\ x.pc = "pending" => \A l \in x.freshIds : l \in x.fresh \/ l \in x.failures2
    /\ (x.pc = "update2" \/ (x.pc \in Ending /\ RanThrough)) =>
          \A l \in x.freshIds : l \in x.updated \/ l \in x.failures2 \/ l \in x.enriched2

PricingInv == PricingShaped /\ KnownAreListed /\ FreshIdsKnow /\ FreshIdsAccounted

LEMMA PricingStarts == PricingInit => PricingInv
  <1> SUFFICES ASSUME PricingInit PROVE PricingInv
    OBVIOUS
  <1>1. PICK on : \E p \in {0, Old} :
           deal = [l \in Row |-> [state |-> IF l \in on THEN "on" ELSE "none",
                                  listed |-> l \in on, price |-> p]]
    BY Zenon DEF PricingInit
  <1>2. PICK p \in {0, Old} :
           deal = [l \in Row |-> [state |-> IF l \in on THEN "on" ELSE "none",
                                  listed |-> l \in on, price |-> p]]
    BY <1>1
  <1>3. DOMAIN deal = Row
    BY <1>2
  <1>4. ASSUME NEW l \in Row
        PROVE  /\ DOMAIN deal[l] = LineFields /\ deal[l].listed \in BOOLEAN
               /\ deal[l].listed => deal[l].state # "none"
    <2>1. deal[l] = [state |-> IF l \in on THEN "on" ELSE "none", listed |-> l \in on, price |-> p]
      BY <1>2
    <2>2. /\ l \in on => deal[l].listed = TRUE /\ deal[l].state = "on"
          /\ l \notin on => deal[l].listed = FALSE
      <3>1. CASE l \in on
        <4>1. (l \in on) = TRUE
          BY <3>1
        <4>2. deal[l] = [state |-> "on", listed |-> TRUE, price |-> p]
          BY <2>1, <3>1, <4>1
        <4> QED BY <3>1, <4>2
      <3>2. CASE l \notin on
        <4>1. (l \in on) = FALSE
          BY <3>2
        <4>2. deal[l] = [state |-> "none", listed |-> FALSE, price |-> p]
          BY <2>1, <3>2, <4>1
        <4> QED BY <3>2, <4>2
      <3> QED BY <3>1, <3>2
    <2>3. DOMAIN deal[l] = LineFields
      BY <2>1 DEF LineFields
    <2> QED BY <2>2, <2>3
  <1>5. x = Empty
    BY DEF PricingInit
  <1>6. DOMAIN x = ValuationFields /\ x.pc = "readDeal" /\ x.ids = {} /\ ~x.triggered
    BY <1>5 DEF Empty, ValuationFields
  <1> QED BY <1>3, <1>4, <1>6 DEF PricingInv, PricingShaped, KnownAreListed, FreshIdsKnow,
       FreshIdsAccounted, SecondPass, Ending, BeforeSecondPass, RanThrough

\* No line comes back to the deal, and none that is on it is taken off the list.
DealGoesOn ==
    /\ DOMAIN deal' = Row
    /\ \A l \in Row :
          /\ DOMAIN deal'[l] = LineFields /\ deal'[l].listed \in BOOLEAN
          /\ deal[l].state # "none" => /\ deal'[l].state # "none"
                                       /\ deal'[l].state = "on" => deal[l].state = "on"
          /\ deal'[l].listed => deal'[l].state # "none"
          /\ deal'[l].state = "on" /\ deal[l].listed => deal'[l].listed

LEMMA DealKeepsPricing ==
    ASSUME PricingInv, x' = x, DealGoesOn
    PROVE  PricingInv'
  BY DEF PricingInv, PricingShaped, KnownAreListed, FreshIdsKnow, FreshIdsAccounted, DealGoesOn, RanThrough

LEMMA AdvisorKeepsPricing ==
    ASSUME PricingInv, NEW l \in Row, PutLine(l) \/ DropLine(l) \/ IndexCatchesUp(l)
    PROVE  PricingInv'
  <1> USE DEF PricingInv, PricingShaped, KnownAreListed, LineFields
  <1>1. CASE PutLine(l)
    <2>1. PICK p : deal' = [deal EXCEPT ![l].state = "on", ![l].price = p]
      BY <1>1 DEF PutLine
    <2>2. x' = x /\ deal[l].state = "none"
      BY <1>1 DEF PutLine
    <2>3. DealGoesOn
      BY <2>1, <2>2 DEF DealGoesOn
    <2> QED BY <2>2, <2>3, DealKeepsPricing
  <1>2. CASE DropLine(l)
    <2>1. x' = x /\ DealGoesOn
      BY <1>2 DEF DropLine, DealGoesOn
    <2> QED BY <2>1, DealKeepsPricing
  <1>3. CASE IndexCatchesUp(l)
    <2>1. x' = x /\ deal' = [deal EXCEPT ![l].listed = ~@] /\ deal[l].listed # (deal[l].state = "on")
      BY <1>3 DEF IndexCatchesUp
    <2>2. DealGoesOn
      BY <2>1 DEF DealGoesOn
    <2> QED BY <2>1, <2>2, DealKeepsPricing
  <1> QED BY <1>1, <1>2, <1>3

\* Prices alone change on the deal.
Repriced ==
    /\ DOMAIN deal' = Row
    /\ \A l \in Row : /\ DOMAIN deal'[l] = LineFields /\ deal'[l].state = deal[l].state
                      /\ deal'[l].listed = deal[l].listed

LEMMA PricesAlone ==
    ASSUME PricingShaped, NEW S,
           \/ deal' = NewPrices(S)
           \/ deal' = [l \in Row |-> IF l \in S THEN [deal[l] EXCEPT !.price = 0] ELSE deal[l]]
           \/ deal' = deal
    PROVE  Repriced
  <1>1. ASSUME NEW l \in Row
        PROVE  /\ DOMAIN deal'[l] = LineFields /\ deal'[l].state = deal[l].state
               /\ deal'[l].listed = deal[l].listed
    <2>1. PICK p : deal'[l] = [deal[l] EXCEPT !.price = p] \/ deal'[l] = deal[l]
      BY <1>1 DEF NewPrices
    <2> QED BY <2>1 DEF PricingShaped, LineFields
  <1> QED BY <1>1 DEF Repriced, PricingShaped, NewPrices

\* What a step of the valuation must do to keep the invariant, its ids being the same.
LEMMA StepKeepsPricing ==
    ASSUME PricingInv, Repriced, DOMAIN x' = ValuationFields, x'.ids = x.ids,
           FreshIdsKnow', FreshIdsAccounted'
    PROVE  PricingInv'
  BY DEF PricingInv, PricingShaped, KnownAreListed, Repriced

\* A step before the second pass, or to the end without it.
LEMMA FirstRoundKeepsPricing ==
    ASSUME PricingInv, Repriced, DOMAIN x' = ValuationFields, x'.ids = x.ids, x'.pc \notin SecondPass,
           \/ x.pc \in BeforeSecondPass /\ x'.triggered = x.triggered
           \/ x'.pc \notin BeforeSecondPass \cup Ending
    PROVE  PricingInv'
  <1>1. FreshIdsKnow' /\ FreshIdsAccounted'
    BY DEF PricingInv, FreshIdsKnow, FreshIdsAccounted, RanThrough, SecondPass, BeforeSecondPass, Ending
  <1> QED BY <1>1, StepKeepsPricing

LEMMA ReadingKeepsPricing ==
    ASSUME PricingInv, TolerantRead \/ StrictRead
    PROVE  PricingInv'
  <1> USE DEF PricingInv
  <1>1. x.pc = "readDeal" /\ deal' = deal
    BY DEF TolerantRead, StrictRead
  <1>2. PICK lines, failures, pc :
           /\ pc \in {"errored", "price"}
           /\ \/ x' = [x EXCEPT !.ids = Listed, !.lines = lines, !.failures = failures, !.pc = pc]
              \/ x' = [x EXCEPT !.ids = Listed, !.lines = lines, !.pc = pc]
    <2>1. CASE TolerantRead
      <3>1. PICK unread \in SUBSET Listed :
               x' = [x EXCEPT !.ids = Listed, !.lines = ReadLineItems(Listed, unread),
                              !.failures = Listed \ ReadLineItems(Listed, unread),
                              !.pc = IF ReadLineItems(Listed, unread) = {} THEN "errored" ELSE "price"]
        BY <2>1 DEF TolerantRead
      <3> QED BY <3>1
    <2>2. CASE StrictRead
      <3>1. x' = [x EXCEPT !.ids = Listed, !.lines = ReadLineItems(Listed, {}),
                      !.pc = IF Listed = {} \/ Gone(Listed) # {} THEN "errored" ELSE "price"]
        BY <2>2 DEF StrictRead
      <3> QED BY <3>1
    <2> QED BY <2>1, <2>2
  <1>3. /\ DOMAIN x' = ValuationFields /\ x'.ids = Listed /\ x'.pc = pc /\ x'.triggered = x.triggered
    BY <1>2 DEF PricingShaped, ValuationFields
  <1>4. ~x.triggered
    BY <1>1 DEF FreshIdsAccounted, BeforeSecondPass
  <1>5. PricingShaped' /\ KnownAreListed'
    BY <1>1, <1>3 DEF PricingShaped, KnownAreListed, Listed
  <1>6. FreshIdsKnow' /\ FreshIdsAccounted'
    BY <1>2, <1>3, <1>4 DEF FreshIdsKnow, FreshIdsAccounted, RanThrough, SecondPass, BeforeSecondPass, Ending
  <1> QED BY <1>5, <1>6

\* The steps of the first round and those of a valuation that ends early.
FirstRoundStep ==
    \/ Throws \/ PriceByPartner \/ PriceByDealList \/ PriceByS4List \/ NoSalesArea \/ SalesAreaNotFound
    \/ ZeroLines \/ ZeroAmount \/ UpdateLineItems \/ UpdateProducts

LEMMA FirstRoundSteps ==
    ASSUME PricingInv, FirstRoundStep
    PROVE  PricingInv'
  <1> USE DEF PricingInv
  <1>1. CASE Throws
    <2>1. x' = [x EXCEPT !.pc = "errored"] /\ deal' = deal
      BY <1>1 DEF Throws, Go
    <2>2. DOMAIN x' = ValuationFields /\ x'.ids = x.ids /\ x'.pc = "errored"
      BY <2>1 DEF PricingShaped, ValuationFields
    <2> QED BY <2>1, <2>2, PricesAlone, FirstRoundKeepsPricing DEF SecondPass, BeforeSecondPass, Ending
  <1>2. CASE PriceByPartner
    <2>1. PICK bad : x' = [x EXCEPT !.enriched = x.lines \ bad, !.failures = @ \cup bad,
                          !.cache = {item[l] : l \in x.lines \ bad},
                          !.pc = IF x.lines = bad THEN "errored" ELSE "update"]
      BY <1>2 DEF PriceByPartner
    <2>2. DOMAIN x' = ValuationFields /\ x'.ids = x.ids /\ x'.pc \in {"errored", "update"}
          /\ x'.triggered = x.triggered /\ deal' = deal /\ x.pc = "price"
      BY <1>2, <2>1 DEF PricingShaped, ValuationFields, PriceByPartner
    <2> QED BY <2>2, PricesAlone, FirstRoundKeepsPricing DEF SecondPass, BeforeSecondPass, Ending
  <1>3. CASE PriceByDealList \/ PriceByS4List
    <2>1. x' = [x EXCEPT !.enriched = SellableLines, !.pc = IF SellableLines = {} THEN "errored" ELSE "update"]
      BY <1>3 DEF PriceByDealList, PriceByS4List, Enrich
    <2>2. DOMAIN x' = ValuationFields /\ x'.ids = x.ids /\ x'.pc \in {"errored", "update"}
          /\ x'.triggered = x.triggered /\ deal' = deal /\ x.pc = "price"
      BY <1>3, <2>1 DEF PricingShaped, ValuationFields, PriceByDealList, PriceByS4List
    <2> QED BY <2>2, PricesAlone, FirstRoundKeepsPricing DEF SecondPass, BeforeSecondPass, Ending
  <1>4. CASE NoSalesArea \/ SalesAreaNotFound
    <2>1. PICK pc \in {"errored", "zero"} : x' = [x EXCEPT !.pc = pc]
      BY <1>4 DEF NoSalesArea, SalesAreaNotFound, Go
    <2>2. DOMAIN x' = ValuationFields /\ x'.ids = x.ids /\ x'.pc = pc /\ deal' = deal
      BY <1>4, <2>1 DEF PricingShaped, ValuationFields, NoSalesArea, SalesAreaNotFound
    <2> QED BY <2>1, <2>2, PricesAlone, FirstRoundKeepsPricing DEF SecondPass, BeforeSecondPass, Ending
  <1>5. CASE ZeroLines \/ ZeroAmount
    <2>1. PICK pc \in {"errored", "zeroAmount"} : x' = [x EXCEPT !.pc = pc]
      BY <1>5 DEF ZeroLines, ZeroAmount, Go
    <2>2. DOMAIN x' = ValuationFields /\ x'.ids = x.ids /\ x'.pc = pc
      BY <2>1 DEF PricingShaped, ValuationFields
    <2>3. Repriced
      BY <1>5, PricesAlone DEF ZeroLines, ZeroAmount
    <2> QED BY <2>1, <2>2, <2>3, FirstRoundKeepsPricing DEF SecondPass, BeforeSecondPass, Ending
  <1>6. CASE UpdateLineItems
    <2>1. PICK ok : /\ deal' = NewPrices(ok)
                    /\ x' = [x EXCEPT !.updated = ok, !.pc = IF flow = "s4PriceList" THEN "amount" ELSE "products"]
      BY <1>6 DEF UpdateLineItems
    <2>2. DOMAIN x' = ValuationFields /\ x'.ids = x.ids /\ x'.pc \in {"amount", "products"}
          /\ x'.triggered = x.triggered /\ x.pc = "update"
      BY <1>6, <2>1 DEF PricingShaped, ValuationFields, UpdateLineItems
    <2> QED BY <2>1, <2>2, PricesAlone, FirstRoundKeepsPricing DEF SecondPass, BeforeSecondPass, Ending
  <1>7. CASE UpdateProducts
    <2>1. x' = [x EXCEPT !.pc = IF flow = "businessPartner" THEN "reconcile" ELSE "amount"]
      BY <1>7 DEF UpdateProducts, Go
    <2>2. DOMAIN x' = ValuationFields /\ x'.ids = x.ids /\ x'.pc \in {"amount", "reconcile"}
          /\ x'.triggered = x.triggered /\ deal' = deal /\ x.pc = "products"
      BY <1>7, <2>1 DEF PricingShaped, ValuationFields, UpdateProducts
    <2> QED BY <2>2, PricesAlone, FirstRoundKeepsPricing DEF SecondPass, BeforeSecondPass, Ending
  <1> QED BY <1>1, <1>2, <1>3, <1>4, <1>5, <1>6, <1>7 DEF FirstRoundStep

\* The second pass.  What it throws ends it without a word of its lines.
LEMMA SecondPassSteps ==
    ASSUME PricingInv, ReconcileThrows \/ ReadDealLineItemIds \/ ReadFresh \/ PricePending \/ UpdatePending
    PROVE  PricingInv'
  <1> USE DEF PricingInv
  <1>1. CASE ReconcileThrows
    <2>1. x' = [x EXCEPT !.aborted = TRUE, !.enriched2 = {}, !.failures2 = {}, !.pc = "amount"] /\ deal' = deal
      BY <1>1 DEF ReconcileThrows, Aborted
    <2>2. DOMAIN x' = ValuationFields /\ x'.ids = x.ids /\ x'.pc = "amount" /\ x'.aborted
      BY <2>1 DEF PricingShaped, ValuationFields
    <2>3. FreshIdsKnow' /\ FreshIdsAccounted'
      BY <2>2 DEF FreshIdsKnow, FreshIdsAccounted, RanThrough, SecondPass, BeforeSecondPass, Ending
    <2> QED BY <2>1, <2>2, <2>3, PricesAlone, StepKeepsPricing
  <1>2. CASE ReadDealLineItemIds
    <2>1. x' = [x EXCEPT !.freshIds = Listed, !.pc = "readFresh"] /\ deal' = deal /\ x.pc = "reconcile"
      BY <1>2 DEF ReadDealLineItemIds
    <2>2. DOMAIN x' = ValuationFields /\ x'.ids = x.ids /\ x'.pc = "readFresh" /\ x'.freshIds = Listed
          /\ x'.triggered = x.triggered
      BY <2>1 DEF PricingShaped, ValuationFields
    <2>3. FreshIdsKnow'
      BY <2>1, <2>2 DEF FreshIdsKnow, KnownAreListed, Listed
    <2>4. FreshIdsAccounted'
      BY <2>1, <2>2 DEF FreshIdsAccounted, BeforeSecondPass, Ending
    <2> QED BY <2>1, <2>2, <2>3, <2>4, PricesAlone, StepKeepsPricing
  <1>3. CASE ReadFresh
    <2>1. PICK lines, zero, go, pc :
             /\ x' = [x EXCEPT !.fresh = lines, !.zero = zero, !.triggered = go,
                               !.failures2 = x.freshIds \ lines, !.pc = pc]
             /\ pc = IF go THEN "pending" ELSE "amount"
      <3>1. PICK unread \in SUBSET x.freshIds :
             LET lines == ReadLineItems(x.freshIds, unread)
                 zero  == ZeroPriceLines(lines)
                 go    == CountMismatch \/ zero # {}
             IN  x' = [x EXCEPT !.fresh = lines, !.zero = zero, !.triggered = go,
                              !.failures2 = x.freshIds \ lines,
                              !.pc = IF go THEN "pending" ELSE "amount"]
        BY <1>3 DEF ReadFresh
      <3> QED BY <3>1
    <2>2. deal' = deal /\ x.pc = "readFresh"
      BY <1>3 DEF ReadFresh
    <2>3. /\ DOMAIN x' = ValuationFields /\ x'.ids = x.ids /\ x'.freshIds = x.freshIds
          /\ x'.fresh = lines /\ x'.failures2 = x.freshIds \ lines /\ x'.triggered = go /\ x'.pc = pc
      BY <2>1 DEF PricingShaped, ValuationFields
    <2>4. FreshIdsKnow'
      BY <2>1, <2>2, <2>3 DEF FreshIdsKnow, SecondPass, RanThrough
    <2>5. FreshIdsAccounted'
      BY <2>1, <2>2, <2>3 DEF FreshIdsAccounted, BeforeSecondPass, Ending, RanThrough
    <2> QED BY <2>2, <2>3, <2>4, <2>5, PricesAlone, StepKeepsPricing
  <1>4. CASE PricePending
    <2>1. PICK bad \in SUBSET Pending :
             x' = [x EXCEPT !.enriched2 = Pending \ bad, !.failures2 = @ \cup bad,
                          !.cache = @ \cup {item[l] : l \in Pending \ bad},
                          !.pc = IF Pending = bad THEN "amount" ELSE "update2"]
      BY <1>4 DEF PricePending
    <2>2. deal' = deal /\ x.pc = "pending"
      BY <1>4 DEF PricePending
    <2>3. /\ DOMAIN x' = ValuationFields /\ x'.ids = x.ids /\ x'.freshIds = x.freshIds
          /\ x'.updated = x.updated /\ x'.failures2 = x.failures2 \cup bad
          /\ x'.enriched2 = Pending \ bad /\ x'.pc \in {"amount", "update2"}
      BY <2>1 DEF PricingShaped, ValuationFields
    <2>4. FreshIdsKnow'
      BY <2>2, <2>3 DEF FreshIdsKnow, SecondPass
    <2>5. \A l \in x.freshIds : l \in x.updated \/ l \in x'.failures2 \/ l \in x'.enriched2
      BY <2>2, <2>3 DEF FreshIdsAccounted, Pending
    <2>6. FreshIdsAccounted'
      BY <2>3, <2>5 DEF FreshIdsAccounted, BeforeSecondPass
    <2> QED BY <2>2, <2>3, <2>4, <2>6, PricesAlone, StepKeepsPricing
  <1>5. CASE UpdatePending
    <2>1. PICK ok : deal' = NewPrices(ok) /\ x' = [x EXCEPT !.updated2 = ok, !.pc = "amount"]
      BY <1>5 DEF UpdatePending
    <2>2. x.pc = "update2"
      BY <1>5 DEF UpdatePending
    <2>3. /\ DOMAIN x' = ValuationFields /\ x'.ids = x.ids /\ x'.freshIds = x.freshIds
          /\ x'.updated = x.updated /\ x'.failures2 = x.failures2
          /\ x'.enriched2 = x.enriched2 /\ x'.pc = "amount"
      BY <2>1 DEF PricingShaped, ValuationFields
    <2>4. Repriced
      BY <2>1, PricesAlone
    <2>5. FreshIdsKnow'
      BY <2>2, <2>3, <2>4 DEF FreshIdsKnow, SecondPass, Repriced, KnownAreListed
    <2>6. FreshIdsAccounted'
      BY <2>2, <2>3 DEF FreshIdsAccounted, BeforeSecondPass
    <2> QED BY <2>3, <2>4, <2>5, <2>6, StepKeepsPricing
  <1> QED BY <1>1, <1>2, <1>3, <1>4, <1>5

LEMMA PricingStep == PricingInv /\ [PricingNext]_pricingVars => PricingInv'
  <1> SUFFICES ASSUME PricingInv, [PricingNext]_pricingVars PROVE PricingInv'
    OBVIOUS
  <1>1. CASE UNCHANGED pricingVars
    BY <1>1 DEF pricingVars, PricingInv, PricingShaped, KnownAreListed, FreshIdsKnow, FreshIdsAccounted, RanThrough
  <1>2. CASE UpdateDealAmount
    <2>1. x' = [x EXCEPT !.pc = "done"] /\ deal' = deal /\ x.pc = "amount"
      BY <1>2 DEF UpdateDealAmount, Go
    <2>2. /\ DOMAIN x' = ValuationFields /\ x'.ids = x.ids /\ x'.freshIds = x.freshIds
          /\ x'.updated = x.updated /\ x'.failures2 = x.failures2 /\ x'.enriched2 = x.enriched2
          /\ x'.triggered = x.triggered /\ x'.aborted = x.aborted /\ x'.pc = "done"
      BY <2>1 DEF PricingInv, PricingShaped, ValuationFields
    <2>3. FreshIdsKnow' /\ FreshIdsAccounted'
      BY <2>1, <2>2 DEF PricingInv, FreshIdsKnow, FreshIdsAccounted, RanThrough, SecondPass, BeforeSecondPass, Ending
    <2> QED BY <2>1, <2>2, <2>3, PricesAlone, StepKeepsPricing DEF PricingInv
  <1> QED
    BY <1>1, <1>2, AdvisorKeepsPricing, ReadingKeepsPricing, FirstRoundSteps, SecondPassSteps
       DEF PricingNext, FirstRoundStep

LEMMA NoneIsForgotten == PricingInv => NoLineForgotten
  <1> SUFFICES ASSUME PricingInv, x.pc = "done", x.triggered, ~x.aborted,
                      NEW l \in (x.ids \ Gone(x.ids)) \cup x.freshIds
               PROVE  l \in Written \cup Unresolved \cup (x.enriched2 \ x.updated2)
    BY DEF NoLineForgotten
  <1>1. l \in x.freshIds
    BY DEF PricingInv, KnownAreListed, FreshIdsKnow, RanThrough, Ending, Gone
  <1>2. l \in x.updated \/ l \in x.failures2 \/ l \in x.enriched2
    BY <1>1 DEF PricingInv, FreshIdsAccounted, RanThrough, Ending
  <1> QED BY <1>2 DEF Written, Unresolved

\* Whatever lines the deal has, gains and loses, and whichever call fails in part: a second pass
\* that runs to its end has written or reported every line it knew and still found.
THEOREM NoLineIsForgotten == PricingSpec => []NoLineForgotten
  BY PricingStarts, PricingStep, NoneIsForgotten, PTL DEF PricingSpec

-------------------------------------------------------------------------------
(* PriceWebhooks.  PriceFollowsEdits needs to know at every moment who will see *)
(* to the price of a line that is not what the advisor wants (DirtyIsDue): an   *)
(* execution at work, or an event that nobody has answered and no record turns  *)
(* away.  A webhook may be dropped for the sake of another because what silences *)
(* it has read the line, or is about to (SilenceIsDeserved), or because the     *)
(* line's association is still to be priced (AssociationIsDue).                 *)

Attempt == [edit : Nat, isSend : BOOLEAN, error : BOOLEAN, deal : BOOLEAN, fresh : BOOLEAN,
            read : BOOLEAN]
HandlerStep == {"idle", "guard", "claim", "debounce", "create", "reclaim", "ok", "error"} \cup Executing
Seen == Nat \cup {Nothing}
FeedEvent == [kind : {"association", "property"}, line : Line, left : Int, acked : BOOLEAN]

WebhooksShaped ==
    /\ record \in Seq(Attempt) /\ feed \in Seq(FeedEvent)
    /\ tenant.strategy \in Strategy
    /\ line \in [Line -> [on : BOOLEAN, input : Nat, price : Int, safe : BOOLEAN]]
    /\ worker \in [Worker -> [pc : HandlerStep, edit : Nat, rec : Nat, seen : [Line -> Seen]]]
    /\ \A i \in DOMAIN record : record[i].edit \in DOMAIN feed
    /\ \A w \in Worker : worker[w].pc # "idle" => Edit(w) \in DOMAIN feed

Association(e) == feed[e].kind = "association"
Executes(w) == worker[w].pc \in Executing
InFlight(r) == ~r.isSend /\ ~r.error

\* Who executes holds a record in flight of its own event, alone; a record that has read and
\* one that has not are told apart by the handler's step.
RecordsHeld ==
    /\ \A w \in Worker : Executes(w) =>
          /\ worker[w].rec \in DOMAIN record
          /\ SameEvent(record[worker[w].rec], Edit(w))
          /\ InFlight(record[worker[w].rec])
          /\ worker[w].pc \in {"write", "mark"} => record[worker[w].rec].read
          /\ worker[w].pc = "read" => ~record[worker[w].rec].read
    /\ \A v, w \in Worker : Executes(v) /\ Executes(w) /\ worker[v].rec = worker[w].rec => v = w
    /\ \A i \in DOMAIN record : record[i].isSend => record[i].read /\ ~record[i].error

\* As long as no process died, a record in flight has a handler.
NoneLeftInFlight ==
    ~crashed => \A i \in DOMAIN record : InFlight(record[i]) =>
                    \E w \in Worker : Executes(w) /\ worker[w].rec = i

\* A line on the deal has one association, and an association one record.
OneAssociation ==
    /\ \A e, d \in DOMAIN feed : Association(e) /\ Association(d) /\ feed[e].line = feed[d].line => e = d
    /\ \A l \in Line : line[l].on => \E e \in DOMAIN feed : Association(e) /\ feed[e].line = l
    /\ \A e \in DOMAIN feed : line[feed[e].line].on
    /\ \A i, j \in DOMAIN record : Association(record[i].edit) /\ record[i].edit = record[j].edit => i = j

\* Which webhooks pass by which steps.
StepsTaken ==
    \A w \in Worker :
        /\ worker[w].pc \in {"claim", "reclaim", "debounce", "create"} => ~LegacyProperty(w)
        /\ worker[w].pc \in {"claim", "reclaim"} => Kind(w) = "association"
        /\ At(w, "debounce") => ~OwnsRecords(w) /\ tenant.strategy # "legacy"
        /\ At(w, "reclaim") => Collides(Edit(w))

\* The lines an execution of e is to read.
Covers(e, l) ==
    \/ Association(e) \/ tenant.strategy \notin BusinessPartner
    \/ line[l].safe /\ (tenant.strategy = "legacy" => feed[e].line = l)

\* A line with a base price, or one that an execution left out.
Reached(l) == line[l].safe \/ l \in omitted

\* An execution reads and writes lines of the deal that it covers; an association's prices its
\* own line or leaves it out.
AssociationsCover ==
    /\ \A l \in Line : line[l].safe => line[l].on
    /\ \A w \in Worker, l \in Line : At(w, "write") /\ worker[w].seen[l] # Nothing =>
          line[l].on /\ Covers(Edit(w), l)
    /\ \A w \in Worker : Executes(w) /\ Kind(w) = "association" =>
          /\ At(w, "write") => worker[w].seen[feed[Edit(w)].line] # Nothing \/ Reached(feed[Edit(w)].line)
          /\ At(w, "mark") => Reached(feed[Edit(w)].line)
    /\ \A i \in DOMAIN record : record[i].isSend /\ Association(record[i].edit)
                                => Reached(feed[record[i].edit].line)

Base == WebhooksShaped /\ RecordsHeld /\ NoneLeftInFlight /\ OneAssociation /\ StepsTaken /\ AssociationsCover

LastEdit(l, v) ==
    /\ v = 0 \/ (v \in DOMAIN feed /\ feed[v].kind = "property" /\ feed[v].line = l)
    /\ \A e \in DOMAIN feed : feed[e].kind = "property" /\ feed[e].line = l => e <= v

\* Lines that are neither excused nor as the last edit of them asks.
Dirty(l) ==
    /\ l \notin raced \cup omitted
    /\ line[l].on /\ (line[l].price # line[l].input \/ ~line[l].safe)

\* But for the raced lines, a line's input is that of its last edit, and what is about to be
\* written is the input; what an association's execution has not seen needs no price.
InputsKnown ==
    /\ \A l \in Line \ raced : LastEdit(l, line[l].input)
    /\ \A w \in Worker, l \in Line \ raced : At(w, "write") /\ worker[w].seen[l] # Nothing =>
          worker[w].seen[l] = line[l].input
    /\ \A w \in Worker, l \in Line : At(w, "write") /\ Association(Edit(w)) /\ worker[w].seen[l] = Nothing =>
          ~Dirty(l)

\* HubSpot will call again about the event, and no record turns the call away.
Open(e) ==
    /\ ~feed[e].acked
    /\ \A w \in Worker : ~(At(w, "ok") /\ Edit(w) = e)
    /\ \A i \in DOMAIN record : SameEvent(record[i], e) => ~Repeats(record[i])

\* An execution is to price the line, or to fail and leave its event open.
WillPrice(w, l) ==
    \/ At(w, "write") /\ worker[w].seen[l] # Nothing
    \/ worker[w].pc \in {"read", "fail"} /\ Covers(Edit(w), l)

Due(l) ==
    \/ \E w \in Worker : WillPrice(w, l)
    \/ \E e \in DOMAIN feed : Open(e) /\ Covers(e, l)

DirtyIsDue == \A l \in Line : Dirty(l) => Due(l)

SilenceIsDeserved ==
    \A i \in DOMAIN record : Silences(record[i]) =>
        \A l \in Line :
            \/ ~Dirty(l)
            \/ tenant.strategy = "skipped" /\ ~line[l].safe
            \/ \E w \in Worker : Executes(w) /\ worker[w].rec = i /\ WillPrice(w, l)

AssociationIsDue ==
    tenant.strategy \in BusinessPartner =>
        \A e \in DOMAIN feed : Association(e) =>
            \/ Open(e)
            \/ \E i \in DOMAIN record : SameEvent(record[i], e) /\ record[i].isSend
            \/ \E w \in Worker : /\ Executes(w) /\ Edit(w) = e
                                 /\ At(w, "mark") /\ tenant.strategy = "legacy" => ~Dirty(feed[e].line)

Calm == ~lost /\ ~crashed
PricesInv ==
    /\ Base
    /\ InputsKnown
    /\ Calm => DirtyIsDue /\ SilenceIsDeserved /\ AssociationIsDue

-----------------------------------------------------------------------------
\* Sequences.
LEMMA Appended ==
    ASSUME NEW S, NEW s \in Seq(S), NEW e \in S
    PROVE  /\ Append(s, e) \in Seq(S)
           /\ DOMAIN Append(s, e) = DOMAIN s \cup {Len(s) + 1} /\ Len(s) + 1 \notin DOMAIN s
           /\ Append(s, e)[Len(s) + 1] = e /\ \A i \in DOMAIN s : Append(s, e)[i] = s[i]
           /\ Len(s) + 1 \in Nat \ {0} /\ \A i \in DOMAIN s : i \in Nat \ {0} /\ i <= Len(s)
  <1>1. Len(s) \in Nat /\ DOMAIN s = 1 .. Len(s)
    BY LenProperties
  <1>2. Len(Append(s, e)) = Len(s) + 1 /\ Append(s, e) \in Seq(S)
    BY AppendProperties
  <1>3. DOMAIN Append(s, e) = 1 .. (Len(s) + 1)
    BY <1>2, LenProperties
  <1>4. 1 .. (Len(s) + 1) = (1 .. Len(s)) \cup {Len(s) + 1}
    BY <1>1
  <1>5. Append(s, e)[Len(s) + 1] = e /\ \A i \in 1 .. Len(s) : Append(s, e)[i] = s[i]
    BY AppendProperties
  <1> QED BY <1>1, <1>2, <1>3, <1>4, <1>5

LEMMA Amended ==
    ASSUME NEW S, NEW s \in Seq(S), NEW i \in DOMAIN s, NEW e \in S
    PROVE  /\ [s EXCEPT ![i] = e] \in Seq(S)
           /\ DOMAIN [s EXCEPT ![i] = e] = DOMAIN s
           /\ [s EXCEPT ![i] = e][i] = e /\ \A j \in DOMAIN s : j # i => [s EXCEPT ![i] = e][j] = s[j]
  <1>1. i \in 1 .. Len(s)
    BY LenProperties
  <1> QED BY <1>1, ExceptSeq

\* A record is one of its fields changed.
LEMMA AttemptFields ==
    ASSUME NEW r \in Attempt, NEW b \in BOOLEAN, NEW c \in BOOLEAN, NEW d \in BOOLEAN
    PROVE  /\ [r EXCEPT !.error = b, !.deal = c, !.read = d] \in Attempt
           /\ [r EXCEPT !.isSend = b, !.error = c] \in Attempt
           /\ [r EXCEPT !.read = b] \in Attempt /\ [r EXCEPT !.fresh = b] \in Attempt
  BY DEF Attempt

LEMMA Documents ==
    ASSUME NEW e \in Nat, NEW b \in BOOLEAN, NEW c \in BOOLEAN
    PROVE  /\ Document(e, b, c) \in Attempt
           /\ Document(e, b, c).edit = e /\ Document(e, b, c).error = c /\ ~Document(e, b, c).isSend
           /\ ~Document(e, b, c).read /\ Document(e, b, c).deal = b
  BY DEF Document, Attempt

-----------------------------------------------------------------------------
LEMMA BaseStarts == Init => Base
  <1> SUFFICES ASSUME Init PROVE Base
    OBVIOUS
  <1>1. PICK l \in Line :
           /\ line = [k \in Line |-> [on |-> k = l, input |-> 0, price |-> IF k = l THEN 0 ELSE Nothing, safe |-> k = l]]
           /\ feed = <<[kind |-> "association", line |-> l, left |-> 0, acked |-> TRUE]>>
    BY DEF Init
  <1>2. record = <<[Document(1, TRUE, FALSE) EXCEPT !.isSend = TRUE, !.fresh = FALSE, !.read = TRUE]>>
    BY DEF Init
  <1> DEFINE first == [Document(1, TRUE, FALSE) EXCEPT !.isSend = TRUE, !.fresh = FALSE, !.read = TRUE]
  <1>3. first \in Attempt /\ first.edit = 1 /\ first.isSend /\ first.read /\ ~first.error
    BY DEF Document, Attempt
  <1> HIDE DEF first
  <1>4. record = <<first>>
    BY <1>2 DEF first
  <1>5. record \in Seq(Attempt) /\ DOMAIN record = {1} /\ record[1] = first
    BY <1>3, <1>4
  <1>6. feed \in Seq(FeedEvent) /\ DOMAIN feed = {1} /\ feed[1].kind = "association" /\ feed[1].line = l
    <2>1. [kind |-> "association", line |-> l, left |-> 0, acked |-> TRUE] \in FeedEvent
      BY DEF FeedEvent
    <2> QED BY <1>1, <2>1
  <1>7. line \in [Line -> [on : BOOLEAN, input : Nat, price : Int, safe : BOOLEAN]]
        /\ \A k \in Line : line[k].on = (k = l) /\ line[k].safe = (k = l)
    BY <1>1 DEF Nothing
  <1>8. worker = [w \in Worker |-> Idle] /\ \A w \in Worker : worker[w].pc = "idle"
    BY DEF Init, Idle
  <1>9. worker \in [Worker -> [pc : HandlerStep, edit : Nat, rec : Nat, seen : [Line -> Seen]]]
    <2>1. NoSnapshot \in [Line -> Seen]
      BY DEF NoSnapshot, Nothing, Seen
    <2>2. Idle \in [pc : HandlerStep, edit : Nat, rec : Nat, seen : [Line -> Seen]]
      BY <2>1 DEF Idle, HandlerStep
    <2> QED BY <1>8, <2>2
  <1>10. tenant.strategy \in Strategy
    BY StrategiesAssumption DEF Init
  <1>11. WebhooksShaped
    BY <1>3, <1>5, <1>6, <1>7, <1>8, <1>9, <1>10 DEF WebhooksShaped
  <1>12. RecordsHeld /\ NoneLeftInFlight
    BY <1>3, <1>5, <1>8 DEF RecordsHeld, NoneLeftInFlight, Executes, Executing, InFlight
  <1>13. OneAssociation
    BY <1>3, <1>5, <1>6, <1>7 DEF OneAssociation, Association
  <1>14. StepsTaken
    BY <1>8 DEF StepsTaken, At
  <1>15. AssociationsCover
    BY <1>3, <1>5, <1>6, <1>7, <1>8 DEF AssociationsCover, Reached, Association, Executes, Executing, At
  <1> QED BY <1>11, <1>12, <1>13, <1>14, <1>15 DEF Base

-----------------------------------------------------------------------------
(* The steps of a handler before an execution.                              *)

Before == {"guard", "claim", "debounce", "create", "reclaim"}
Waiting == {"claim", "debounce", "create", "reclaim", "ok", "error"}

\* At most a note of event e is added to the records.
Grown(e) ==
    /\ record' \in Seq(Attempt) /\ DOMAIN record \subseteq DOMAIN record'
    /\ \A i \in DOMAIN record : record'[i] = record[i]
    /\ \A i \in DOMAIN record' \ DOMAIN record :
          record'[i].edit = e /\ record'[i].error /\ ~record'[i].isSend /\ ~Collides(e)
    /\ \A i, j \in DOMAIN record' \ DOMAIN record : i = j

Walks(w, pc) ==
    /\ worker[w].pc \in Before /\ pc \in Waiting
    /\ worker' = [worker EXCEPT ![w].pc = pc]
    /\ Grown(Edit(w))
    /\ UNCHANGED <<tenant, line, feed, crashed, raced, omitted>> /\ (~lost' => ~lost)
    /\ pc \in {"claim", "reclaim", "debounce", "create"} => ~LegacyProperty(w)
    /\ pc \in {"claim", "reclaim"} => Kind(w) = "association"
    /\ pc = "debounce" => ~OwnsRecords(w) /\ tenant.strategy # "legacy"
    /\ pc = "reclaim" => Collides(Edit(w))

LEMMA NothingGrown == ASSUME Base, record' = record, NEW e PROVE Grown(e)
  BY DEF Grown, Base, WebhooksShaped

LEMMA NoteGrown ==
    ASSUME Base, NEW e \in Nat, NEW b \in BOOLEAN,
           record' = IF Collides(e) THEN record ELSE Append(record, Document(e, b, TRUE))
    PROVE  Grown(e)
  <1>1. CASE Collides(e)
    BY <1>1, NothingGrown
  <1>2. CASE ~Collides(e)
    <2> DEFINE d == Document(e, b, TRUE)
    <2>1. d \in Attempt /\ d.edit = e /\ d.error /\ ~d.isSend
      BY Documents
    <2> HIDE DEF d
    <2>2. record' = Append(record, d) /\ record \in Seq(Attempt)
      BY <1>2 DEF d, Base, WebhooksShaped
    <2>3. PICK n : n = Len(record) + 1
      OBVIOUS
    <2>4. /\ record' \in Seq(Attempt) /\ DOMAIN record' = DOMAIN record \cup {n} /\ record'[n] = d
          /\ \A i \in DOMAIN record : record'[i] = record[i]
      <3>1. /\ Append(record, d) \in Seq(Attempt)
            /\ DOMAIN Append(record, d) = DOMAIN record \cup {Len(record) + 1}
            /\ Append(record, d)[Len(record) + 1] = d
            /\ \A i \in DOMAIN record : Append(record, d)[i] = record[i]
        BY <2>1, <2>2, Appended
      <3> QED BY <2>2, <2>3, <3>1
    <2> QED BY <1>2, <2>1, <2>4 DEF Grown
  <1> QED BY <1>1, <1>2

\* The handler alone moves.
LEMMA WalkMoves ==
    ASSUME Base, NEW w \in Worker, NEW pc, Walks(w, pc)
    PROVE  /\ worker' \in [Worker -> [pc : HandlerStep, edit : Nat, rec : Nat, seen : [Line -> Seen]]]
           /\ worker'[w].pc = pc /\ \A v \in Worker : v # w => worker'[v] = worker[v]
           /\ \A v \in Worker : /\ Edit(v)' = Edit(v) /\ worker'[v].rec = worker[v].rec
                                /\ worker'[v].seen = worker[v].seen /\ Kind(v)' = Kind(v)
                                /\ LegacyProperty(v)' = LegacyProperty(v) /\ OwnsRecords(v)' = OwnsRecords(v)
                                /\ Executes(v)' = Executes(v) /\ (Executes(v) => v # w)
           /\ Edit(w) \in DOMAIN feed /\ tenant' = tenant /\ line' = line /\ feed' = feed
  <1>1. worker' = [worker EXCEPT ![w].pc = pc] /\ pc \in HandlerStep \ Executing /\ worker[w].pc \in Before
        /\ tenant' = tenant /\ line' = line /\ feed' = feed
    BY DEF Walks, Waiting, HandlerStep, Executing
  <1>2. worker' \in [Worker -> [pc : HandlerStep, edit : Nat, rec : Nat, seen : [Line -> Seen]]]
        /\ worker'[w].pc = pc /\ \A v \in Worker : v # w => worker'[v] = worker[v]
    BY <1>1 DEF Base, WebhooksShaped
  <1>3. \A v \in Worker : Edit(v)' = Edit(v) /\ worker'[v].rec = worker[v].rec /\ worker'[v].seen = worker[v].seen
    BY <1>1 DEF Base, WebhooksShaped, Edit
  <1>4. \A v \in Worker : Executes(v)' = Executes(v) /\ (Executes(v) => v # w)
    BY <1>1, <1>2 DEF Executes, Before, Executing
  <1>5. \A v \in Worker : Kind(v)' = Kind(v)
    BY <1>1, <1>3 DEF Kind
  <1>6. \A v \in Worker : LegacyProperty(v)' = LegacyProperty(v) /\ OwnsRecords(v)' = OwnsRecords(v)
    BY <1>1, <1>5 DEF LegacyProperty, OwnsRecords
  <1>7. Edit(w) \in DOMAIN feed
    BY <1>1 DEF Base, WebhooksShaped, Before
  <1> QED BY <1>1, <1>2, <1>3, <1>4, <1>5, <1>6, <1>7

LEMMA WalkKeepsBase ==
    ASSUME Base, NEW w \in Worker, NEW pc, Walks(w, pc)
    PROVE  Base'
  <1> USE DEF Base
  <1>1. WebhooksShaped'
    <2>1. \A i \in DOMAIN record' : record'[i].edit \in DOMAIN feed
      <3>1. Edit(w) \in DOMAIN feed
        BY WalkMoves
      <3>2. \A i \in DOMAIN record' : (record'[i] = record[i] /\ i \in DOMAIN record) \/ record'[i].edit = Edit(w)
        BY DEF Walks, Grown
      <3>3. \A i \in DOMAIN record : record[i].edit \in DOMAIN feed
        BY DEF WebhooksShaped
      <3> QED BY <3>1, <3>2, <3>3
    <2>2. \A v \in Worker : worker'[v].pc # "idle" => Edit(v)' \in DOMAIN feed
      BY WalkMoves DEF WebhooksShaped
    <2> QED BY <2>1, <2>2, WalkMoves DEF Walks, Grown, WebhooksShaped
  <1>2. RecordsHeld'
    <2>1. \A v \in Worker : Executes(v)' =>
            /\ worker'[v] = worker[v] /\ worker[v].rec \in DOMAIN record'
            /\ record'[worker[v].rec] = record[worker[v].rec]
      BY WalkMoves DEF RecordsHeld, Walks, Grown
    <2>2. \A i \in DOMAIN record' : record'[i].isSend => record'[i].read /\ ~record'[i].error
      BY DEF RecordsHeld, Walks, Grown
    <2>3. \A v \in Worker : Executes(v)' =>
          /\ SameEvent(record'[worker'[v].rec], Edit(v)')
          /\ InFlight(record'[worker'[v].rec])
          /\ worker'[v].pc \in {"write", "mark"} => record'[worker'[v].rec].read
          /\ worker'[v].pc = "read" => ~record'[worker'[v].rec].read
      BY <2>1, WalkMoves DEF RecordsHeld
    <2> QED BY <2>1, <2>2, <2>3, WalkMoves DEF RecordsHeld
  <1>3. NoneLeftInFlight'
    <2>1. \A i \in DOMAIN record' : InFlight(record'[i]) => i \in DOMAIN record /\ InFlight(record[i])
      BY DEF Walks, Grown, InFlight
    <2>2. crashed' = crashed
      BY DEF Walks
    <2> QED BY <2>1, <2>2, WalkMoves DEF NoneLeftInFlight
  <1>4. OneAssociation'
    <2>1. \A i, j \in DOMAIN record' : Association(record'[i].edit) /\ record'[i].edit = record'[j].edit => i = j
      BY DEF OneAssociation, Walks, Grown, Collides, SameEvent, Association
    <2> QED BY <2>1, WalkMoves DEF OneAssociation, Association
  <1>5. StepsTaken'
    <2>1. \A v \in Worker : Collides(Edit(v)) => Collides(Edit(v))'
      BY WalkMoves DEF Walks, Grown, Collides, SameEvent
    <2>2. ASSUME NEW v \in Worker
          PROVE  /\ worker'[v].pc \in {"claim", "reclaim", "debounce", "create"} => ~LegacyProperty(v)'
                 /\ worker'[v].pc \in {"claim", "reclaim"} => Kind(v)' = "association"
                 /\ worker'[v].pc = "debounce" => ~OwnsRecords(v)' /\ tenant'.strategy # "legacy"
                 /\ worker'[v].pc = "reclaim" => Collides(Edit(v))'
      <3>1. CASE v = w
        BY <2>1, <3>1, WalkMoves DEF Walks
      <3>2. CASE v # w
        BY <2>1, <3>2, WalkMoves DEF StepsTaken, At
      <3> QED BY <3>1, <3>2
    <2> QED BY <2>2 DEF StepsTaken, At
  <1>6. AssociationsCover'
    <2>1. \A v \in Worker : Executes(v)' => worker'[v] = worker[v] /\ Kind(v)' = Kind(v) /\ Edit(v)' = Edit(v)
      BY WalkMoves
    <2>2. \A i \in DOMAIN record' : record'[i].isSend => i \in DOMAIN record /\ record'[i] = record[i]
      BY DEF Walks, Grown
    <2>3. \A v \in Worker : worker'[v].pc = "write" => Executes(v)'
      BY DEF Executes, Executing
    <2>4. \A v \in Worker, l \in Line : worker'[v].pc = "write" /\ worker'[v].seen[l] # Nothing =>
             line[l].on /\ Covers(Edit(v), l)
      BY <2>1, <2>3 DEF AssociationsCover, At
    <2>5. \A v \in Worker : Executes(v)' /\ Kind(v)' = "association" =>
             /\ worker'[v].pc = "write" => worker'[v].seen[feed[Edit(v)].line] # Nothing \/ Reached(feed[Edit(v)].line)
             /\ worker'[v].pc = "mark" => Reached(feed[Edit(v)].line)
      BY <2>1, WalkMoves DEF AssociationsCover, At
    <2>6. omitted' = omitted
      BY DEF Walks
    <2> QED BY <2>1, <2>2, <2>4, <2>5, <2>6, WalkMoves DEF AssociationsCover, Association, Covers, Reached, At
  <1> QED BY <1>1, <1>2, <1>3, <1>4, <1>5, <1>6

-----------------------------------------------------------------------------
(* The steps that take up a record: a new one, or one of a failed attempt.  *)

Starts(w, i) ==
    /\ worker[w].pc \in Before /\ i \in Nat
    /\ worker' = [worker EXCEPT ![w].pc = "read", ![w].rec = i]
    /\ record' \in Seq(Attempt) /\ DOMAIN record' = DOMAIN record \cup {i}
    /\ \A j \in DOMAIN record : j # i => record'[j] = record[j]
    /\ record'[i].edit = Edit(w) /\ InFlight(record'[i]) /\ ~record'[i].read
    /\ i \in DOMAIN record => ~InFlight(record[i]) /\ ~record[i].isSend /\ record[i].edit = Edit(w)
    /\ i \notin DOMAIN record /\ Association(Edit(w)) => ~Collides(Edit(w))
    /\ UNCHANGED <<tenant, line, feed, crashed, raced, omitted, lost>>

LEMMA NewStarts ==
    ASSUME Base, NEW w \in Worker, NEW b \in BOOLEAN, worker[w].pc \in Before,
           Association(Edit(w)) => ~Collides(Edit(w)),
           record' = Append(record, Document(Edit(w), b, FALSE)),
           worker' = [worker EXCEPT ![w].pc = "read", ![w].rec = Len(record) + 1],
           UNCHANGED <<tenant, line, feed, crashed, raced, omitted, lost>>
    PROVE  Starts(w, Len(record) + 1)
  <1> DEFINE d == Document(Edit(w), b, FALSE)
  <1>1. Edit(w) \in Nat /\ record \in Seq(Attempt)
    BY DEF Base, WebhooksShaped, Edit
  <1>2. d \in Attempt /\ d.edit = Edit(w) /\ ~d.error /\ ~d.isSend /\ ~d.read
    BY <1>1, Documents
  <1> HIDE DEF d
  <1>3. record' = Append(record, d)
    BY DEF d
  <1>4. /\ Append(record, d) \in Seq(Attempt)
        /\ DOMAIN Append(record, d) = DOMAIN record \cup {Len(record) + 1} /\ Len(record) + 1 \notin DOMAIN record
        /\ Append(record, d)[Len(record) + 1] = d
        /\ \A i \in DOMAIN record : Append(record, d)[i] = record[i]
        /\ Len(record) + 1 \in Nat
    BY <1>1, <1>2, Appended
  <1>5. PICK n : n = Len(record) + 1
    OBVIOUS
  <1>6. /\ record' \in Seq(Attempt) /\ DOMAIN record' = DOMAIN record \cup {n} /\ n \notin DOMAIN record
        /\ record'[n] = d /\ (\A i \in DOMAIN record : record'[i] = record[i]) /\ n \in Nat
        /\ worker' = [worker EXCEPT ![w].pc = "read", ![w].rec = n]
    BY <1>3, <1>4, <1>5
  <1>7. Starts(w, n)
    BY <1>2, <1>6 DEF Starts, InFlight
  <1> QED BY <1>5, <1>7

LEMMA StartMoves ==
    ASSUME Base, NEW w \in Worker, NEW i, Starts(w, i)
    PROVE  /\ worker' \in [Worker -> [pc : HandlerStep, edit : Nat, rec : Nat, seen : [Line -> Seen]]]
           /\ worker'[w].pc = "read" /\ worker'[w].rec = i /\ ~Executes(w) /\ Executes(w)'
           /\ \A v \in Worker : v # w => worker'[v] = worker[v] /\ Executes(v)' = Executes(v)
           /\ \A v \in Worker : /\ Edit(v)' = Edit(v) /\ worker'[v].seen = worker[v].seen /\ Kind(v)' = Kind(v)
                                /\ LegacyProperty(v)' = LegacyProperty(v) /\ OwnsRecords(v)' = OwnsRecords(v)
           /\ \A v \in Worker : Executes(v) => worker[v].rec # i
           /\ Edit(w) \in DOMAIN feed /\ tenant' = tenant /\ line' = line /\ feed' = feed
  <1>1. worker' = [worker EXCEPT ![w].pc = "read", ![w].rec = i] /\ "read" \in HandlerStep /\ i \in Nat
        /\ worker[w].pc \in Before /\ tenant' = tenant /\ line' = line /\ feed' = feed
    BY DEF Starts, HandlerStep, Executing
  <1>2. worker' \in [Worker -> [pc : HandlerStep, edit : Nat, rec : Nat, seen : [Line -> Seen]]]
        /\ worker'[w].pc = "read" /\ worker'[w].rec = i /\ \A v \in Worker : v # w => worker'[v] = worker[v]
    BY <1>1 DEF Base, WebhooksShaped
  <1>3. \A v \in Worker : Edit(v)' = Edit(v) /\ worker'[v].seen = worker[v].seen
    BY <1>1 DEF Base, WebhooksShaped, Edit
  <1>4. ~Executes(w) /\ Executes(w)' /\ \A v \in Worker : v # w => Executes(v)' = Executes(v)
    BY <1>1, <1>2 DEF Executes, Before, Executing
  <1>5. \A v \in Worker : Kind(v)' = Kind(v)
    BY <1>1, <1>3 DEF Kind
  <1>6. \A v \in Worker : LegacyProperty(v)' = LegacyProperty(v) /\ OwnsRecords(v)' = OwnsRecords(v)
    BY <1>1, <1>5 DEF LegacyProperty, OwnsRecords
  <1>7. Edit(w) \in DOMAIN feed
    BY <1>1 DEF Base, WebhooksShaped, Before
  <1>8. \A v \in Worker : Executes(v) => worker[v].rec # i
    BY DEF Base, RecordsHeld, Starts
  <1> QED BY <1>1, <1>2, <1>3, <1>4, <1>5, <1>6, <1>7, <1>8

LEMMA StartKeepsBase ==
    ASSUME Base, NEW w \in Worker, NEW i, Starts(w, i)
    PROVE  Base'
  <1> USE DEF Base
  <1>1. WebhooksShaped'
    <2>1. \A j \in DOMAIN record' : record'[j].edit \in DOMAIN feed
      <3>1. Edit(w) \in DOMAIN feed
        BY StartMoves
      <3>2. \A j \in DOMAIN record : record[j].edit \in DOMAIN feed
        BY DEF WebhooksShaped
      <3> QED BY <3>1, <3>2 DEF Starts
    <2>2. \A v \in Worker : worker'[v].pc # "idle" => Edit(v)' \in DOMAIN feed
      <3>1. Edit(w) \in DOMAIN feed /\ \A v \in Worker : Edit(v)' = Edit(v) /\ (v # w => worker'[v] = worker[v])
        BY StartMoves
      <3>2. \A v \in Worker : worker[v].pc # "idle" => Edit(v) \in DOMAIN feed
        BY DEF WebhooksShaped
      <3> QED BY <3>1, <3>2
    <2> QED BY <2>1, <2>2, StartMoves DEF Starts, WebhooksShaped
  <1>2. RecordsHeld'
    <2>1. ASSUME NEW v \in Worker, Executes(v)'
          PROVE  /\ worker'[v].rec \in DOMAIN record'
                 /\ SameEvent(record'[worker'[v].rec], Edit(v)')
                 /\ InFlight(record'[worker'[v].rec])
                 /\ worker'[v].pc \in {"write", "mark"} => record'[worker'[v].rec].read
                 /\ worker'[v].pc = "read" => ~record'[worker'[v].rec].read
      <3>1. CASE v = w
        <4>1. worker'[w].rec = i /\ worker'[w].pc = "read" /\ Edit(w)' = Edit(w)
          BY StartMoves
        <4>2. i \in DOMAIN record' /\ record'[i].edit = Edit(w) /\ InFlight(record'[i]) /\ ~record'[i].read
          BY DEF Starts
        <4> QED BY <3>1, <4>1, <4>2 DEF SameEvent
      <3>2. CASE v # w
        <4>1. worker'[v] = worker[v] /\ Executes(v) /\ worker[v].rec # i /\ Edit(v)' = Edit(v)
          BY <2>1, <3>2, StartMoves
        <4>2. worker[v].rec \in DOMAIN record /\ record'[worker[v].rec] = record[worker[v].rec]
              /\ worker[v].rec \in DOMAIN record'
          BY <4>1 DEF RecordsHeld, Starts
        <4> QED BY <4>1, <4>2 DEF RecordsHeld
      <3> QED BY <3>1, <3>2
    <2>2. \A j \in DOMAIN record' : record'[j].isSend => record'[j].read /\ ~record'[j].error
      BY DEF RecordsHeld, Starts, InFlight
    <2>3. \A u, v \in Worker : Executes(u)' /\ Executes(v)' /\ worker'[u].rec = worker'[v].rec => u = v
      BY StartMoves DEF RecordsHeld
    <2> QED BY <2>1, <2>2, <2>3 DEF RecordsHeld
  <1>3. NoneLeftInFlight'
    <2>1. \A j \in DOMAIN record' : j # i => record'[j] = record[j] /\ j \in DOMAIN record
      BY DEF Starts
    <2>2. crashed' = crashed
      BY DEF Starts
    <2>3. \A v \in Worker : Executes(v) => Executes(v)' /\ worker'[v].rec = worker[v].rec
      BY StartMoves
    <2> QED BY <2>1, <2>2, <2>3, StartMoves DEF NoneLeftInFlight
  <1>4. OneAssociation'
    <2>1. \A j, k \in DOMAIN record' : Association(record'[j].edit) /\ record'[j].edit = record'[k].edit => j = k
      BY DEF OneAssociation, Starts, Collides, SameEvent, Association
    <2> QED BY <2>1, StartMoves DEF OneAssociation, Association
  <1>5. StepsTaken'
    <2>1. \A e : Collides(e) => Collides(e)'
      BY DEF Starts, Collides, SameEvent
    <2> QED BY <2>1, StartMoves DEF StepsTaken, At
  <1>6. AssociationsCover'
    <2>1. \A v \in Worker : Executes(v)' => (v = w /\ worker'[v].pc = "read")
             \/ (Executes(v) /\ worker'[v] = worker[v] /\ Kind(v)' = Kind(v) /\ Edit(v)' = Edit(v))
      BY StartMoves
    <2>2. \A j \in DOMAIN record' : record'[j].isSend => j \in DOMAIN record /\ record'[j] = record[j]
      BY DEF Starts, InFlight
    <2>3. \A v \in Worker : worker'[v].pc = "write" => Executes(v)'
      BY DEF Executes, Executing
    <2>4. \A v \in Worker, l \in Line : worker'[v].pc = "write" /\ worker'[v].seen[l] # Nothing =>
             line[l].on /\ Covers(Edit(v), l)
      BY <2>1, <2>3 DEF AssociationsCover, At
    <2>5. \A v \in Worker : Executes(v)' /\ Kind(v)' = "association" =>
             /\ worker'[v].pc = "write" => worker'[v].seen[feed[Edit(v)].line] # Nothing \/ Reached(feed[Edit(v)].line)
             /\ worker'[v].pc = "mark" => Reached(feed[Edit(v)].line)
      BY <2>1, StartMoves DEF AssociationsCover, At
    <2>6. omitted' = omitted
      BY DEF Starts
    <2> QED BY <2>2, <2>4, <2>5, <2>6, StartMoves DEF AssociationsCover, Association, Covers, Reached, At
  <1> QED BY <1>1, <1>2, <1>3, <1>4, <1>5, <1>6

-----------------------------------------------------------------------------
(* The steps of an execution.                                               *)

Works(w, pc) ==
    /\ Executes(w) /\ pc \in {"write", "mark", "fail", "ok", "error"}
    /\ worker' \in [Worker -> [pc : HandlerStep, edit : Nat, rec : Nat, seen : [Line -> Seen]]]
    /\ worker'[w].pc = pc /\ worker'[w].edit = worker[w].edit /\ worker'[w].rec = worker[w].rec
    /\ \A v \in Worker : v # w => worker'[v] = worker[v]
    /\ record' \in Seq(Attempt) /\ DOMAIN record' = DOMAIN record
    /\ \A j \in DOMAIN record : j # worker[w].rec => record'[j] = record[j]
    /\ record'[worker[w].rec].edit = record[worker[w].rec].edit
    /\ line' \in [Line -> [on : BOOLEAN, input : Nat, price : Int, safe : BOOLEAN]]
    /\ \A l \in Line : /\ line'[l].on = line[l].on /\ (line[l].safe => line'[l].safe)
                       /\ line'[l].safe => line'[l].on
                       /\ Reached(l) => line'[l].safe \/ l \in omitted'
    /\ pc \in {"write", "mark", "fail"} => InFlight(record'[worker[w].rec])
    /\ pc \in {"ok", "error"} => ~InFlight(record'[worker[w].rec])
    /\ pc \in {"write", "mark"} => record'[worker[w].rec].read
    /\ record'[worker[w].rec].isSend => record'[worker[w].rec].read /\ ~record'[worker[w].rec].error
    /\ pc = "write" => \A l \in Line : worker'[w].seen[l] # Nothing => line[l].on /\ Covers(Edit(w), l)
    /\ Association(Edit(w)) =>
          \A k \in Line : k = feed[Edit(w)].line =>
              /\ pc = "write" => worker'[w].seen[k] # Nothing \/ k \in omitted'
              /\ pc = "mark" \/ record'[worker[w].rec].isSend => line'[k].safe \/ k \in omitted'
    /\ UNCHANGED <<tenant, feed, crashed, raced>>

LEMMA EventLines == ASSUME Base PROVE \A e \in DOMAIN feed : feed[e] \in FeedEvent /\ feed[e].line \in Line
  <1>1. feed \in Seq(FeedEvent)
    BY DEF Base, WebhooksShaped
  <1>2. \A e \in DOMAIN feed : feed[e] \in FeedEvent
    BY <1>1, LenProperties, ElementOfSeq
  <1> QED BY <1>2 DEF FeedEvent

LEMMA WorkMoves ==
    ASSUME Base, NEW w \in Worker, NEW pc, Works(w, pc)
    PROVE  /\ \A v \in Worker : /\ Edit(v)' = Edit(v) /\ worker'[v].rec = worker[v].rec /\ Kind(v)' = Kind(v)
                                /\ LegacyProperty(v)' = LegacyProperty(v) /\ OwnsRecords(v)' = OwnsRecords(v)
                                /\ v # w => (Executes(v)' = Executes(v) /\ (Executes(v) => worker[v].rec # worker[w].rec))
           /\ Executes(w)' <=> pc \in {"write", "mark", "fail"}
           /\ worker[w].rec \in DOMAIN record /\ record[worker[w].rec].edit = Edit(w)
           /\ Edit(w) \in DOMAIN feed /\ tenant' = tenant /\ feed' = feed
  <1>1. \A v \in Worker : Edit(v)' = Edit(v) /\ worker'[v].rec = worker[v].rec
    BY DEF Works, Edit
  <1>2. tenant' = tenant /\ feed' = feed
    BY DEF Works
  <1>3. \A v \in Worker : Kind(v)' = Kind(v)
    BY <1>1, <1>2 DEF Kind
  <1>4. \A v \in Worker : LegacyProperty(v)' = LegacyProperty(v) /\ OwnsRecords(v)' = OwnsRecords(v)
    BY <1>2, <1>3 DEF LegacyProperty, OwnsRecords
  <1>5. \A v \in Worker : v # w => (Executes(v)' = Executes(v) /\ (Executes(v) => worker[v].rec # worker[w].rec))
    BY DEF Works, Base, RecordsHeld, Executes
  <1>6. Executes(w)' <=> pc \in {"write", "mark", "fail"}
    BY DEF Works, Executes, Executing
  <1>7. worker[w].rec \in DOMAIN record /\ record[worker[w].rec].edit = Edit(w) /\ Edit(w) \in DOMAIN feed
    BY DEF Works, Base, RecordsHeld, SameEvent, WebhooksShaped, Executes, Executing
  <1> QED BY <1>1, <1>2, <1>3, <1>4, <1>5, <1>6, <1>7

LEMMA WorkKeepsBase ==
    ASSUME Base, NEW w \in Worker, NEW pc, Works(w, pc)
    PROVE  Base'
  <1> USE DEF Base
  <1>0. \A v \in Worker : worker[v].pc # "idle" => Edit(v) \in DOMAIN feed
    BY DEF WebhooksShaped
  <1>1. WebhooksShaped'
    <2>1. \A j \in DOMAIN record' : record'[j].edit \in DOMAIN feed
      <3>1. \A j \in DOMAIN record : record'[j].edit = record[j].edit
        BY DEF Works
      <3>2. DOMAIN record' = DOMAIN record
        BY DEF Works
      <3> QED BY <3>1, <3>2 DEF WebhooksShaped
    <2>2. \A v \in Worker : worker'[v].pc # "idle" => Edit(v)' \in DOMAIN feed
      <3>1. \A v \in Worker : v # w => worker'[v] = worker[v]
        BY DEF Works
      <3>2. \A v \in Worker : worker[v].pc # "idle" => Edit(v) \in DOMAIN feed
        BY DEF WebhooksShaped
      <3>3. Edit(w) \in DOMAIN feed /\ \A v \in Worker : Edit(v)' = Edit(v)
        BY WorkMoves
      <3> QED BY <3>1, <3>2, <3>3
    <2>3. /\ worker' \in [Worker -> [pc : HandlerStep, edit : Nat, rec : Nat, seen : [Line -> Seen]]]
          /\ record' \in Seq(Attempt) /\ tenant' = tenant /\ feed' = feed
          /\ line' \in [Line -> [on : BOOLEAN, input : Nat, price : Int, safe : BOOLEAN]]
      BY DEF Works
    <2> QED BY <2>1, <2>2, <2>3 DEF WebhooksShaped
  <1>2. RecordsHeld'
    <2>1. ASSUME NEW v \in Worker, Executes(v)'
          PROVE  /\ worker'[v].rec \in DOMAIN record'
                 /\ SameEvent(record'[worker'[v].rec], Edit(v)')
                 /\ InFlight(record'[worker'[v].rec])
                 /\ worker'[v].pc \in {"write", "mark"} => record'[worker'[v].rec].read
                 /\ worker'[v].pc = "read" => ~record'[worker'[v].rec].read
      <3>1. CASE v = w
        <4>1. /\ worker[w].rec \in DOMAIN record' /\ worker'[w].pc = pc
              /\ pc \in {"write", "mark", "fail"} => InFlight(record'[worker[w].rec])
              /\ pc \in {"write", "mark"} => record'[worker[w].rec].read
              /\ record'[worker[w].rec].edit = record[worker[w].rec].edit
          BY WorkMoves DEF Works
        <4>2. pc \in {"write", "mark", "fail"} /\ worker'[w].rec = worker[w].rec /\ Edit(w)' = Edit(w)
              /\ record[worker[w].rec].edit = Edit(w)
          BY <2>1, <3>1, WorkMoves
        <4> QED BY <3>1, <4>1, <4>2 DEF SameEvent
      <3>2. CASE v # w
        <4>1. worker'[v] = worker[v] /\ Executes(v) /\ worker[v].rec # worker[w].rec /\ Edit(v)' = Edit(v)
          <5>1. worker'[v] = worker[v]
            BY <3>2 DEF Works
          <5> QED BY <2>1, <3>2, <5>1, WorkMoves
        <4>2. worker[v].rec \in DOMAIN record /\ record'[worker[v].rec] = record[worker[v].rec]
              /\ worker[v].rec \in DOMAIN record'
          BY <4>1 DEF RecordsHeld, Works
        <4> QED BY <4>1, <4>2 DEF RecordsHeld
      <3> QED BY <3>1, <3>2
    <2>2. \A j \in DOMAIN record' : record'[j].isSend => record'[j].read /\ ~record'[j].error
      BY DEF RecordsHeld, Works
    <2>3. \A u, v \in Worker : Executes(u)' /\ Executes(v)' /\ worker'[u].rec = worker'[v].rec => u = v
      BY WorkMoves DEF RecordsHeld
    <2> QED BY <2>1, <2>2, <2>3 DEF RecordsHeld
  <1>3. NoneLeftInFlight'
    <2>1. ASSUME NEW j \in DOMAIN record', InFlight(record'[j]), ~crashed
          PROVE  \E v \in Worker : Executes(v)' /\ worker'[v].rec = j
      <3>1. CASE j = worker[w].rec
        <4>1. pc \in {"write", "mark", "fail", "ok", "error"}
              /\ (pc \in {"ok", "error"} => ~InFlight(record'[worker[w].rec]))
          BY DEF Works
        <4>2. pc \in {"write", "mark", "fail"}
          BY <2>1, <3>1, <4>1
        <4> QED BY <3>1, <4>2, WorkMoves
      <3>2. CASE j # worker[w].rec
        <4>1. j \in DOMAIN record /\ InFlight(record[j])
          BY <2>1, <3>2 DEF Works
        <4>2. PICK v \in Worker : Executes(v) /\ worker[v].rec = j
          BY <2>1, <4>1 DEF NoneLeftInFlight
        <4> QED BY <3>2, <4>2, WorkMoves
      <3> QED BY <3>1, <3>2
    <2>2. crashed' = crashed
      BY DEF Works
    <2> QED BY <2>1, <2>2 DEF NoneLeftInFlight
  <1>4. OneAssociation'
    <2>1. \A j \in DOMAIN record : record'[j].edit = record[j].edit
      BY DEF Works
    <2>2. \A l \in Line : line'[l].on = line[l].on
      BY DEF Works
    <2>3. \A e \in DOMAIN feed : feed[e].line \in Line
      BY EventLines
    <2>4. feed' = feed /\ DOMAIN record' = DOMAIN record
      BY DEF Works
    <2> QED BY <2>1, <2>2, <2>3, <2>4 DEF OneAssociation, Association
  <1>5. StepsTaken'
    <2>1. \A e : Collides(e) => Collides(e)'
      <3>1. DOMAIN record' = DOMAIN record /\ feed' = feed
            /\ \A j \in DOMAIN record : record'[j].edit = record[j].edit
        BY DEF Works
      <3> QED BY <3>1 DEF Collides, SameEvent
    <2>2. worker'[w].pc \in {"write", "mark", "fail", "ok", "error"}
          /\ \A v \in Worker : v # w => worker'[v] = worker[v]
      BY DEF Works
    <2> QED BY <2>1, <2>2, WorkMoves DEF StepsTaken, At
  <1>6. AssociationsCover'
    <2>1. \A e \in DOMAIN feed : feed[e].line \in Line
      BY EventLines
    <2>2. \A l \in Line : (line[l].safe \/ l \in omitted) => line'[l].safe \/ l \in omitted'
      BY DEF Works, Reached
    <2>3. ASSUME NEW v \in Worker, Executes(v)', Kind(v)' = "association", NEW k \in Line, k = feed[Edit(v)].line
          PROVE  /\ worker'[v].pc = "write" => worker'[v].seen[k] # Nothing \/ line'[k].safe \/ k \in omitted'
                 /\ worker'[v].pc = "mark" => line'[k].safe \/ k \in omitted'
      <3>1. CASE v = w
        <4>1. Association(Edit(w)) /\ worker'[w].pc = pc
          BY <2>3, <3>1, WorkMoves DEF Kind, Association, Works
        <4> QED BY <2>3, <3>1, <4>1 DEF Works
      <3>2. CASE v # w
        <4>1. worker'[v] = worker[v] /\ Executes(v) /\ Kind(v) = "association"
          <5>1. worker'[v] = worker[v]
            BY <3>2 DEF Works
          <5> QED BY <2>3, <3>2, <5>1, WorkMoves
        <4>2. /\ worker[v].pc = "write" => worker[v].seen[k] # Nothing \/ Reached(k)
              /\ worker[v].pc = "mark" => Reached(k)
          BY <2>3, <4>1 DEF AssociationsCover, At
        <4> QED BY <2>2, <2>3, <4>1, <4>2 DEF Reached
      <3> QED BY <3>1, <3>2
    <2>4. ASSUME NEW j \in DOMAIN record', record'[j].isSend, Association(record'[j].edit),
                 NEW k \in Line, k = feed[record'[j].edit].line
          PROVE  line'[k].safe \/ k \in omitted'
      <3>1. CASE j = worker[w].rec
        <4>1. record'[j].edit = Edit(w)
          BY <3>1, WorkMoves DEF Works
        <4> QED BY <2>4, <3>1, <4>1 DEF Works
      <3>2. CASE j # worker[w].rec
        <4>1. j \in DOMAIN record /\ record'[j] = record[j]
          BY <3>2 DEF Works
        <4> QED BY <2>2, <2>4, <4>1 DEF AssociationsCover, Reached
      <3> QED BY <3>1, <3>2
    <2>5. \A l \in Line : line'[l].safe => line'[l].on
      BY DEF Works
    <2>6. \A v \in Worker, l \in Line : worker'[v].pc = "write" /\ worker'[v].seen[l] # Nothing =>
             line'[l].on /\ Covers(Edit(v), l)
      <3>1. \A v \in Worker : v # w => worker'[v] = worker[v]
        BY DEF Works
      <3>2. worker'[w].pc = pc /\ (pc = "write" => \A l \in Line : worker'[w].seen[l] # Nothing =>
                                                        line[l].on /\ Covers(Edit(w), l))
        BY DEF Works
      <3>3. \A l \in Line : line'[l].on = line[l].on
        BY DEF Works
      <3> QED BY <3>1, <3>2, <3>3 DEF AssociationsCover, At
    <2>7. \A e : \A l \in Line : Covers(e, l) => Covers(e, l)'
      <3>1. tenant' = tenant /\ feed' = feed /\ \A l \in Line : line[l].safe => line'[l].safe
        BY DEF Works
      <3> QED BY <3>1 DEF Covers, Association
    <2>8. \A v \in Worker, l \in Line : At(v, "write")' /\ worker'[v].seen[l] # Nothing =>
             line'[l].on /\ Covers(Edit(v), l)'
      <3>1. ASSUME NEW v \in Worker, NEW l \in Line, At(v, "write")', worker'[v].seen[l] # Nothing
            PROVE  line'[l].on /\ Covers(Edit(v), l)'
        <4>1. line'[l].on /\ Covers(Edit(v), l)
          BY <2>6, <3>1 DEF At
        <4>2. PICK e : e = Edit(v) /\ e = Edit(v)'
          BY WorkMoves
        <4>3. Covers(e, l)'
          BY <2>7, <4>1, <4>2
        <4> QED BY <4>1, <4>2, <4>3 DEF Covers, Association
      <3> QED BY <3>1
    <2>9. ASSUME NEW v \in Worker, Executes(v)', Kind(v)' = "association"
          PROVE  /\ At(v, "write")' => worker'[v].seen[feed'[Edit(v)'].line] # Nothing \/ Reached(feed[Edit(v)].line)'
                 /\ At(v, "mark")' => Reached(feed[Edit(v)].line)'
      <3>1. feed'[Edit(v)'].line = feed[Edit(v)].line
        BY WorkMoves
      <3>2. Edit(v) \in DOMAIN feed
        <4>1. CASE v = w
          BY <4>1, WorkMoves
        <4>2. CASE v # w
          BY <2>9, <4>2, WorkMoves, <1>0 DEF Executes, Executing
        <4> QED BY <4>1, <4>2
      <3>3. PICK k \in Line : k = feed[Edit(v)].line
        BY <2>1, <3>2
      <3> QED BY <2>3, <2>9, <3>1, <3>3 DEF Reached, At
    <2>10. ASSUME NEW j \in DOMAIN record', record'[j].isSend, Association(record[j].edit)'
           PROVE  Reached(feed[record[j].edit].line)'
      <3>1. feed' = feed /\ record'[j].edit \in DOMAIN feed
        BY <1>1, WorkMoves DEF WebhooksShaped
      <3>2. PICK k \in Line : k = feed[record'[j].edit].line
        BY <2>1, <3>1
      <3> QED BY <2>4, <2>10, <3>1, <3>2 DEF Reached, Association
    <2> QED BY <2>5, <2>8, <2>9, <2>10 DEF AssociationsCover
  <1> QED BY <1>1, <1>2, <1>3, <1>4, <1>5, <1>6

-----------------------------------------------------------------------------
(* Deliveries and answers, the window, crashes, the advisor.                *)

\* A handler takes up a delivery or is done with one.
Hears(w) ==
    /\ ~Executes(w)
    /\ worker' \in [Worker -> [pc : HandlerStep, edit : Nat, rec : Nat, seen : [Line -> Seen]]]
    /\ worker'[w].pc \in {"idle", "guard"} /\ \A v \in Worker : v # w => worker'[v] = worker[v]
    /\ worker'[w].pc = "guard" => worker'[w].edit \in DOMAIN feed
    /\ feed' \in Seq(FeedEvent) /\ DOMAIN feed' = DOMAIN feed
    /\ \A e \in DOMAIN feed : feed'[e].kind = feed[e].kind /\ feed'[e].line = feed[e].line
    /\ UNCHANGED <<tenant, line, record, crashed, raced, omitted, lost>>

LEMMA HearKeepsBase ==
    ASSUME Base, NEW w \in Worker, Hears(w)
    PROVE  Base'
  <1> USE DEF Base
  <1>1. /\ record' = record /\ line' = line /\ tenant' = tenant /\ crashed' = crashed
        /\ DOMAIN feed' = DOMAIN feed
        /\ \A e \in DOMAIN feed : feed'[e].kind = feed[e].kind /\ feed'[e].line = feed[e].line
        /\ \A v \in Worker : v # w => worker'[v] = worker[v]
        /\ worker'[w].pc \in {"idle", "guard"}
    BY DEF Hears
  <1>2. ~Executes(w) /\ ~Executes(w)' /\ \A v \in Worker : v # w => Executes(v)' = Executes(v)
    BY <1>1 DEF Hears, Executes, Executing
  <1>3. WebhooksShaped'
    BY <1>1 DEF WebhooksShaped, Hears, Edit
  <1>4. RecordsHeld'
    BY <1>1, <1>2 DEF RecordsHeld, Edit
  <1>5. NoneLeftInFlight'
    BY <1>1, <1>2 DEF NoneLeftInFlight
  <1>6. \A e \in DOMAIN feed : Association(e)' = Association(e)
    BY <1>1 DEF Association
  <1>7. \A i \in DOMAIN record : record[i].edit \in DOMAIN feed
    BY DEF WebhooksShaped
  <1>8. OneAssociation'
    BY <1>1, <1>6, <1>7 DEF OneAssociation
  <1>9. \A v \in Worker : worker[v].pc # "idle" => Edit(v) \in DOMAIN feed
    BY DEF WebhooksShaped
  <1>10. \A v \in Worker : v # w /\ worker[v].pc # "idle" =>
           /\ Edit(v)' = Edit(v) /\ Kind(v)' = Kind(v) /\ LegacyProperty(v)' = LegacyProperty(v)
           /\ OwnsRecords(v)' = OwnsRecords(v) /\ (Collides(Edit(v)) => Collides(Edit(v))')
    BY <1>1, <1>9 DEF Edit, Kind, LegacyProperty, OwnsRecords, Collides
  <1>11. StepsTaken'
    BY <1>1, <1>10 DEF StepsTaken, At
  <1>12. AssociationsCover'
    <2>1. \A v \in Worker : Executes(v) => worker[v].pc # "idle"
      BY DEF Executes, Executing
    <2>2. \A v \in Worker : Executes(v)' => v # w /\ Executes(v) /\ worker'[v] = worker[v] /\ Edit(v)' = Edit(v)
                                            /\ Kind(v)' = Kind(v) /\ feed'[Edit(v)].line = feed[Edit(v)].line
      BY <1>1, <1>2, <1>9, <1>10, <2>1
    <2>3. omitted' = omitted
      BY DEF Hears
    <2>4. \A v \in Worker, l \in Line : v # w /\ At(v, "write") => Covers(Edit(v), l)' = Covers(Edit(v), l)
      BY <1>1, <1>9, <2>1, <1>10 DEF Covers, Association, At
    <2>5. \A v \in Worker : At(v, "write")' => v # w /\ At(v, "write") /\ Executes(v)'
      BY <1>1, <1>2 DEF At, Executes, Executing
    <2>6. \A v \in Worker, l \in Line : At(v, "write")' /\ worker'[v].seen[l] # Nothing =>
             line'[l].on /\ Covers(Edit(v), l)'
      BY <1>1, <2>4, <2>5 DEF AssociationsCover
    <2> QED BY <1>1, <1>6, <1>7, <2>2, <2>3, <2>6 DEF AssociationsCover, Reached, At
  <1> QED BY <1>3, <1>4, <1>5, <1>8, <1>11, <1>12

\* Records only grow older.
Ages ==
    /\ record' \in Seq(Attempt) /\ DOMAIN record' = DOMAIN record
    /\ \A i \in DOMAIN record :
          /\ record'[i].edit = record[i].edit /\ record'[i].isSend = record[i].isSend
          /\ record'[i].error = record[i].error /\ record'[i].read = record[i].read
          /\ record'[i].fresh => record[i].fresh
    /\ UNCHANGED <<tenant, line, feed, worker, faults, crashed, raced, omitted, lost>>

LEMMA WindowAges == ASSUME Base, WindowPasses PROVE Ages
  <1>1. PICK i \in DOMAIN record : record' = [record EXCEPT ![i].fresh = FALSE]
    BY DEF WindowPasses
  <1>2. UNCHANGED <<tenant, line, feed, worker, faults, crashed, raced, omitted, lost>>
    BY DEF WindowPasses
  <1>3. record \in Seq(Attempt)
    BY DEF Base, WebhooksShaped
  <1>4. PICK r : r = [record[i] EXCEPT !.fresh = FALSE]
    OBVIOUS
  <1>5. record[i] \in Attempt
    BY <1>3, LenProperties, ElementOfSeq
  <1>6. r \in Attempt /\ r.edit = record[i].edit /\ r.isSend = record[i].isSend /\ r.error = record[i].error
        /\ r.read = record[i].read /\ ~r.fresh
    BY <1>4, <1>5 DEF Attempt
  <1>7. /\ record' \in Seq(Attempt) /\ DOMAIN record' = DOMAIN record
        /\ record'[i] = r /\ \A j \in DOMAIN record : j # i => record'[j] = record[j]
    <2>1. record' = [record EXCEPT ![i] = r]
      BY <1>1, <1>4
    <2> QED BY <1>3, <1>6, <2>1, Amended
  <1> QED BY <1>2, <1>6, <1>7 DEF Ages

LEMMA AgeKeepsBase ==
    ASSUME Base, Ages
    PROVE  Base'
  <1>1. /\ DOMAIN record' = DOMAIN record /\ worker' = worker /\ feed' = feed /\ line' = line
        /\ tenant' = tenant /\ crashed' = crashed
        /\ \A i \in DOMAIN record :
              /\ record'[i].edit = record[i].edit /\ record'[i].isSend = record[i].isSend
              /\ record'[i].error = record[i].error /\ record'[i].read = record[i].read
    BY DEF Ages
  <1>2. \A i \in DOMAIN record : InFlight(record'[i]) = InFlight(record[i])
    BY <1>1 DEF InFlight
  <1>3. WebhooksShaped'
    BY <1>1 DEF Base, WebhooksShaped, Ages, Edit
  <1>4. \A w \in Worker : Executes(w)' = Executes(w) /\ Edit(w)' = Edit(w)
    BY <1>1 DEF Executes, Edit
  <1>5. RecordsHeld'
    BY <1>1, <1>2, <1>4 DEF Base, RecordsHeld, SameEvent
  <1>6. NoneLeftInFlight'
    BY <1>1, <1>2, <1>4 DEF Base, NoneLeftInFlight
  <1>7. OneAssociation'
    BY <1>1 DEF Base, OneAssociation, Association
  <1>8. \A e : Collides(e)' = Collides(e)
    BY <1>1 DEF Collides, SameEvent
  <1>9. StepsTaken'
    BY <1>1, <1>4, <1>8 DEF Base, StepsTaken, LegacyProperty, OwnsRecords, Kind, At
  <1>10. AssociationsCover'
    <2>1. omitted' = omitted
      BY DEF Ages
    <2>2. \A e, l : Covers(e, l)' = Covers(e, l) /\ Reached(l)' = Reached(l)
      BY <1>1, <2>1 DEF Covers, Association, Reached
    <2> QED BY <1>1, <1>4, <2>1, <2>2 DEF Base, AssociationsCover, Association, Covers, Reached, Kind, At
  <1> QED BY <1>3, <1>5, <1>6, <1>7, <1>9, <1>10 DEF Base

LEMMA CrashKeepsBase ==
    ASSUME Base, Crash
    PROVE  Base'
  <1>1. worker' = [w \in Worker |-> Idle] /\ crashed' = TRUE /\ record' = record /\ feed' = feed
        /\ line' = line /\ tenant' = tenant
    BY DEF Crash
  <1>2. Idle \in [pc : HandlerStep, edit : Nat, rec : Nat, seen : [Line -> Seen]]
    <2>1. NoSnapshot \in [Line -> Seen]
      BY DEF NoSnapshot, Nothing, Seen
    <2> QED BY <2>1 DEF Idle, HandlerStep
  <1>3. \A w \in Worker : worker'[w].pc = "idle"
    BY <1>1 DEF Idle
  <1>4. WebhooksShaped'
    BY <1>1, <1>2, <1>3 DEF Base, WebhooksShaped
  <1>5. \A w \in Worker : ~Executes(w)'
    BY <1>3 DEF Executes, Executing
  <1>6. RecordsHeld' /\ NoneLeftInFlight'
    BY <1>1, <1>5 DEF Base, RecordsHeld, NoneLeftInFlight
  <1>7. OneAssociation'
    BY <1>1 DEF Base, OneAssociation, Association
  <1>8. StepsTaken'
    BY <1>3 DEF StepsTaken, At
  <1>9. AssociationsCover'
    <2>1. omitted' = omitted
      BY DEF Crash
    <2> QED BY <1>1, <1>3, <1>5, <2>1 DEF Base, AssociationsCover, Association, Reached, At
  <1> QED BY <1>4, <1>6, <1>7, <1>8, <1>9 DEF Base

\* The advisor adds a line or edits one: event e is published.
Publishes(kind, l, e) ==
    /\ IF kind = "association" THEN ~line[l].on ELSE line[l].on
    /\ feed' \in Seq(FeedEvent) /\ DOMAIN feed' = DOMAIN feed \cup {e} /\ e \notin DOMAIN feed
    /\ e \in Nat \ {0} /\ \A d \in DOMAIN feed : d \in Nat /\ d < e /\ feed'[d] = feed[d]
    /\ feed'[e].kind = kind /\ feed'[e].line = l /\ ~feed'[e].acked
    /\ line' \in [Line -> [on : BOOLEAN, input : Nat, price : Int, safe : BOOLEAN]]
    /\ \A k \in Line : k # l => line'[k] = line[k]
    /\ line'[l].on /\ line'[l].price = line[l].price /\ line'[l].safe = line[l].safe
    /\ line'[l].input = IF kind = "association" THEN line[l].input ELSE e
    /\ raced \subseteq raced' /\ (StillCounts => l \in raced')
    /\ UNCHANGED <<tenant, record, worker, faults, crashed, omitted, lost>>

LEMMA AdvisorPublishes ==
    ASSUME Base, NEW l \in Line, AddLine(l) \/ EditLine(l)
    PROVE  \E kind \in {"association", "property"} : Publishes(kind, l, Len(feed) + 1)
  <1>1. PICK kind \in {"association", "property"} :
           /\ Publish(kind, l)
           /\ IF kind = "association" THEN ~line[l].on ELSE line[l].on
           /\ line' = IF kind = "association" THEN [line EXCEPT ![l].on = TRUE]
                      ELSE [line EXCEPT ![l].input = Len(feed) + 1]
    BY DEF AddLine, EditLine
  <1> DEFINE ev == [kind |-> kind, line |-> l, left |-> MaxDeliveries, acked |-> FALSE]
  <1>2. ev \in FeedEvent /\ ev.kind = kind /\ ev.line = l /\ ~ev.acked
    BY BoundsAssumption DEF FeedEvent
  <1>3. feed' = Append(feed, ev)
    BY <1>1 DEF Publish
  <1> HIDE DEF ev
  <1>4. feed \in Seq(FeedEvent)
    BY DEF Base, WebhooksShaped
  <1>5. /\ feed' \in Seq(FeedEvent) /\ DOMAIN feed' = DOMAIN feed \cup {Len(feed) + 1}
        /\ Len(feed) + 1 \notin DOMAIN feed /\ feed'[Len(feed) + 1] = ev
        /\ \A d \in DOMAIN feed : feed'[d] = feed[d]
        /\ Len(feed) + 1 \in Nat \ {0}
    BY <1>2, <1>3, <1>4, Appended
  <1>6. \A d \in DOMAIN feed : d \in Nat /\ d < Len(feed) + 1
    BY <1>4, LenProperties
  <1>7. PICK e : e = Len(feed) + 1
    OBVIOUS
  <1>8. line' = IF kind = "association" THEN [line EXCEPT ![l].on = TRUE] ELSE [line EXCEPT ![l].input = e]
    BY <1>1, <1>7
  <1>9. /\ feed' \in Seq(FeedEvent) /\ DOMAIN feed' = DOMAIN feed \cup {e}
        /\ e \notin DOMAIN feed /\ feed'[e] = ev /\ e \in Nat \ {0}
        /\ \A d \in DOMAIN feed : d \in Nat /\ d < e /\ feed'[d] = feed[d]
    BY <1>5, <1>6, <1>7
  <1>10. line \in [Line -> [on : BOOLEAN, input : Nat, price : Int, safe : BOOLEAN]]
    BY DEF Base, WebhooksShaped
  <1>11. /\ line' \in [Line -> [on : BOOLEAN, input : Nat, price : Int, safe : BOOLEAN]]
         /\ \A k \in Line : k # l => line'[k] = line[k]
         /\ line'[l].on /\ line'[l].price = line[l].price /\ line'[l].safe = line[l].safe
         /\ line'[l].input = IF kind = "association" THEN line[l].input ELSE e
    <2>1. e \in Nat
      BY <1>9
    <2>2. CASE kind = "association"
      <3>1. line' = [line EXCEPT ![l].on = TRUE]
        BY <1>8, <2>2
      <3> QED BY <1>10, <2>2, <3>1
    <2>3. CASE kind = "property"
      <3>1. line' = [line EXCEPT ![l].input = e] /\ line[l].on
        BY <1>1, <1>8, <2>3
      <3> QED BY <1>10, <2>1, <2>3, <3>1
    <2> QED BY <2>2, <2>3
  <1>12. raced \subseteq raced' /\ (StillCounts => l \in raced')
    BY <1>1 DEF Publish
  <1>13. UNCHANGED <<tenant, record, worker, faults, crashed, omitted, lost>>
    BY <1>1 DEF Publish
  <1>14. Publishes(kind, l, e)
    BY <1>1, <1>2, <1>9, <1>11, <1>12, <1>13 DEF Publishes
  <1> QED BY <1>7, <1>14

LEMMA PublishKeepsBase ==
    ASSUME Base, NEW kind \in {"association", "property"}, NEW l \in Line, NEW n, Publishes(kind, l, n)
    PROVE  Base'
  <1> USE DEF Base
  <1>1. /\ record' = record /\ worker' = worker /\ tenant' = tenant /\ crashed' = crashed
        /\ DOMAIN feed' = DOMAIN feed \cup {n} /\ n \notin DOMAIN feed
        /\ \A e \in DOMAIN feed : feed'[e] = feed[e]
        /\ feed'[n].kind = kind /\ feed'[n].line = l
        /\ \A k \in Line : /\ line[k].on => line'[k].on /\ line'[k].safe = line[k].safe
                           /\ k # l => line'[k] = line[k]
        /\ line'[l].on /\ (kind = "association" <=> ~line[l].on)
    BY DEF Publishes
  <1>2. \A w \in Worker : worker[w].pc # "idle" => Edit(w) \in DOMAIN feed
    BY DEF WebhooksShaped
  <1>3. \A i \in DOMAIN record : record[i].edit \in DOMAIN feed
    BY DEF WebhooksShaped
  <1>4. \A e \in DOMAIN feed : feed[e].line \in Line
    BY EventLines
  <1>5. \A w \in Worker : Edit(w)' = Edit(w) /\ Executes(w)' = Executes(w)
    BY <1>1 DEF Edit, Executes
  <1>6. WebhooksShaped'
    BY <1>1, <1>2, <1>3, <1>5 DEF WebhooksShaped, Publishes
  <1>7. RecordsHeld' /\ NoneLeftInFlight'
    BY <1>1, <1>5 DEF RecordsHeld, NoneLeftInFlight
  <1>8. \A e \in DOMAIN feed : Association(e)' = Association(e)
    BY <1>1 DEF Association
  <1>9. OneAssociation'
    <2>1. \A e \in DOMAIN feed : feed[e].line = l => line[l].on
      BY DEF OneAssociation
    <2>2. ASSUME NEW e \in DOMAIN feed', NEW d \in DOMAIN feed', Association(e)', Association(d)',
                 feed'[e].line = feed'[d].line
          PROVE  e = d
      BY <1>1, <1>8, <2>1, <2>2 DEF OneAssociation, Association
    <2>3. \A k \in Line : line'[k].on => \E e \in DOMAIN feed' : Association(e)' /\ feed'[e].line = k
      <3>1. ASSUME NEW k \in Line, line'[k].on PROVE \E e \in DOMAIN feed' : Association(e)' /\ feed'[e].line = k
        <4>1. CASE line[k].on
          <5>1. PICK e \in DOMAIN feed : Association(e) /\ feed[e].line = k
            BY <4>1 DEF OneAssociation
          <5> QED BY <1>1, <1>8, <5>1
        <4>2. CASE ~line[k].on
          BY <1>1, <3>1, <4>2 DEF Association
        <4> QED BY <4>1, <4>2
      <3> QED BY <3>1
    <2>4. \A e \in DOMAIN feed' : line'[feed'[e].line].on
      BY <1>1, <1>4 DEF OneAssociation
    <2>5. \A i, j \in DOMAIN record' : Association(record[i].edit)' /\ record'[i].edit = record'[j].edit => i = j
      <3>1. \A i \in DOMAIN record : feed'[record'[i].edit] = feed[record[i].edit]
        BY <1>1, <1>3
      <3> QED BY <1>1, <3>1 DEF OneAssociation, Association
    <2> QED BY <2>2, <2>3, <2>4, <2>5 DEF OneAssociation
  <1>10. \A w \in Worker : worker[w].pc # "idle" =>
           /\ Kind(w)' = Kind(w) /\ LegacyProperty(w)' = LegacyProperty(w)
           /\ OwnsRecords(w)' = OwnsRecords(w) /\ (Collides(Edit(w)) => Collides(Edit(w))')
    BY <1>1, <1>2, <1>5 DEF Kind, LegacyProperty, OwnsRecords, Collides
  <1>11. StepsTaken'
    BY <1>1, <1>10 DEF StepsTaken, At
  <1>12. AssociationsCover'
    <2>1. \A w \in Worker : Executes(w) => worker[w].pc # "idle"
      BY DEF Executes, Executing
    <2>2. \A k \in Line : line'[k].safe => line'[k].on
      BY <1>1 DEF AssociationsCover
    <2>3. omitted' = omitted
      BY DEF Publishes
    <2>4. \A k \in Line : line'[k].safe = line[k].safe
      BY DEF Publishes
    <2>5. \A w \in Worker : Executes(w)' /\ Kind(w)' = "association" =>
             /\ At(w, "write")' => worker'[w].seen[feed'[Edit(w)'].line] # Nothing \/ Reached(feed[Edit(w)].line)'
             /\ At(w, "mark")' => Reached(feed[Edit(w)].line)'
      BY <1>1, <1>2, <1>4, <1>5, <1>10, <2>1, <2>3 DEF AssociationsCover, Reached, At
    <2>6. \A i \in DOMAIN record' : record'[i].isSend /\ Association(record[i].edit)' => Reached(feed[record[i].edit].line)'
      <3>1. \A i \in DOMAIN record : feed'[record'[i].edit] = feed[record[i].edit]
        BY <1>1, <1>3
      <3>2. \A k \in Line : (line[k].safe \/ k \in omitted) => line'[k].safe \/ k \in omitted'
        BY <2>3, <2>4
      <3> QED BY <1>1, <1>3, <1>4, <3>1, <3>2 DEF AssociationsCover, Association, Reached
    <2>7. \A e \in DOMAIN feed, k \in Line : Covers(e, k) => Covers(e, k)'
      BY <1>1, <2>4 DEF Covers, Association
    <2>8. \A w \in Worker, k \in Line : At(w, "write")' /\ worker'[w].seen[k] # Nothing =>
             line'[k].on /\ Covers(Edit(w), k)'
      <3>1. ASSUME NEW w \in Worker, NEW k \in Line, At(w, "write")', worker'[w].seen[k] # Nothing
            PROVE  line'[k].on /\ Covers(Edit(w), k)'
        <4>1. line[k].on /\ Covers(Edit(w), k)
          BY <1>1, <3>1 DEF AssociationsCover, At
        <4>2. PICK e \in DOMAIN feed : e = Edit(w) /\ e = Edit(w)'
          BY <1>1, <1>2, <1>5, <3>1 DEF At
        <4>3. Covers(e, k)'
          BY <2>7, <4>1, <4>2
        <4> QED BY <1>1, <4>1, <4>2, <4>3 DEF Covers, Association
      <3> QED BY <3>1
    <2> QED BY <2>2, <2>5, <2>6, <2>8 DEF AssociationsCover
  <1> QED BY <1>6, <1>7, <1>9, <1>11, <1>12

-----------------------------------------------------------------------------
(* Which action is which kind of step.                                      *)

LEMMA Kinds ==
    ASSUME Base, NEW w \in Worker, worker[w].pc # "idle"
    PROVE  /\ Edit(w) \in DOMAIN feed /\ Kind(w) \in {"association", "property"} /\ Edit(w) \in Nat
           /\ feed[Edit(w)].line \in Line
  <1>1. Edit(w) \in DOMAIN feed
    BY DEF Base, WebhooksShaped
  <1>2. feed[Edit(w)] \in FeedEvent /\ feed[Edit(w)].line \in Line
    BY <1>1, EventLines
  <1>3. Edit(w) \in Nat
    BY DEF Base, WebhooksShaped, Edit
  <1> QED BY <1>1, <1>2, <1>3 DEF Kind, FeedEvent

\* A step of a handler that writes nothing but, at most, a note.
Lingers(w, pc) ==
    /\ worker' = [worker EXCEPT ![w].pc = pc]
    /\ Grown(Edit(w))
    /\ UNCHANGED <<tenant, line, feed, crashed, raced, omitted, lost>>

LEMMA LingerWalks ==
    ASSUME Base, NEW w \in Worker, NEW pc, Lingers(w, pc), worker[w].pc \in Before, pc \in Waiting,
           pc \in {"claim", "reclaim", "debounce", "create"} => ~LegacyProperty(w),
           pc \in {"claim", "reclaim"} => Kind(w) = "association",
           pc = "debounce" => ~OwnsRecords(w) /\ tenant.strategy # "legacy",
           pc = "reclaim" => Collides(Edit(w))
    PROVE  Walks(w, pc)
  BY DEF Walks, Lingers

LEMMA StepLingers ==
    ASSUME Base, NEW w \in Worker, NEW pc, Step(w, pc), UNCHANGED <<tenant, line, feed, record, crashed, raced, omitted, lost>>
    PROVE  Lingers(w, pc)
  <1>1. record' = record
    OBVIOUS
  <1>2. Grown(Edit(w))
    BY <1>1, NothingGrown
  <1> QED BY <1>2 DEF Lingers, Step

LEMMA NoteLingers ==
    ASSUME Base, NEW w \in Worker, worker[w].pc # "idle", NEW b \in BOOLEAN, NEW answer \in {"ok", "error"},
           Note(w, b, answer), UNCHANGED <<tenant, line, feed, crashed, raced, omitted, lost>>
    PROVE  \E pc \in {"error", answer} : Lingers(w, pc)
  <1>1. PICK pc \in {"error", answer} : Step(w, pc)
    BY DEF Note
  <1>2. Edit(w) \in Nat /\ record' = IF Collides(Edit(w)) THEN record ELSE Append(record, Document(Edit(w), b, TRUE))
    BY Kinds DEF Note
  <1>3. Grown(Edit(w))
    BY <1>2, NoteGrown
  <1> QED BY <1>1, <1>3 DEF Lingers, Step

\* Why a webhook may be answered without having been carried out: its event is answered for,
\* or others see to every line it covers.
Excused(w) ==
    Open(Edit(w)) =>
        /\ ~(tenant.strategy \in BusinessPartner /\ Association(Edit(w)))
        /\ \A l \in Line : Dirty(l) /\ Covers(Edit(w), l) =>
              \/ \E v \in Worker : WillPrice(v, l)
              \/ \E e \in DOMAIN feed : e # Edit(w) /\ Open(e) /\ Covers(e, l)

\* A walk, with a good answer only where it is excused.
Passes(w) == \E pc \in Waiting : Walks(w, pc) /\ (pc = "ok" /\ Calm /\ InputsKnown /\ AssociationIsDue /\ SilenceIsDeserved => Excused(w))

LEMMA GuardPasses ==
    ASSUME Base, NEW w \in Worker, PassGuard(w)
    PROVE  Passes(w)
  <1>1. PICK pc \in {"claim", "debounce"} : pc = IF OwnsRecords(w) THEN "claim" ELSE "debounce"
    OBVIOUS
  <1>2. worker[w].pc = "guard" /\ Step(w, pc) /\ UNCHANGED <<tenant, line, feed, record, crashed, raced, omitted, lost>>
        /\ ~LegacyProperty(w)
    BY <1>1 DEF PassGuard, At
  <1>3. Lingers(w, pc)
    BY <1>2, StepLingers
  <1>4. Kind(w) \in {"association", "property"}
    BY <1>2, Kinds
  <1>5. pc = "claim" => Kind(w) = "association"
    BY <1>1 DEF OwnsRecords
  <1>6. pc = "debounce" => ~OwnsRecords(w) /\ tenant.strategy # "legacy"
    BY <1>1, <1>2, <1>4 DEF OwnsRecords, LegacyProperty, BusinessPartner
  <1>7. worker[w].pc \in Before /\ pc \in Waiting /\ pc # "reclaim" /\ pc # "ok"
    BY <1>2 DEF Before, Waiting
  <1>8. Walks(w, pc)
    BY <1>2, <1>3, <1>5, <1>6, <1>7, LingerWalks
  <1> QED BY <1>7, <1>8 DEF Passes

\* A record that repeats the event turns its deliveries away.
LEMMA DuplicateExcuses ==
    ASSUME NEW w \in Worker, FindDuplicate(Edit(w))
    PROVE  Excused(w)
  BY DEF Excused, Open, FindDuplicate

LEMMA DuplicatePasses ==
    ASSUME Base, NEW w \in Worker, SkipDuplicate(w) \/ NoteDuplicate(w)
    PROVE  Passes(w)
  <1>1. worker[w].pc = "guard" /\ FindDuplicate(Edit(w)) /\ UNCHANGED <<tenant, line, feed, crashed, raced, omitted, lost>>
    BY DEF SkipDuplicate, NoteDuplicate, At
  <1>2. \E pc \in {"error", "ok"} : Lingers(w, pc)
    <2>1. CASE SkipDuplicate(w)
      <3>1. Step(w, "ok") /\ UNCHANGED <<tenant, line, feed, record, crashed, raced, omitted, lost>>
        BY <2>1 DEF SkipDuplicate
      <3> QED BY <3>1, StepLingers
    <2>2. CASE NoteDuplicate(w)
      <3>1. Note(w, FALSE, "ok")
        BY <2>2 DEF NoteDuplicate
      <3> QED BY <1>1, <3>1, NoteLingers
    <2> QED BY <2>1, <2>2
  <1>3. PICK pc \in {"error", "ok"} : Lingers(w, pc)
    BY <1>2
  <1>4. worker[w].pc \in Before /\ pc \in Waiting
    BY <1>1 DEF Before, Waiting
  <1>5. Walks(w, pc)
    BY <1>3, <1>4, LingerWalks
  <1>6. Excused(w)
    BY <1>1, DuplicateExcuses
  <1> QED BY <1>4, <1>5, <1>6 DEF Passes

LEMMA FailurePasses ==
    ASSUME Base, NEW w \in Worker, ResolveFails(w) \/ NoDeal(w)
    PROVE  Passes(w)
  <1>1. worker[w].pc = "debounce" /\ UNCHANGED <<tenant, line, feed, crashed, raced, omitted, lost>>
    BY DEF ResolveFails, NoDeal, At
  <1>2. Lingers(w, "error")
    <2>1. CASE ResolveFails(w)
      <3>1. Step(w, "error") /\ UNCHANGED <<tenant, line, feed, record, crashed, raced, omitted, lost>>
        BY <2>1 DEF ResolveFails
      <3> QED BY <3>1, StepLingers
    <2>2. CASE NoDeal(w)
      <3>1. Note(w, FALSE, "error")
        BY <2>2 DEF NoDeal
      <3> QED BY <1>1, <3>1, NoteLingers
    <2> QED BY <2>1, <2>2
  <1>3. worker[w].pc \in Before /\ "error" \in Waiting
    BY <1>1 DEF Before, Waiting
  <1>4. Walks(w, "error")
    BY <1>2, <1>3, LingerWalks
  <1> QED BY <1>3, <1>4 DEF Passes

LEMMA CreationPasses ==
    ASSUME Base, NEW w \in Worker, PassDebounce(w) \/ CreateCollides(w) \/ NothingToClaim(w)
    PROVE  Passes(w)
  <1>1. /\ worker[w].pc \in {"debounce", "create", "claim", "reclaim"}
        /\ UNCHANGED <<tenant, line, feed, record, crashed, raced, omitted, lost>>
    BY DEF PassDebounce, CreateCollides, NothingToClaim, At
  <1>2. ~LegacyProperty(w)
    BY <1>1 DEF Base, StepsTaken
  <1>3. PICK pc \in {"create", "error", "reclaim", "ok"} :
           /\ Step(w, pc) /\ (pc = "reclaim" => CreateCollides(w)) /\ (pc = "ok" => NothingToClaim(w) /\ ~At(w, "claim"))
    BY DEF PassDebounce, CreateCollides, NothingToClaim
  <1>4. Lingers(w, pc)
    BY <1>1, <1>3, StepLingers
  <1>5. worker[w].pc \in Before /\ pc \in Waiting /\ pc \notin {"claim", "debounce"}
    BY <1>1, <1>3 DEF Before, Waiting
  <1>6. pc = "reclaim" => Collides(Edit(w)) /\ Kind(w) = "association"
    BY <1>3 DEF CreateCollides, Collides, Kind
  <1>7. Walks(w, pc)
    BY <1>2, <1>4, <1>5, <1>6, LingerWalks
  <1>8. pc = "ok" => Excused(w)
    <2> SUFFICES ASSUME pc = "ok" PROVE Excused(w)
      OBVIOUS
    <2>1. worker[w].pc = "reclaim" /\ \A i \in DOMAIN record : ~Claimable(record[i], Edit(w))
      BY <1>3 DEF NothingToClaim, At
    <2>2. Collides(Edit(w))
      BY <2>1 DEF Base, StepsTaken, At
    <2>3. FindDuplicate(Edit(w))
      BY <2>1, <2>2 DEF Collides, FindDuplicate, Claimable, FailedAttempt, Repeats
    <2> QED BY <2>3, DuplicateExcuses
  <1> QED BY <1>5, <1>7, <1>8 DEF Passes

\* A line on the deal has an association; while the line is not priced and the tenant's flow is
\* one of business partners, somebody is to price it.
LEMMA LineOfAssociation ==
    ASSUME Base, NEW l \in Line, line[l].on
    PROVE  \E e \in DOMAIN feed : Association(e) /\ feed[e].line = l
  BY DEF Base, OneAssociation

LEMMA UnderWay ==
    ASSUME Base, InputsKnown, NEW v \in Worker, Executes(v), Association(Edit(v)), ~At(v, "mark"),
           NEW l \in Line, l = feed[Edit(v)].line, Dirty(l)
    PROVE  WillPrice(v, l)
  <1>1. worker[v].pc \in {"read", "write", "fail"}
    BY DEF Executes, Executing, At
  <1>2. Covers(Edit(v), l)
    BY DEF Covers
  <1>3. At(v, "write") => worker[v].seen[l] # Nothing
    BY DEF InputsKnown
  <1> QED BY <1>1, <1>2, <1>3 DEF WillPrice, At

\* The newest association record of a line is the one its association has.
LEMMA SentIsNewest ==
    ASSUME Base, NEW i \in DOMAIN record, Association(record[i].edit), record[i].isSend
    PROVE  AssociationDone(feed[record[i].edit].line)
  <1> DEFINE l == feed[record[i].edit].line
             of == {k \in DOMAIN record : feed[record[k].edit].kind = "association" /\ feed[record[k].edit].line = l}
  <1>1. i \in of
    BY DEF Association
  <1>2. \A j \in of : j = i
    <2>1. ASSUME NEW j \in of PROVE j = i
      <3>1. record[j].edit \in DOMAIN feed /\ record[i].edit \in DOMAIN feed
        BY <2>1 DEF Base, WebhooksShaped
      <3>2. record[j].edit = record[i].edit
        BY <2>1, <3>1 DEF Base, OneAssociation, Association
      <3> QED BY <2>1, <3>2 DEF Base, OneAssociation, Association
    <2> QED BY <2>1
  <1>3. i \in Nat \ {0}
    <2>1. record \in Seq(Attempt)
      BY DEF Base, WebhooksShaped
    <2> QED BY <2>1, LenProperties
  <1>4. of = {i}
    BY <1>1, <1>2
  <1>5. Newest(l) = CHOOSE k \in of : \A j \in of : j <= k
    BY <1>1 DEF Newest
  <1>6. Newest(l) = i
    BY <1>3, <1>4, <1>5
  <1> QED BY <1>3, <1>6 DEF AssociationDone

LEMMA LegacyPasses ==
    ASSUME Base, NEW w \in Worker, LegacySkip(w)
    PROVE  Passes(w)
  <1>1. worker[w].pc = "guard" /\ LegacyProperty(w) /\ ~AssociationDone(feed[Edit(w)].line)
        /\ Note(w, FALSE, "ok") /\ UNCHANGED <<tenant, line, feed, crashed, raced, omitted, lost>>
    BY DEF LegacySkip, At
  <1>2. PICK pc \in {"error", "ok"} : Lingers(w, pc)
    BY <1>1, NoteLingers
  <1>3. worker[w].pc \in Before /\ pc \in Waiting
    BY <1>1 DEF Before, Waiting
  <1>4. Walks(w, pc)
    BY <1>2, <1>3, LingerWalks
  <1>5. ASSUME InputsKnown, AssociationIsDue PROVE Excused(w)
    <2>1. tenant.strategy = "legacy" /\ Kind(w) = "property" /\ tenant.strategy \in BusinessPartner
          /\ ~Association(Edit(w))
      BY <1>1 DEF LegacyProperty, BusinessPartner, Association, Kind
    <2>2. Edit(w) \in DOMAIN feed /\ feed[Edit(w)].line \in Line
      BY <1>1, Kinds
    <2>3. ASSUME NEW l \in Line, Dirty(l), Covers(Edit(w), l)
          PROVE  \/ \E v \in Worker : WillPrice(v, l)
                 \/ \E e \in DOMAIN feed : e # Edit(w) /\ Open(e) /\ Covers(e, l)
      <3>1. l = feed[Edit(w)].line
        BY <2>1, <2>3 DEF Covers
      <3>2. PICK e \in DOMAIN feed : Association(e) /\ feed[e].line = l
        BY <2>3, LineOfAssociation DEF Dirty
      <3>3. e # Edit(w) /\ Covers(e, l)
        BY <2>1, <3>2 DEF Covers
      <3>4. ~ \E i \in DOMAIN record : SameEvent(record[i], e) /\ record[i].isSend
        BY <1>1, <3>1, <3>2, SentIsNewest DEF SameEvent
      <3>5. CASE Open(e)
        BY <3>3, <3>5
      <3>6. CASE \E v \in Worker : /\ Executes(v) /\ Edit(v) = e
                                   /\ At(v, "mark") /\ tenant.strategy = "legacy" => ~Dirty(feed[e].line)
        <4>1. PICK v \in Worker : /\ Executes(v) /\ Edit(v) = e
                                  /\ At(v, "mark") /\ tenant.strategy = "legacy" => ~Dirty(feed[e].line)
          BY <3>6
        <4>2. ~At(v, "mark")
          BY <2>1, <2>3, <3>2, <4>1
        <4> QED BY <1>5, <2>3, <3>2, <4>1, <4>2, UnderWay
      <3> QED BY <1>5, <2>1, <3>2, <3>4, <3>5, <3>6 DEF AssociationIsDue
    <2> QED BY <2>1, <2>3 DEF Excused
  <1> QED BY <1>3, <1>4, <1>5 DEF Passes

\* The record that debounces a webhook: it has read what the webhook covers, or is about to.
LEMMA DebouncedIsSeen ==
    ASSUME Base, Calm, SilenceIsDeserved, NEW w \in Worker, At(w, "debounce"), IsDebounced,
           NEW l \in Line, Dirty(l), Covers(Edit(w), l)
    PROVE  \E v \in Worker : WillPrice(v, l)
  <1>1. tenant.strategy # "legacy" /\ ~OwnsRecords(w) /\ tenant.strategy \in Strategy
    BY DEF Base, StepsTaken, WebhooksShaped
  <1>2. Kind(w) \in {"association", "property"}
    BY Kinds DEF At
  <1>3. tenant.strategy \in {"dealPriceList", "s4PriceList"} \/ (tenant.strategy = "skipped" /\ Kind(w) = "property")
    BY <1>1, <1>2 DEF Strategy, OwnsRecords, BusinessPartner
  <1>4. tenant.strategy = "skipped" => line[l].safe
    BY <1>3 DEF Covers, Association, Kind, BusinessPartner
  <1>5. PICK i \in DOMAIN record : RecentExecution(record[i])
    BY DEF IsDebounced
  <1>6. record[i].fresh /\ ~record[i].error /\ (tenant.strategy = "skipped" => feed[record[i].edit].kind = "property")
    BY <1>5 DEF RecentExecution
  <1>7. CASE record[i].read
    <2>1. Silences(record[i])
      BY <1>3, <1>6, <1>7 DEF Silences, IsDebounced
    <2> QED BY <1>4, <2>1 DEF SilenceIsDeserved
  <1>8. CASE ~record[i].read
    <2>1. InFlight(record[i])
      BY <1>6, <1>8 DEF Base, RecordsHeld, InFlight
    <2>2. PICK v \in Worker : Executes(v) /\ worker[v].rec = i
      BY <2>1 DEF Base, NoneLeftInFlight, Calm
    <2>3. worker[v].pc \in {"read", "fail"} /\ record[i].edit = Edit(v)
      BY <1>8, <2>2 DEF Base, RecordsHeld, SameEvent, Executes, Executing
    <2>4. Covers(Edit(v), l)
      BY <1>3, <1>4, <1>6, <2>3 DEF Covers, BusinessPartner
    <2> QED BY <2>3, <2>4 DEF WillPrice
  <1> QED BY <1>7, <1>8

LEMMA DebouncedPasses ==
    ASSUME Base, NEW w \in Worker, NoteDebounced(w) \/ SkipDebounced(w)
    PROVE  Passes(w)
  <1>1. worker[w].pc = "debounce" /\ At(w, "debounce") /\ IsDebounced /\ UNCHANGED <<tenant, line, feed, crashed, raced, omitted, lost>>
    BY DEF NoteDebounced, SkipDebounced, At
  <1>2. \E pc \in {"error", "ok"} : Lingers(w, pc)
    <2>1. CASE SkipDebounced(w)
      <3>1. Step(w, "ok") /\ UNCHANGED <<tenant, line, feed, record, crashed, raced, omitted, lost>>
        BY <2>1 DEF SkipDebounced
      <3> QED BY <3>1, StepLingers
    <2>2. CASE NoteDebounced(w)
      <3>1. Note(w, TRUE, "ok")
        BY <2>2 DEF NoteDebounced
      <3> QED BY <1>1, <3>1, NoteLingers
    <2> QED BY <2>1, <2>2
  <1>3. PICK pc \in {"error", "ok"} : Lingers(w, pc)
    BY <1>2
  <1>4. worker[w].pc \in Before /\ pc \in Waiting
    BY <1>1 DEF Before, Waiting
  <1>5. Walks(w, pc)
    BY <1>3, <1>4, LingerWalks
  <1>6. ASSUME Calm, SilenceIsDeserved PROVE Excused(w)
    <2>1. ~OwnsRecords(w)
      BY <1>1 DEF Base, StepsTaken
    <2>2. ~(tenant.strategy \in BusinessPartner /\ Association(Edit(w)))
      BY <2>1 DEF OwnsRecords, Association, Kind
    <2> QED BY <1>1, <1>6, <2>2, DebouncedIsSeen DEF Excused
  <1> QED BY <1>4, <1>5, <1>6 DEF Passes

LEMMA StartsAre ==
    ASSUME Base, NEW w \in Worker,
           LegacyStart(w) \/ Create(w) \/ \E i \in DOMAIN record : ClaimFailedAttempt(w, i)
    PROVE  \E i \in Nat : Starts(w, i)
  <1>1. CASE LegacyStart(w)
    <2>1. worker[w].pc \in Before /\ ~Association(Edit(w))
      BY <1>1 DEF LegacyStart, At, Before, LegacyProperty, Association, Kind
    <2>2. /\ record' = Append(record, Document(Edit(w), FALSE, FALSE))
          /\ worker' = [worker EXCEPT ![w].pc = "read", ![w].rec = Len(record) + 1]
          /\ UNCHANGED <<tenant, line, feed, crashed, raced, omitted, lost>>
      BY <1>1 DEF LegacyStart
    <2>3. Starts(w, Len(record) + 1)
      BY <2>1, <2>2, NewStarts
    <2> QED BY <2>3 DEF Starts
  <1>2. CASE Create(w)
    <2>1. worker[w].pc \in Before /\ ~Collides(Edit(w))
      BY <1>2 DEF Create, At, Before
    <2>2. /\ record' = Append(record, Document(Edit(w), TRUE, FALSE))
          /\ worker' = [worker EXCEPT ![w].pc = "read", ![w].rec = Len(record) + 1]
          /\ UNCHANGED <<tenant, line, feed, crashed, raced, omitted, lost>>
      BY <1>2 DEF Create
    <2>3. Starts(w, Len(record) + 1)
      BY <2>1, <2>2, NewStarts
    <2> QED BY <2>3 DEF Starts
  <1>3. ASSUME NEW i \in DOMAIN record, ClaimFailedAttempt(w, i) PROVE Starts(w, i) /\ i \in Nat
    <2>1. worker[w].pc \in Before /\ SameEvent(record[i], Edit(w)) /\ FailedAttempt(record[i])
          /\ worker' = [worker EXCEPT ![w].pc = "read", ![w].rec = i]
          /\ UNCHANGED <<tenant, line, feed, crashed, raced, omitted, lost>>
      BY <1>3 DEF ClaimFailedAttempt, Claimable, Before
    <2>2. record \in Seq(Attempt) /\ i \in Nat
      <3>1. record \in Seq(Attempt)
        BY DEF Base, WebhooksShaped
      <3> QED BY <3>1, LenProperties
    <2>3. PICK r : r = [record[i] EXCEPT !.error = FALSE, !.deal = TRUE, !.read = FALSE]
      OBVIOUS
    <2>4. record[i] \in Attempt
      BY <2>2, LenProperties, ElementOfSeq
    <2>5. r \in Attempt /\ r.edit = record[i].edit /\ r.isSend = record[i].isSend /\ ~r.error /\ ~r.read
      BY <2>3, <2>4 DEF Attempt
    <2>6. record' = [record EXCEPT ![i] = r]
      BY <1>3, <2>3 DEF ClaimFailedAttempt
    <2>7. record' \in Seq(Attempt) /\ DOMAIN record' = DOMAIN record /\ record'[i] = r
          /\ \A j \in DOMAIN record : j # i => record'[j] = record[j]
      BY <2>2, <2>5, <2>6, Amended
    <2>8. DOMAIN record' = DOMAIN record \cup {i}
      BY <2>7
    <2> QED BY <2>1, <2>2, <2>5, <2>7, <2>8 DEF Starts, InFlight, FailedAttempt, SameEvent
  <1> QED BY <1>1, <1>2, <1>3

-----------------------------------------------------------------------------
(* The steps of an execution, one by one.                                   *)

\* What an execution reads is what its event covers.
LEMMA ScopeCovers ==
    ASSUME Base, NEW w \in Worker, worker[w].pc # "idle"
    PROVE  \A l \in Line : l \in Scope(w) <=> line[l].on /\ Covers(Edit(w), l)
  <1>1. Kind(w) \in {"association", "property"} /\ tenant.strategy \in Strategy
    BY Kinds DEF Base, WebhooksShaped
  <1>2. \A l \in Line : line[l].safe => line[l].on
    BY DEF Base, AssociationsCover
  <1>3. CASE LegacyProperty(w)
    <2>1. Scope(w) = {feed[Edit(w)].line} \cap {l \in Line : line[l].safe}
      BY <1>3 DEF Scope, LegacyProperty
    <2> QED BY <1>2, <1>3, <2>1 DEF Covers, LegacyProperty, Association, Kind, BusinessPartner
  <1>4. CASE ~LegacyProperty(w) /\ tenant.strategy = "skipped" /\ Kind(w) = "property"
    <2>1. Scope(w) = {l \in Line : line[l].on /\ line[l].safe}
      BY <1>4 DEF Scope
    <2> QED BY <1>2, <1>4, <2>1 DEF Covers, Association, Kind, BusinessPartner
  <1>5. CASE ~LegacyProperty(w) /\ ~(tenant.strategy = "skipped" /\ Kind(w) = "property")
    <2>1. Scope(w) = {l \in Line : line[l].on}
      BY <1>5 DEF Scope
    <2> QED BY <1>1, <1>5, <2>1 DEF Covers, Association, Kind, BusinessPartner, LegacyProperty
  <1> QED BY <1>3, <1>4, <1>5

LEMMA LineFieldsAre ==
    ASSUME Base, NEW l \in Line
    PROVE  line[l].on \in BOOLEAN /\ line[l].input \in Nat /\ line[l].price \in Int /\ line[l].safe \in BOOLEAN
  BY DEF Base, WebhooksShaped

LEMMA HeldRecord ==
    ASSUME Base, NEW w \in Worker, Executes(w)
    PROVE  /\ worker[w].rec \in DOMAIN record /\ record[worker[w].rec] \in Attempt
           /\ record[worker[w].rec].edit = Edit(w) /\ InFlight(record[worker[w].rec]) /\ worker[w].pc # "idle"
           /\ At(w, "write") \/ At(w, "mark") => record[worker[w].rec].read
           /\ record \in Seq(Attempt)
  <1>1. worker[w].rec \in DOMAIN record /\ record \in Seq(Attempt)
    BY DEF Base, RecordsHeld, WebhooksShaped
  <1>2. record[worker[w].rec] \in Attempt
    BY <1>1, LenProperties, ElementOfSeq
  <1> QED BY <1>1, <1>2 DEF Base, RecordsHeld, SameEvent, Executes, Executing, At

\* The record of an execution is one of its fields changed.
LEMMA HeldChanges ==
    ASSUME Base, NEW w \in Worker, Executes(w), NEW r \in Attempt, record' = [record EXCEPT ![worker[w].rec] = r]
    PROVE  /\ record' \in Seq(Attempt) /\ DOMAIN record' = DOMAIN record /\ record'[worker[w].rec] = r
           /\ \A j \in DOMAIN record : j # worker[w].rec => record'[j] = record[j]
  <1>1. record \in Seq(Attempt) /\ worker[w].rec \in DOMAIN record
    BY HeldRecord
  <1>2. PICK i : i = worker[w].rec
    OBVIOUS
  <1>3. record' = [record EXCEPT ![i] = r] /\ i \in DOMAIN record
    BY <1>1, <1>2
  <1> QED BY <1>1, <1>2, <1>3, Amended

LEMMA HandlerMoves ==
    ASSUME Base, NEW w \in Worker, NEW pc \in HandlerStep, Step(w, pc)
    PROVE  /\ worker' \in [Worker -> [pc : HandlerStep, edit : Nat, rec : Nat, seen : [Line -> Seen]]]
           /\ worker'[w].pc = pc /\ worker'[w].edit = worker[w].edit /\ worker'[w].rec = worker[w].rec
           /\ worker'[w].seen = worker[w].seen
           /\ \A v \in Worker : v # w => worker'[v] = worker[v]
  BY DEF Base, WebhooksShaped, Step

LEMMA LinesStay ==
    ASSUME Base, line' = line, omitted \subseteq omitted'
    PROVE  /\ line' \in [Line -> [on : BOOLEAN, input : Nat, price : Int, safe : BOOLEAN]]
           /\ \A l \in Line : /\ line'[l].on = line[l].on /\ (line[l].safe => line'[l].safe)
                              /\ line'[l].safe => line'[l].on
                              /\ Reached(l) => line'[l].safe \/ l \in omitted'
  BY DEF Base, WebhooksShaped, AssociationsCover, Reached

LEMMA ReadWorks ==
    ASSUME Base, NEW w \in Worker, Read(w)
    PROVE  /\ Works(w, "write") /\ At(w, "read") /\ line' = line /\ lost' = lost /\ omitted \subseteq omitted'
           /\ \A l \in Line :
                 /\ worker'[w].seen[l] # Nothing => worker'[w].seen[l] = line[l].input
                 /\ worker'[w].seen[l] = Nothing => l \in omitted' \/ ~(line[l].on /\ Covers(Edit(w), l))
           /\ \A i \in DOMAIN record : /\ record'[i].edit = record[i].edit /\ record'[i].isSend = record[i].isSend
                                       /\ record'[i].error = record[i].error
  <1>1. worker[w].pc = "read" /\ Executes(w) /\ UNCHANGED <<tenant, line, feed, crashed, raced, lost>>
    BY DEF Read, At, Executes, Executing
  <1>2. PICK r : r = [record[worker[w].rec] EXCEPT !.read = TRUE]
    OBVIOUS
  <1>3. /\ r \in Attempt /\ r.edit = record[worker[w].rec].edit /\ r.isSend = record[worker[w].rec].isSend
        /\ r.error = record[worker[w].rec].error /\ r.read
    BY <1>1, <1>2, HeldRecord DEF Attempt
  <1>4. record' = [record EXCEPT ![worker[w].rec] = r]
    BY <1>2 DEF Read
  <1>5. /\ record' \in Seq(Attempt) /\ DOMAIN record' = DOMAIN record /\ record'[worker[w].rec] = r
        /\ \A j \in DOMAIN record : j # worker[w].rec => record'[j] = record[j]
    BY <1>1, <1>3, <1>4, HeldChanges
  <1>6. PICK out \in SUBSET Line :
           /\ worker' = [worker EXCEPT ![w].pc = "write", ![w].seen = Snapshot(w, Scope(w) \ out)]
           /\ omitted' = omitted \cup out
    BY DEF Read
  <1>7. PICK s : s = Snapshot(w, Scope(w) \ out)
    OBVIOUS
  <1>8. /\ s \in [Line -> Seen]
        /\ \A l \in Line : /\ l \in Scope(w) \ out => s[l] = line[l].input /\ s[l] # Nothing
                           /\ l \notin Scope(w) \ out => s[l] = Nothing
    BY <1>7, LineFieldsAre DEF Snapshot, Nothing, Seen
  <1>9. worker' = [worker EXCEPT ![w].pc = "write", ![w].seen = s]
    BY <1>6, <1>7
  <1>10. /\ worker' \in [Worker -> [pc : HandlerStep, edit : Nat, rec : Nat, seen : [Line -> Seen]]]
         /\ worker'[w].pc = "write" /\ worker'[w].edit = worker[w].edit /\ worker'[w].rec = worker[w].rec
         /\ worker'[w].seen = s /\ \A v \in Worker : v # w => worker'[v] = worker[v]
    BY <1>8, <1>9 DEF Base, WebhooksShaped, HandlerStep, Executing
  <1>11. \A l \in Line : l \in Scope(w) <=> line[l].on /\ Covers(Edit(w), l)
    BY <1>1, ScopeCovers
  <1>12. \A l \in Line : /\ s[l] # Nothing => s[l] = line[l].input /\ line[l].on /\ Covers(Edit(w), l)
                         /\ s[l] = Nothing => l \in omitted' \/ ~(line[l].on /\ Covers(Edit(w), l))
    BY <1>6, <1>8, <1>11
  <1>13. ASSUME Association(Edit(w)), NEW k \in Line, k = feed[Edit(w)].line
         PROVE  s[k] # Nothing \/ k \in omitted'
    <2>1. line[k].on
      BY <1>1, <1>13, Kinds DEF Base, OneAssociation
    <2> QED BY <1>12, <1>13, <2>1 DEF Covers
  <1>14. InFlight(r) /\ ~r.isSend
    BY <1>1, <1>3, HeldRecord DEF InFlight
  <1>15. omitted \subseteq omitted'
    BY <1>6
  <1>16. Works(w, "write")
    BY <1>1, <1>3, <1>5, <1>10, <1>12, <1>13, <1>14, <1>15, LinesStay DEF Works
  <1> QED BY <1>1, <1>3, <1>5, <1>10, <1>12, <1>15, <1>16 DEF At

LEMMA FailWorks ==
    ASSUME Base, NEW w \in Worker, NoBasePrice(w) \/ ExecutionFails(w)
    PROVE  Works(w, "fail") /\ worker[w].pc \in {"read", "write"} /\ line' = line /\ record' = record /\ lost' = lost
         /\ omitted' = omitted
  <1>1. /\ worker[w].pc \in {"read", "write"} /\ Executes(w) /\ Step(w, "fail")
        /\ UNCHANGED <<tenant, line, feed, record, crashed, raced, omitted, lost>>
    BY DEF NoBasePrice, ExecutionFails, At, Executes, Executing
  <1>2. "fail" \in HandlerStep
    BY DEF HandlerStep, Executing
  <1>3. Works(w, "fail")
    BY <1>1, <1>2, HandlerMoves, HeldRecord, LinesStay DEF Works, InFlight
  <1> QED BY <1>1, <1>3

LEMMA MarkWorks ==
    ASSUME Base, NEW w \in Worker, MarkAsSent(w)
    PROVE  /\ Works(w, "ok") /\ At(w, "mark") /\ line' = line /\ lost' = lost /\ omitted' = omitted
           /\ record'[worker[w].rec].isSend /\ record'[worker[w].rec].fresh = record[worker[w].rec].fresh
  <1>1. worker[w].pc = "mark" /\ Executes(w) /\ Step(w, "ok") /\ UNCHANGED <<tenant, line, feed, crashed, raced, omitted, lost>>
    BY DEF MarkAsSent, At, Executes, Executing
  <1>2. PICK r : r = [record[worker[w].rec] EXCEPT !.isSend = TRUE, !.error = FALSE]
    OBVIOUS
  <1>3. /\ r \in Attempt /\ r.edit = record[worker[w].rec].edit /\ r.isSend /\ ~r.error
        /\ r.read = record[worker[w].rec].read /\ r.fresh = record[worker[w].rec].fresh
    BY <1>1, <1>2, HeldRecord DEF Attempt
  <1>4. record' = [record EXCEPT ![worker[w].rec] = r]
    BY <1>2 DEF MarkAsSent
  <1>5. /\ record' \in Seq(Attempt) /\ DOMAIN record' = DOMAIN record /\ record'[worker[w].rec] = r
        /\ \A j \in DOMAIN record : j # worker[w].rec => record'[j] = record[j]
    BY <1>1, <1>3, <1>4, HeldChanges
  <1>6. r.read
    BY <1>1, <1>3, HeldRecord DEF At
  <1>7. ASSUME Association(Edit(w)), NEW k \in Line, k = feed[Edit(w)].line PROVE line'[k].safe \/ k \in omitted'
    BY <1>1, <1>7 DEF Base, AssociationsCover, Association, Kind, Reached, At
  <1>8. "ok" \in HandlerStep
    BY DEF HandlerStep
  <1>9. Works(w, "ok")
    BY <1>1, <1>3, <1>5, <1>6, <1>7, <1>8, HandlerMoves, LinesStay DEF Works, InFlight
  <1> QED BY <1>1, <1>3, <1>5, <1>9 DEF At

LEMMA ErrorWorks ==
    ASSUME Base, NEW w \in Worker, MarkAsError(w)
    PROVE  /\ Works(w, "error") /\ At(w, "fail") /\ line' = line /\ lost' = (lost \/ AnsweredBesides(w)) /\ omitted' = omitted
           /\ record'[worker[w].rec].error /\ ~record'[worker[w].rec].isSend
  <1>1. worker[w].pc = "fail" /\ Executes(w) /\ Step(w, "error") /\ UNCHANGED <<tenant, line, feed, crashed, raced, omitted>>
    BY DEF MarkAsError, At, Executes, Executing
  <1>2. PICK r : r = [record[worker[w].rec] EXCEPT !.isSend = FALSE, !.error = TRUE]
    OBVIOUS
  <1>3. r \in Attempt /\ r.edit = record[worker[w].rec].edit /\ ~r.isSend /\ r.error
    BY <1>1, <1>2, HeldRecord DEF Attempt
  <1>4. record' = [record EXCEPT ![worker[w].rec] = r]
    BY <1>2 DEF MarkAsError, ErrorSaved
  <1>5. /\ record' \in Seq(Attempt) /\ DOMAIN record' = DOMAIN record /\ record'[worker[w].rec] = r
        /\ \A j \in DOMAIN record : j # worker[w].rec => record'[j] = record[j]
    BY <1>1, <1>3, <1>4, HeldChanges
  <1>6. "error" \in HandlerStep
    BY DEF HandlerStep
  <1>7. Works(w, "error")
    BY <1>1, <1>3, <1>5, <1>6, HandlerMoves, LinesStay DEF Works, InFlight
  <1>8. lost' = (lost \/ AnsweredBesides(w))
    BY DEF MarkAsError
  <1> QED BY <1>1, <1>3, <1>5, <1>7, <1>8 DEF At

\* A line an execution writes carries the price of what it read, and a base price.
Settled(w, l) ==
    /\ line'[l].price = worker[w].seen[l] /\ line'[l].on = line[l].on
    /\ line'[l].input = line[l].input \/ line'[l].input = worker[w].seen[l]
    /\ line[l].safe \/ tenant.strategy \notin BusinessPartner \/ Association(Edit(w)) => line'[l].safe
    /\ line'[l].safe => line[l].safe \/ tenant.strategy \notin BusinessPartner \/ Association(Edit(w))

LEMMA LineWritten ==
    ASSUME Base, NEW w \in Worker, Write(w), NEW l \in Line
    PROVE  /\ line'[l] \in [on : BOOLEAN, input : Nat, price : Int, safe : BOOLEAN]
           /\ worker[w].seen[l] = Nothing => line'[l] = line[l] /\ (l \in omitted' <=> l \in omitted)
           /\ worker[w].seen[l] # Nothing => Settled(w, l) \/ (line'[l] = line[l] /\ l \in omitted')
  <1>1. line[l] \in [on : BOOLEAN, input : Nat, price : Int, safe : BOOLEAN]
    BY DEF Base, WebhooksShaped
  <1>2. worker[w].seen[l] \in Nat \cup {Nothing}
    BY DEF Base, WebhooksShaped, Seen
  <1>3. PICK out \in SUBSET Line :
           /\ LeavesOut(w, SeenBy(w), out)
           /\ line' = [k \in Line |-> IF k \in SeenBy(w) \ out THEN WrittenLine(w, k) ELSE line[k]]
           /\ omitted' = (omitted \ SeenBy(w)) \cup out
    BY DEF Write
  <1>4. out \subseteq SeenBy(w)
    BY <1>3 DEF LeavesOut
  <1>5. CASE worker[w].seen[l] = Nothing
    <2>1. l \notin SeenBy(w)
      BY <1>5 DEF SeenBy
    <2> QED BY <1>1, <1>3, <1>4, <1>5, <2>1
  <1>6. CASE worker[w].seen[l] # Nothing /\ l \in out
    BY <1>1, <1>3, <1>6
  <1>7. CASE worker[w].seen[l] # Nothing /\ l \notin out
    <2>1. PICK n \in Nat : n = worker[w].seen[l]
      BY <1>2, <1>7
    <2>2. PICK m \in Nat : m = IF WritesInput THEN n ELSE line[l].input
      BY <1>1
    <2>3. PICK b \in BOOLEAN : b <=> (line[l].safe \/ tenant.strategy \notin BusinessPartner \/ Association(Edit(w)))
      OBVIOUS
    <2>4. (line[l].safe \/ tenant.strategy \notin BusinessPartner \/ Kind(w) = "association") = b
      <3>1. CASE b
        BY <1>1, <2>3, <3>1 DEF Kind, Association
      <3>2. CASE ~b
        BY <1>1, <2>3, <3>2 DEF Kind, Association
      <3> QED BY <3>1, <3>2
    <2>5. line'[l] = WrittenLine(w, l)
      BY <1>3, <1>7 DEF SeenBy
    <2>6. line'[l] = [line[l] EXCEPT !.price = n, !.input = m, !.safe = b]
      BY <2>1, <2>2, <2>4, <2>5 DEF WrittenLine
    <2>7. /\ line'[l] \in [on : BOOLEAN, input : Nat, price : Int, safe : BOOLEAN]
          /\ line'[l].price = n /\ line'[l].on = line[l].on /\ line'[l].input = m /\ line'[l].safe = b
      <3>1. PICK r \in [on : BOOLEAN, input : Nat, price : Int, safe : BOOLEAN] : r = line[l]
        BY <1>1
      <3>2. line'[l] = [on |-> r.on, input |-> m, price |-> n, safe |-> b]
        BY <2>6, <3>1
      <3>3. n \in Int
        BY <2>1
      <3> QED BY <3>1, <3>2, <3>3
    <2> QED BY <1>7, <2>1, <2>2, <2>3, <2>7 DEF Settled
  <1> QED BY <1>5, <1>6, <1>7

LEMMA WriteWorks ==
    ASSUME Base, NEW w \in Worker, Write(w)
    PROVE  Works(w, "mark") /\ At(w, "write") /\ record' = record /\ lost' = lost
  <1>1. worker[w].pc = "write" /\ Executes(w) /\ Step(w, "mark")
        /\ UNCHANGED <<tenant, record, feed, crashed, raced, lost>>
    BY DEF Write, At, Executes, Executing
  <1>2. "mark" \in HandlerStep
    BY DEF HandlerStep, Executing
  <1>3. line' \in [Line -> [on : BOOLEAN, input : Nat, price : Int, safe : BOOLEAN]]
    <2>1. line' = [l \in Line |-> line'[l]]
      BY DEF Write
    <2> QED BY <2>1, LineWritten
  <1>4. \A l \in Line : line[l].safe => line[l].on
    BY DEF Base, AssociationsCover
  <1>5. \A l \in Line : worker[w].seen[l] # Nothing => line[l].on /\ Covers(Edit(w), l)
    BY <1>1 DEF Base, AssociationsCover, At
  <1>6. \A l \in Line : /\ line'[l].on = line[l].on /\ (line[l].safe => line'[l].safe)
                        /\ line'[l].safe => line'[l].on
    BY <1>4, <1>5, LineWritten DEF Settled
  <1>7. \A l \in Line : worker[w].seen[l] # Nothing => line'[l].safe \/ l \in omitted'
    BY <1>5, LineWritten DEF Settled, Covers
  <1>8. \A l \in Line : Reached(l) => line'[l].safe \/ l \in omitted'
    BY <1>7, LineWritten DEF Reached
  <1>9. ASSUME Association(Edit(w)), NEW k \in Line, k = feed[Edit(w)].line PROVE line'[k].safe \/ k \in omitted'
    <2>1. worker[w].seen[k] # Nothing \/ Reached(k)
      BY <1>1, <1>9 DEF Base, AssociationsCover, Association, Kind, At
    <2> QED BY <1>7, <1>8, <2>1
  <1>10. Works(w, "mark")
    BY <1>1, <1>2, <1>3, <1>6, <1>8, <1>9, HandlerMoves, HeldRecord DEF Works, InFlight, At
  <1> QED BY <1>1, <1>10 DEF At

-----------------------------------------------------------------------------
\* Deliveries and answers close no event that is open.
LEMMA HearingHears ==
    ASSUME Base, NEW w \in Worker, Answer(w) \/ \E e \in DOMAIN feed : Deliver(w, e)
    PROVE  Hears(w) /\ \A e \in DOMAIN feed : Open(e) => Open(e)'
  <1>1. PICK e \in DOMAIN feed, n \in Int, b \in BOOLEAN, h \in HandlerStep, k \in Nat :
           /\ feed' = [feed EXCEPT ![e].left = n, ![e].acked = b]
           /\ worker' = [worker EXCEPT ![w] = [Idle EXCEPT !.pc = h, !.edit = k]]
           /\ h \in {"idle", "guard"} /\ (h = "guard" => k = e)
           /\ b => feed[e].acked \/ (At(w, "ok") /\ Edit(w) = e)
           /\ ~Executes(w) /\ UNCHANGED <<tenant, line, record, crashed, raced, omitted, lost>>
    <2>1. CASE Answer(w)
      <3>1. worker[w].pc \in {"ok", "error"} /\ worker[w].pc # "idle"
        BY <2>1 DEF Answer
      <3>2. Edit(w) \in DOMAIN feed /\ feed[Edit(w)] \in FeedEvent
        BY <3>1, Kinds, EventLines
      <3>3. PICK b \in BOOLEAN : b <=> (feed[Edit(w)].acked \/ At(w, "ok"))
        OBVIOUS
      <3>4. PICK n \in Int : n = feed[Edit(w)].left
        BY <3>2 DEF FeedEvent
      <3>5. (feed[Edit(w)].acked \/ At(w, "ok")) = b
        <4>1. CASE b
          BY <3>3, <4>1
        <4>2. CASE ~b
          BY <3>3, <4>2
        <4> QED BY <4>1, <4>2
      <3>6. feed' = [feed EXCEPT ![Edit(w)].left = n, ![Edit(w)].acked = b]
        <4>1. feed' = [feed EXCEPT ![Edit(w)].acked = b]
          BY <2>1, <3>5 DEF Answer
        <4>2. [feed[Edit(w)] EXCEPT !.acked = b] = [[feed[Edit(w)] EXCEPT !.left = n] EXCEPT !.acked = b]
          BY <3>2, <3>4 DEF FeedEvent
        <4> QED BY <3>2, <4>1, <4>2
      <3>7. worker' = [worker EXCEPT ![w] = [Idle EXCEPT !.pc = "idle", !.edit = 0]]
        BY <2>1 DEF Answer, Idle
      <3>8. ~Executes(w) /\ UNCHANGED <<tenant, line, record, crashed, raced, omitted, lost>>
        BY <2>1, <3>1 DEF Answer, Executes, Executing
      <3>9. "idle" \in HandlerStep /\ 0 \in Nat
        BY DEF HandlerStep
      <3> QED BY <3>2, <3>3, <3>6, <3>7, <3>8, <3>9
    <2>2. ASSUME NEW e \in DOMAIN feed, Deliver(w, e)
          PROVE  \E n \in Int : /\ feed' = [feed EXCEPT ![e].left = n, ![e].acked = FALSE]
                                /\ ~feed[e].acked
      <3>1. feed[e] \in FeedEvent /\ ~feed[e].acked /\ feed' = [feed EXCEPT ![e].left = @ - 1]
        BY <2>2, EventLines DEF Deliver
      <3>2. PICK n \in Int : n = feed[e].left - 1
        BY <3>1 DEF FeedEvent
      <3>3. [feed[e] EXCEPT !.left = n] = [[feed[e] EXCEPT !.left = n] EXCEPT !.acked = FALSE]
        BY <3>1, <3>2 DEF FeedEvent
      <3> QED BY <3>1, <3>2, <3>3
    <2>3. CASE \E e \in DOMAIN feed : Deliver(w, e)
      <3>1. PICK e \in DOMAIN feed : Deliver(w, e)
        BY <2>3
      <3>2. PICK n \in Int : feed' = [feed EXCEPT ![e].left = n, ![e].acked = FALSE] /\ ~feed[e].acked
        BY <2>2, <3>1
      <3>3. worker' = [worker EXCEPT ![w] = [Idle EXCEPT !.pc = "guard", !.edit = e]]
            /\ ~Executes(w) /\ UNCHANGED <<tenant, line, record, crashed, raced, omitted, lost>>
        BY <3>1 DEF Deliver, Executes, Executing, At
      <3>4. e \in Nat /\ "guard" \in HandlerStep
        <4>1. feed \in Seq(FeedEvent)
          BY DEF Base, WebhooksShaped
        <4> QED BY <4>1, LenProperties DEF HandlerStep
      <3> QED BY <3>2, <3>3, <3>4
    <2> QED BY <2>1, <2>3
  <1>2. feed \in Seq(FeedEvent) /\ feed[e] \in FeedEvent
    BY EventLines DEF Base, WebhooksShaped
  <1>3. PICK ev : ev = [[feed[e] EXCEPT !.left = n] EXCEPT !.acked = b]
    OBVIOUS
  <1>4. ev \in FeedEvent /\ ev.kind = feed[e].kind /\ ev.line = feed[e].line /\ ev.acked = b
    BY <1>2, <1>3 DEF FeedEvent
  <1>5. feed' = [feed EXCEPT ![e] = ev]
    BY <1>1, <1>3
  <1>6. feed' \in Seq(FeedEvent) /\ DOMAIN feed' = DOMAIN feed /\ feed'[e] = ev
        /\ \A d \in DOMAIN feed : d # e => feed'[d] = feed[d]
    BY <1>2, <1>4, <1>5, Amended
  <1>7. PICK s : s = [Idle EXCEPT !.pc = h, !.edit = k]
    OBVIOUS
  <1>8. s \in [pc : HandlerStep, edit : Nat, rec : Nat, seen : [Line -> Seen]] /\ s.pc = h /\ s.edit = k
    <2>1. NoSnapshot \in [Line -> Seen]
      BY DEF NoSnapshot, Nothing, Seen
    <2> QED BY <1>7, <2>1 DEF Idle
  <1>9. worker' = [worker EXCEPT ![w] = s]
    BY <1>1, <1>7
  <1>10. /\ worker' \in [Worker -> [pc : HandlerStep, edit : Nat, rec : Nat, seen : [Line -> Seen]]]
         /\ worker'[w] = s /\ \A v \in Worker : v # w => worker'[v] = worker[v]
    BY <1>8, <1>9 DEF Base, WebhooksShaped
  <1>11. Hears(w)
    BY <1>1, <1>4, <1>6, <1>8, <1>10 DEF Hears
  <1>12. ASSUME NEW d \in DOMAIN feed, Open(d) PROVE Open(d)'
    <2>1. ~feed'[d].acked
      <3>1. CASE d = e
        BY <1>1, <1>4, <1>6, <1>12, <3>1 DEF Open
      <3>2. CASE d # e
        BY <1>6, <1>12, <3>2 DEF Open
      <3> QED BY <3>1, <3>2
    <2>2. \A v \in Worker : ~(At(v, "ok")' /\ Edit(v)' = d)
      BY <1>1, <1>8, <1>10, <1>12 DEF Open, At, Edit
    <2> QED BY <1>1, <1>12, <2>1, <2>2 DEF Open
  <1> QED BY <1>11, <1>12

-----------------------------------------------------------------------------
(* Who sees to a line that is dirty.                                        *)

DueParts == DirtyIsDue /\ SilenceIsDeserved /\ AssociationIsDue

LEMMA PricesStart == Init => PricesInv
  <1> SUFFICES ASSUME Init PROVE PricesInv
    OBVIOUS
  <1>1. Base
    BY BaseStarts
  <1>2. PICK l \in Line :
           /\ line = [k \in Line |-> [on |-> k = l, input |-> 0, price |-> IF k = l THEN 0 ELSE Nothing, safe |-> k = l]]
           /\ feed = <<[kind |-> "association", line |-> l, left |-> 0, acked |-> TRUE]>>
    BY DEF Init
  <1>3. \A k \in Line : line[k].on = (k = l) /\ line[k].input = 0 /\ line[k].safe = (k = l) /\ (k = l => line[k].price = 0)
    BY <1>2
  <1>4. DOMAIN feed = {1} /\ feed[1].kind = "association" /\ feed[1].line = l
    BY <1>2
  <1>5. \A w \in Worker : worker[w].pc = "idle"
    BY DEF Init, Idle
  <1>6. DOMAIN record = {1} /\ record[1].isSend /\ record[1].edit = 1 /\ ~record[1].fresh
    <2>1. record = <<[Document(1, TRUE, FALSE) EXCEPT !.isSend = TRUE, !.fresh = FALSE, !.read = TRUE]>>
      BY DEF Init
    <2> DEFINE first == [Document(1, TRUE, FALSE) EXCEPT !.isSend = TRUE, !.fresh = FALSE, !.read = TRUE]
    <2>2. first.isSend /\ first.edit = 1 /\ ~first.fresh
      BY DEF Document
    <2> HIDE DEF first
    <2>3. record = <<first>>
      BY <2>1 DEF first
    <2> QED BY <2>2, <2>3
  <1>7. InputsKnown
    BY <1>3, <1>4, <1>5 DEF InputsKnown, LastEdit, At, Dirty
  <1>8. DirtyIsDue
    BY <1>3 DEF DirtyIsDue, Dirty
  <1>9. SilenceIsDeserved
    BY <1>6 DEF SilenceIsDeserved, Silences
  <1>10. AssociationIsDue
    BY <1>4, <1>6 DEF AssociationIsDue, SameEvent
  <1> QED BY <1>1, <1>7, <1>8, <1>9, <1>10 DEF PricesInv

\* A step of a handler outside executions, which hides no open event that is not excused.
LEMMA WalkKeepsDue ==
    ASSUME Base, NEW w \in Worker, NEW pc, Walks(w, pc), DueParts, pc = "ok" => Excused(w)
    PROVE  DueParts'
  <1>1. line' = line /\ tenant' = tenant /\ feed' = feed /\ worker'[w].pc = pc
        /\ \A v \in Worker : v # w => worker'[v] = worker[v]
    BY WalkMoves
  <1>2. \A v \in Worker : Executes(v)' = Executes(v) /\ Edit(v)' = Edit(v) /\ (Executes(v) => v # w)
    BY WalkMoves
  <1>3. \A l : Dirty(l)' = Dirty(l)
    BY <1>1 DEF Dirty, Walks
  <1>4. \A e, l : Covers(e, l)' = Covers(e, l)
    BY <1>1 DEF Covers, Association
  <1>5. \A v \in Worker : \A l : WillPrice(v, l) => WillPrice(v, l)' /\ Executes(v) /\ v # w
    <2>1. ASSUME NEW v \in Worker, NEW l, WillPrice(v, l) PROVE WillPrice(v, l)' /\ Executes(v) /\ v # w
      <3>1. Executes(v)
        BY <2>1 DEF WillPrice, Executes, Executing, At
      <3>2. worker'[v] = worker[v] /\ Edit(v)' = Edit(v) /\ v # w
        BY <1>1, <1>2, <3>1
      <3> QED BY <1>4, <2>1, <3>1, <3>2 DEF WillPrice, At
    <2> QED BY <2>1
  <1>6. \A i \in DOMAIN record' : Repeats(record'[i]) => i \in DOMAIN record /\ record'[i] = record[i]
    BY DEF Walks, Grown, Repeats
  <1>7. \A e \in DOMAIN feed : Open(e) /\ ~(pc = "ok" /\ e = Edit(w)) => Open(e)'
    <2>1. ASSUME NEW e \in DOMAIN feed, Open(e), ~(pc = "ok" /\ e = Edit(w)) PROVE Open(e)'
      <3>1. \A v \in Worker : ~(At(v, "ok")' /\ Edit(v)' = e)
        BY <1>1, <1>2, <2>1 DEF Open, At
      <3>2. \A i \in DOMAIN record' : SameEvent(record'[i], e) => ~Repeats(record'[i])
        BY <1>6, <2>1 DEF Open
      <3> QED BY <1>1, <2>1, <3>1, <3>2 DEF Open
    <2> QED BY <2>1
  <1>8. DirtyIsDue'
    <2>1. ASSUME NEW l \in Line, Dirty(l)' PROVE Due(l)'
      <3>1. Dirty(l) /\ Due(l)
        BY <1>3, <2>1 DEF DueParts, DirtyIsDue
      <3>2. CASE \E v \in Worker : WillPrice(v, l)
        BY <1>5, <3>2 DEF Due
      <3>3. CASE \E e \in DOMAIN feed : e # Edit(w) /\ Open(e) /\ Covers(e, l)
        BY <1>1, <1>4, <1>7, <3>3 DEF Due
      <3>4. CASE Open(Edit(w)) /\ Covers(Edit(w), l) /\ Edit(w) \in DOMAIN feed
        <4>1. CASE pc = "ok"
          BY <3>1, <3>2, <3>3, <3>4, <4>1 DEF Excused
        <4>2. CASE pc # "ok"
          BY <1>1, <1>4, <1>7, <3>4, <4>2 DEF Due
        <4> QED BY <4>1, <4>2
      <3> QED BY <3>1, <3>2, <3>3, <3>4 DEF Due
    <2> QED BY <2>1 DEF DirtyIsDue
  <1>9. SilenceIsDeserved'
    <2>1. ASSUME NEW i \in DOMAIN record', Silences(record[i])', NEW l \in Line
          PROVE  \/ ~Dirty(l)'
                 \/ tenant'.strategy = "skipped" /\ ~line'[l].safe
                 \/ \E v \in Worker : Executes(v)' /\ worker'[v].rec = i /\ WillPrice(v, l)'
      <3>1. i \in DOMAIN record /\ record'[i] = record[i]
        BY <1>6, <2>1 DEF Silences, Repeats
      <3>2. Silences(record[i])
        BY <1>1, <2>1, <3>1 DEF Silences
      <3> QED BY <1>1, <1>2, <1>3, <1>5, <3>1, <3>2 DEF DueParts, SilenceIsDeserved
    <2> QED BY <2>1 DEF SilenceIsDeserved
  <1>10. AssociationIsDue'
    <2>1. ASSUME tenant.strategy \in BusinessPartner, NEW e \in DOMAIN feed, Association(e)
          PROVE  \/ Open(e)'
                 \/ \E i \in DOMAIN record' : SameEvent(record'[i], e) /\ record'[i].isSend
                 \/ \E v \in Worker : /\ Executes(v)' /\ Edit(v)' = e
                                      /\ At(v, "mark")' /\ tenant.strategy = "legacy" => ~Dirty(feed[e].line)'
      <3>1. CASE Open(e)
        BY <1>7, <2>1, <3>1 DEF Excused
      <3>2. CASE \E i \in DOMAIN record : SameEvent(record[i], e) /\ record[i].isSend
        BY <3>2 DEF Walks, Grown
      <3>3. CASE \E v \in Worker : /\ Executes(v) /\ Edit(v) = e
                                   /\ At(v, "mark") /\ tenant.strategy = "legacy" => ~Dirty(feed[e].line)
        BY <1>1, <1>2, <1>3, <3>3 DEF At
      <3> QED BY <2>1, <3>1, <3>2, <3>3 DEF DueParts, AssociationIsDue
    <2> QED BY <1>1, <2>1 DEF AssociationIsDue, Association
  <1> QED BY <1>8, <1>9, <1>10 DEF DueParts

LEMMA WalkKeepsInputs ==
    ASSUME Base, NEW w \in Worker, NEW pc, Walks(w, pc), InputsKnown
    PROVE  InputsKnown'
  <1>1. line' = line /\ tenant' = tenant /\ feed' = feed /\ worker'[w].pc = pc
        /\ \A v \in Worker : v # w => worker'[v] = worker[v]
    BY WalkMoves
  <1>2. \A v \in Worker : Edit(v)' = Edit(v) /\ (At(v, "write")' => v # w /\ At(v, "write"))
    BY <1>1, WalkMoves DEF Walks, Waiting, At
  <1>3. \A l : Dirty(l)' = Dirty(l)
    BY <1>1 DEF Dirty, Walks
  <1>4. raced' = raced
    BY DEF Walks
  <1> QED BY <1>1, <1>2, <1>3, <1>4 DEF InputsKnown, LastEdit, Association

LEMMA PassKeepsPrices ==
    ASSUME PricesInv, NEW w \in Worker, Passes(w)
    PROVE  PricesInv'
  <1>1. PICK pc \in Waiting : Walks(w, pc) /\ (pc = "ok" /\ Calm /\ InputsKnown /\ AssociationIsDue /\ SilenceIsDeserved => Excused(w))
    BY DEF Passes
  <1>2. Base /\ Base'
    BY <1>1, WalkKeepsBase DEF PricesInv
  <1>3. InputsKnown'
    BY <1>1, <1>2, WalkKeepsInputs DEF PricesInv
  <1>4. Calm' => Calm
    BY <1>1 DEF Calm, Walks
  <1>5. Calm => DueParts'
    BY <1>1, <1>2, WalkKeepsDue DEF PricesInv, DueParts
  <1> QED BY <1>2, <1>3, <1>4, <1>5 DEF PricesInv, DueParts

\* Taking up a record closes the handler's own event, and puts the handler in its place.
LEMMA StartKeepsDue ==
    ASSUME Base, NEW w \in Worker, NEW i, Starts(w, i), DueParts
    PROVE  DueParts'
  <1>1. line' = line /\ tenant' = tenant /\ feed' = feed /\ worker'[w].pc = "read" /\ worker'[w].rec = i
        /\ \A v \in Worker : v # w => worker'[v] = worker[v]
    BY StartMoves
  <1>2. ~Executes(w) /\ Executes(w)'
        /\ \A v \in Worker : Edit(v)' = Edit(v) /\ (Executes(v) => Executes(v)' /\ v # w)
    BY StartMoves
  <1>3. \A l : Dirty(l)' = Dirty(l)
    BY <1>1 DEF Dirty, Starts
  <1>4. \A e, l : Covers(e, l)' = Covers(e, l)
    BY <1>1 DEF Covers, Association
  <1>5. \A v \in Worker : \A l : WillPrice(v, l) => WillPrice(v, l)' /\ Executes(v) /\ v # w
    <2>1. ASSUME NEW v \in Worker, NEW l, WillPrice(v, l) PROVE WillPrice(v, l)' /\ Executes(v) /\ v # w
      <3>1. Executes(v)
        BY <2>1 DEF WillPrice, Executes, Executing, At
      <3>2. worker'[v] = worker[v] /\ Edit(v)' = Edit(v) /\ v # w
        BY <1>1, <1>2, <3>1
      <3> QED BY <1>4, <2>1, <3>1, <3>2 DEF WillPrice, At
    <2> QED BY <2>1
  <1>6. \A l : Covers(Edit(w), l) => WillPrice(w, l)'
    BY <1>1, <1>2, <1>4 DEF WillPrice
  <1>7. \A e \in DOMAIN feed : Open(e) /\ e # Edit(w) => Open(e)'
    <2>1. ASSUME NEW e \in DOMAIN feed, Open(e), e # Edit(w) PROVE Open(e)'
      <3>1. \A v \in Worker : ~(At(v, "ok")' /\ Edit(v)' = e)
        BY <1>1, <1>2, <2>1 DEF Open, At
      <3>2. \A j \in DOMAIN record' : SameEvent(record'[j], e) => ~Repeats(record'[j])
        BY <2>1 DEF Open, Starts, SameEvent
      <3> QED BY <1>1, <2>1, <3>1, <3>2 DEF Open
    <2> QED BY <2>1
  <1>8. DirtyIsDue'
    <2>1. ASSUME NEW l \in Line, Dirty(l)' PROVE Due(l)'
      <3>1. Due(l)
        BY <1>3, <2>1 DEF DueParts, DirtyIsDue
      <3>2. CASE \E v \in Worker : WillPrice(v, l)
        BY <1>5, <3>2 DEF Due
      <3>3. CASE \E e \in DOMAIN feed : Open(e) /\ Covers(e, l)
        BY <1>1, <1>4, <1>6, <1>7, <3>3 DEF Due
      <3> QED BY <3>1, <3>2, <3>3 DEF Due
    <2> QED BY <2>1 DEF DirtyIsDue
  <1>9. SilenceIsDeserved'
    <2>1. ASSUME NEW j \in DOMAIN record', Silences(record[j])', NEW l \in Line
          PROVE  \/ ~Dirty(l)'
                 \/ tenant'.strategy = "skipped" /\ ~line'[l].safe
                 \/ \E v \in Worker : Executes(v)' /\ worker'[v].rec = j /\ WillPrice(v, l)'
      <3>1. j # i /\ j \in DOMAIN record /\ record'[j] = record[j]
        BY <2>1 DEF Silences, Starts
      <3>2. Silences(record[j])
        BY <1>1, <2>1, <3>1 DEF Silences
      <3> QED BY <1>1, <1>2, <1>3, <1>5, <3>1, <3>2 DEF DueParts, SilenceIsDeserved
    <2> QED BY <2>1 DEF SilenceIsDeserved
  <1>10. AssociationIsDue'
    <2>1. ASSUME tenant.strategy \in BusinessPartner, NEW e \in DOMAIN feed, Association(e)
          PROVE  \/ Open(e)'
                 \/ \E j \in DOMAIN record' : SameEvent(record'[j], e) /\ record'[j].isSend
                 \/ \E v \in Worker : /\ Executes(v)' /\ Edit(v)' = e
                                      /\ At(v, "mark")' /\ tenant.strategy = "legacy" => ~Dirty(feed[e].line)'
      <3>1. CASE Open(e)
        BY <1>1, <1>2, <1>7, <3>1 DEF At
      <3>2. CASE \E j \in DOMAIN record : SameEvent(record[j], e) /\ record[j].isSend
        <4>1. PICK j \in DOMAIN record : SameEvent(record[j], e) /\ record[j].isSend
          BY <3>2
        <4>2. record'[j] = record[j] /\ j \in DOMAIN record'
          BY <4>1 DEF Starts
        <4> QED BY <4>1, <4>2
      <3>3. CASE \E v \in Worker : /\ Executes(v) /\ Edit(v) = e
                                   /\ At(v, "mark") /\ tenant.strategy = "legacy" => ~Dirty(feed[e].line)
        BY <1>1, <1>2, <1>3, <3>3 DEF At
      <3> QED BY <2>1, <3>1, <3>2, <3>3 DEF DueParts, AssociationIsDue
    <2> QED BY <1>1, <2>1 DEF AssociationIsDue, Association
  <1> QED BY <1>8, <1>9, <1>10 DEF DueParts

LEMMA StartKeepsPrices ==
    ASSUME PricesInv, NEW w \in Worker, NEW i, Starts(w, i)
    PROVE  PricesInv'
  <1>1. Base /\ Base'
    BY StartKeepsBase DEF PricesInv
  <1>2. line' = line /\ tenant' = tenant /\ feed' = feed /\ worker'[w].pc = "read"
        /\ \A v \in Worker : v # w => worker'[v] = worker[v]
    BY <1>1, StartMoves
  <1>3. \A v \in Worker : Edit(v)' = Edit(v) /\ (At(v, "write")' => v # w /\ At(v, "write"))
    BY <1>1, <1>2, StartMoves DEF At
  <1>4. InputsKnown'
    <2>1. (\A l : Dirty(l)' = Dirty(l)) /\ raced' = raced
      BY <1>2 DEF Dirty, Starts
    <2>2. \A v \in Worker : At(v, "write")' => worker'[v] = worker[v] /\ Edit(v)' = Edit(v) /\ At(v, "write")
      BY <1>2, <1>3
    <2>3. InputsKnown
      BY DEF PricesInv
    <2> QED BY <1>2, <2>1, <2>2, <2>3 DEF InputsKnown, LastEdit, Association
  <1>5. Calm' = Calm
    BY DEF Starts, Calm
  <1>6. Calm => DueParts'
    BY <1>1, StartKeepsDue DEF PricesInv, DueParts
  <1> QED BY <1>1, <1>4, <1>5, <1>6 DEF PricesInv, DueParts

LEMMA HearKeepsPrices ==
    ASSUME PricesInv, NEW w \in Worker, Hears(w), \A e \in DOMAIN feed : Open(e) => Open(e)'
    PROVE  PricesInv'
  <1>1. Base /\ Base'
    BY HearKeepsBase DEF PricesInv
  <1>2. /\ record' = record /\ line' = line /\ tenant' = tenant /\ raced' = raced /\ omitted' = omitted /\ Calm' = Calm
        /\ DOMAIN feed' = DOMAIN feed
        /\ \A e \in DOMAIN feed : feed'[e].kind = feed[e].kind /\ feed'[e].line = feed[e].line
        /\ \A v \in Worker : v # w => worker'[v] = worker[v]
        /\ worker'[w].pc \in {"idle", "guard"}
    BY DEF Hears, Calm
  <1>3. ~Executes(w) /\ ~Executes(w)'
    BY <1>2 DEF Hears, Executes, Executing
  <1>4. \A v \in Worker : Executes(v) => v # w /\ Executes(v)' /\ worker'[v] = worker[v] /\ Edit(v)' = Edit(v) /\ Edit(v) \in DOMAIN feed
    BY <1>1, <1>2, <1>3 DEF Edit, Executes, Executing, Base, WebhooksShaped
  <1>5. \A e \in DOMAIN feed, l \in Line : Covers(e, l)' = Covers(e, l)
    BY <1>2 DEF Covers, Association
  <1>6. \A v \in Worker, l \in Line : WillPrice(v, l) => Executes(v) /\ WillPrice(v, l)'
    <2>1. ASSUME NEW v \in Worker, NEW l \in Line, WillPrice(v, l) PROVE Executes(v) /\ WillPrice(v, l)'
      <3>1. Executes(v)
        BY <2>1 DEF WillPrice, Executes, Executing, At
      <3> QED BY <1>4, <1>5, <2>1, <3>1 DEF WillPrice, At
    <2> QED BY <2>1
  <1>7. InputsKnown => InputsKnown'
    <2>1. \A v \in Worker : At(v, "write")' => v # w /\ At(v, "write") /\ Executes(v)
      BY <1>2, <1>3 DEF At, Executes, Executing
    <2>2. \A l \in Line : \A n : LastEdit(l, n)' = LastEdit(l, n)
      BY <1>2 DEF LastEdit
    <2>3. \A l \in Line : Dirty(l)' = Dirty(l)
      BY <1>2 DEF Dirty
    <2>4. \A v \in Worker : Executes(v) => Association(Edit(v))' = Association(Edit(v))
      BY <1>2, <1>4 DEF Association
    <2> QED BY <1>2, <1>4, <2>1, <2>2, <2>3, <2>4 DEF InputsKnown
  <1>8. ASSUME DueParts PROVE DueParts'
    <2>1. \A l \in Line : Dirty(l)' = Dirty(l)
      BY <1>2 DEF Dirty
    <2>2. DirtyIsDue'
      <3>1. \A l \in Line : Due(l) => Due(l)'
        BY <1>2, <1>5, <1>6 DEF Due
      <3> QED BY <1>8, <2>1, <3>1 DEF DueParts, DirtyIsDue
    <2>3. SilenceIsDeserved'
      <3>1. \A i \in DOMAIN record : record[i].edit \in DOMAIN feed
        BY <1>1 DEF Base, WebhooksShaped
      <3>2. \A i \in DOMAIN record : Silences(record[i])' => Silences(record[i])
        BY <1>2, <3>1 DEF Silences
      <3>3. ASSUME NEW i \in DOMAIN record', Silences(record[i])', NEW l \in Line
            PROVE  \/ ~Dirty(l)'
                   \/ tenant'.strategy = "skipped" /\ ~line'[l].safe
                   \/ \E v \in Worker : Executes(v)' /\ worker'[v].rec = i /\ WillPrice(v, l)'
        BY <1>2, <1>4, <1>6, <1>8, <2>1, <3>2, <3>3 DEF DueParts, SilenceIsDeserved
      <3> QED BY <3>3 DEF SilenceIsDeserved
    <2>4. AssociationIsDue'
      <3>1. ASSUME tenant.strategy \in BusinessPartner, NEW e \in DOMAIN feed, Association(e)
            PROVE  \/ Open(e)'
                   \/ \E j \in DOMAIN record' : SameEvent(record'[j], e) /\ record'[j].isSend
                   \/ \E v \in Worker : /\ Executes(v)' /\ Edit(v)' = e
                                        /\ At(v, "mark")' /\ tenant.strategy = "legacy" => ~Dirty(feed[e].line)'
        <4>1. feed[e].line \in Line
          BY <1>1, EventLines
        <4> QED BY <1>2, <1>4, <1>8, <2>1, <3>1, <4>1 DEF DueParts, AssociationIsDue, At
      <3>2. \A e \in DOMAIN feed : feed'[e].line = feed[e].line /\ Association(e)' = Association(e)
        BY <1>2 DEF Association
      <3>3. ASSUME tenant'.strategy \in BusinessPartner, NEW e \in DOMAIN feed', Association(e)'
            PROVE  \/ Open(e)'
                   \/ \E j \in DOMAIN record' : SameEvent(record'[j], e) /\ record'[j].isSend
                   \/ \E v \in Worker : /\ Executes(v)' /\ Edit(v)' = e
                                        /\ At(v, "mark")' /\ tenant'.strategy = "legacy" => ~Dirty(feed[e].line)'
        BY <1>2, <3>1, <3>2, <3>3
      <3> QED BY <3>3 DEF AssociationIsDue
    <2> QED BY <2>2, <2>3, <2>4 DEF DueParts
  <1> QED BY <1>1, <1>2, <1>7, <1>8 DEF PricesInv, DueParts

LEMMA AgeKeepsPrices ==
    ASSUME PricesInv, Ages
    PROVE  PricesInv'
  <1>1. Base /\ Base'
    BY AgeKeepsBase DEF PricesInv
  <1>2. /\ DOMAIN record' = DOMAIN record /\ worker' = worker /\ feed' = feed /\ line' = line
        /\ tenant' = tenant /\ raced' = raced /\ omitted' = omitted /\ Calm' = Calm
        /\ \A i \in DOMAIN record :
              /\ record'[i].edit = record[i].edit /\ record'[i].isSend = record[i].isSend
              /\ record'[i].error = record[i].error /\ record'[i].read = record[i].read
              /\ record'[i].fresh => record[i].fresh
    BY DEF Ages, Calm
  <1>3. InputsKnown' = InputsKnown
    BY <1>2 DEF InputsKnown, LastEdit, Association, At, Edit, Dirty
  <1>4. \A l : Dirty(l)' = Dirty(l)
    BY <1>2 DEF Dirty
  <1>5. \A w, l : WillPrice(w, l)' = WillPrice(w, l)
    BY <1>2 DEF WillPrice, Covers, Association, At, Edit
  <1>6. \A e : Open(e)' = Open(e)
    BY <1>2 DEF Open, At, Edit, SameEvent, Repeats
  <1>7. DirtyIsDue => DirtyIsDue'
    BY <1>2, <1>4, <1>5, <1>6 DEF DirtyIsDue, Due, Covers, Association
  <1>8. SilenceIsDeserved => SilenceIsDeserved'
    <2>1. \A i \in DOMAIN record : Silences(record[i])' => Silences(record[i])
      BY <1>2 DEF Silences
    <2>2. \A w \in Worker : Executes(w)' = Executes(w)
      BY <1>2 DEF Executes
    <2> QED BY <1>2, <1>4, <1>5, <2>1, <2>2 DEF SilenceIsDeserved
  <1>9. AssociationIsDue => AssociationIsDue'
    <2>1. \A w \in Worker : Executes(w)' = Executes(w) /\ Edit(w)' = Edit(w)
      BY <1>2 DEF Executes, Edit
    <2> QED BY <1>2, <1>4, <1>6, <2>1 DEF AssociationIsDue, Association, At, SameEvent
  <1> QED BY <1>1, <1>2, <1>3, <1>7, <1>8, <1>9 DEF PricesInv

LEMMA CrashKeepsPrices ==
    ASSUME PricesInv, Crash
    PROVE  PricesInv'
  <1>1. Base'
    BY CrashKeepsBase DEF PricesInv
  <1>2. worker' = [w \in Worker |-> Idle] /\ crashed' = TRUE /\ feed' = feed /\ line' = line
        /\ tenant' = tenant /\ raced' = raced
    BY DEF Crash
  <1>3. \A w \in Worker : ~At(w, "write")'
    BY <1>2 DEF At, Idle
  <1>4. InputsKnown'
    BY <1>2, <1>3 DEF PricesInv, InputsKnown, LastEdit
  <1> QED BY <1>1, <1>2, <1>4 DEF PricesInv, Calm

\* The steps of an execution have this in common: what another handler does, the events, and
\* the records but its own stay; its own keeps its event, and what is dirty was.
Moves(w) ==
    /\ tenant' = tenant /\ feed' = feed /\ DOMAIN record' = DOMAIN record
    /\ \A v \in Worker : v # w => worker'[v] = worker[v]
    /\ \A v \in Worker : Edit(v)' = Edit(v) /\ worker'[v].rec = worker[v].rec
    /\ \A v \in Worker : v # w /\ Executes(v) => Executes(v)' /\ worker[v].rec # worker[w].rec
    /\ \A j \in DOMAIN record : j # worker[w].rec => record'[j] = record[j]
    /\ record'[worker[w].rec].edit = Edit(w) /\ record[worker[w].rec].edit = Edit(w)
    /\ worker[w].rec \in DOMAIN record /\ InFlight(record[worker[w].rec]) /\ Executes(w)
    /\ \A l \in Line : Dirty(l)' => Dirty(l) /\ line'[l].safe = line[l].safe
    /\ \A l \in Line : Dirty(l)' /\ WillPrice(w, l) => WillPrice(w, l)' \/ (Open(Edit(w)) /\ Covers(Edit(w), l))'

LEMMA WorkDirties ==
    ASSUME Base, NEW w \in Worker, NEW pc, Works(w, pc), line' = line, omitted \subseteq omitted'
    PROVE  \A l \in Line : Dirty(l)' => Dirty(l) /\ line'[l].safe = line[l].safe
  <1>1. raced' = raced
    BY DEF Works
  <1> QED BY <1>1 DEF Dirty

\* What the executions of others are about to write stays known.
LEMMA WorkKeepsInputs ==
    ASSUME Base, InputsKnown, NEW w \in Worker, NEW pc, Works(w, pc), pc # "write",
           \A l \in Line : (Dirty(l)' => Dirty(l)) /\ (l \notin raced => line'[l].input = line[l].input)
    PROVE  InputsKnown'
  <1>1. raced' = raced /\ feed' = feed /\ tenant' = tenant /\ worker'[w].pc = pc
        /\ \A v \in Worker : v # w => worker'[v] = worker[v]
    BY DEF Works
  <1>2. \A v \in Worker : At(v, "write")' => v # w /\ At(v, "write") /\ worker'[v] = worker[v]
    BY <1>1 DEF At
  <1>3. \A v \in Worker : Edit(v)' = Edit(v)
    BY WorkMoves
  <1>4. \A l \in Line \ raced : LastEdit(l, line[l].input)' /\ line'[l].input = line[l].input
    <2>1. ASSUME NEW l \in Line \ raced PROVE LastEdit(l, line[l].input)'
      <3>1. LastEdit(l, line[l].input) /\ line'[l].input = line[l].input
        BY DEF InputsKnown
      <3> QED BY <1>1, <3>1 DEF LastEdit
    <2> QED BY <2>1
  <1>5. \A v \in Worker : Association(Edit(v))' = Association(Edit(v))
    BY <1>1, <1>3 DEF Association
  <1>6. \A v \in Worker, l \in Line \ raced : At(v, "write")' /\ worker'[v].seen[l] # Nothing =>
           worker'[v].seen[l] = line'[l].input
    BY <1>2, <1>4 DEF InputsKnown
  <1>7. \A v \in Worker, l \in Line : At(v, "write")' /\ Association(Edit(v))' /\ worker'[v].seen[l] = Nothing =>
           ~Dirty(l)'
    BY <1>2, <1>5 DEF InputsKnown
  <1> QED BY <1>1, <1>4, <1>6, <1>7 DEF InputsKnown

LEMMA WorkIsMove ==
    ASSUME Base, NEW w \in Worker, NEW pc, Works(w, pc),
           \A l \in Line : Dirty(l)' => Dirty(l) /\ line'[l].safe = line[l].safe,
           \A l \in Line : Dirty(l)' /\ WillPrice(w, l) => WillPrice(w, l)' \/ (Open(Edit(w)) /\ Covers(Edit(w), l))'
    PROVE  Moves(w)
  <1>1. Executes(w) /\ DOMAIN record' = DOMAIN record
        /\ \A v \in Worker : v # w => worker'[v] = worker[v]
    BY DEF Works
  <1>2. (\A j \in DOMAIN record : j # worker[w].rec => record'[j] = record[j])
        /\ record'[worker[w].rec].edit = record[worker[w].rec].edit
    BY DEF Works
  <1>3. record[worker[w].rec].edit = Edit(w) /\ worker[w].rec \in DOMAIN record /\ InFlight(record[worker[w].rec])
    BY <1>1, HeldRecord
  <1> QED BY <1>1, <1>2, <1>3, WorkMoves DEF Moves

\* What is left to show of such a step: the event stays open unless it was not, the record
\* silences rightly, and an association is not lost sight of.
LEMMA MoveKeepsDue ==
    ASSUME Base, NEW w \in Worker, Moves(w), DueParts,
           \A l \in Line : line[l].safe => line'[l].safe,
           Silences(record[worker[w].rec])' => \A l \in Line :
               \/ ~Dirty(l)'
               \/ tenant.strategy = "skipped" /\ ~line[l].safe
               \/ Executes(w)' /\ WillPrice(w, l)',
           Association(Edit(w)) /\ tenant.strategy \in BusinessPartner =>
               \/ Open(Edit(w))'
               \/ record'[worker[w].rec].isSend
               \/ Executes(w)' /\ (At(w, "mark")' /\ tenant.strategy = "legacy" => ~Dirty(feed[Edit(w)].line)')
    PROVE  DueParts'
  <1>1. \A e \in DOMAIN feed, l \in Line : Covers(e, l) => Covers(e, l)'
    BY DEF Covers, Association, Moves
  <1>2. \A v \in Worker : \A l \in Line : v # w /\ WillPrice(v, l) => WillPrice(v, l)' /\ Executes(v)
    <2>1. ASSUME NEW v \in Worker, NEW l \in Line, v # w, WillPrice(v, l) PROVE WillPrice(v, l)' /\ Executes(v)
      <3>1. Executes(v)
        BY <2>1 DEF WillPrice, Executes, Executing, At
      <3>2. Edit(v) \in DOMAIN feed /\ worker'[v] = worker[v] /\ Edit(v)' = Edit(v)
        BY <2>1, <3>1, Kinds DEF Moves, Executes, Executing
      <3> QED BY <1>1, <2>1, <3>1, <3>2 DEF WillPrice, At
    <2> QED BY <2>1
  <1>3. ~Open(Edit(w))
    BY DEF Moves, Open, SameEvent, InFlight, Repeats
  <1>4. \A e \in DOMAIN feed : Open(e) => Open(e)'
    <2>1. ASSUME NEW e \in DOMAIN feed, Open(e) PROVE Open(e)'
      <3>1. e # Edit(w)
        BY <1>3, <2>1
      <3>2. \A v \in Worker : ~(At(v, "ok")' /\ Edit(v)' = e)
        BY <2>1, <3>1 DEF Open, At, Moves
      <3>3. \A j \in DOMAIN record' : SameEvent(record'[j], e) => ~Repeats(record'[j])
        BY <2>1, <3>1 DEF Open, SameEvent, Moves
      <3> QED BY <2>1, <3>2, <3>3 DEF Open, Moves
    <2> QED BY <2>1
  <1>5. DOMAIN feed' = DOMAIN feed /\ Edit(w) \in DOMAIN feed /\ feed' = feed /\ tenant' = tenant
    BY Kinds DEF Moves, Executes, Executing
  <1>6. DirtyIsDue'
    <2>1. ASSUME NEW l \in Line, Dirty(l)' PROVE Due(l)'
      <3>1. Due(l)
        BY <2>1 DEF DueParts, DirtyIsDue, Moves
      <3>2. CASE \E v \in Worker : v # w /\ WillPrice(v, l)
        BY <1>2, <3>2 DEF Due
      <3>3. CASE \E e \in DOMAIN feed : Open(e) /\ Covers(e, l)
        BY <1>1, <1>4, <1>5, <3>3 DEF Due
      <3>4. CASE WillPrice(w, l)
        <4>1. WillPrice(w, l)' \/ (Open(Edit(w)) /\ Covers(Edit(w), l))'
          BY <2>1, <3>4 DEF Moves
        <4>2. PICK e \in DOMAIN feed : e = Edit(w) /\ Edit(w)' = e
          BY <1>5 DEF Moves
        <4> QED BY <1>5, <4>1, <4>2 DEF Due
      <3> QED BY <3>1, <3>2, <3>3, <3>4 DEF Due
    <2> QED BY <2>1 DEF DirtyIsDue
  <1>7. SilenceIsDeserved'
    <2>1. ASSUME NEW i \in DOMAIN record', Silences(record[i])', NEW l \in Line, Dirty(l)'
          PROVE  \/ tenant'.strategy = "skipped" /\ ~line'[l].safe
                 \/ \E v \in Worker : Executes(v)' /\ worker'[v].rec = i /\ WillPrice(v, l)'
      <3>1. Dirty(l) /\ line'[l].safe = line[l].safe /\ worker'[w].rec = worker[w].rec
        BY <2>1 DEF Moves
      <3>2. CASE i = worker[w].rec
        <4>1. Silences(record[worker[w].rec])'
          <5>1. record'[worker'[w].rec] = record'[i]
            BY <3>1, <3>2
          <5> QED BY <2>1, <5>1
        <4> QED BY <1>5, <2>1, <3>1, <3>2, <4>1
      <3>3. CASE i # worker[w].rec
        <4>1. record'[i] = record[i] /\ i \in DOMAIN record
          BY <3>3 DEF Moves
        <4>2. Silences(record[i])
          BY <1>5, <2>1, <4>1 DEF Silences
        <4>3. CASE tenant.strategy = "skipped" /\ ~line[l].safe
          BY <1>5, <3>1, <4>3
        <4>4. CASE \E v \in Worker : Executes(v) /\ worker[v].rec = i /\ WillPrice(v, l)
          <5>1. PICK v \in Worker : Executes(v) /\ worker[v].rec = i /\ WillPrice(v, l)
            BY <4>4
          <5>2. v # w
            BY <3>3, <5>1
          <5>3. Executes(v)' /\ worker'[v].rec = i
            BY <5>1, <5>2 DEF Moves
          <5> QED BY <1>2, <5>1, <5>2, <5>3
        <4> QED BY <3>1, <4>1, <4>2, <4>3, <4>4 DEF DueParts, SilenceIsDeserved
      <3> QED BY <3>2, <3>3
    <2> QED BY <2>1 DEF SilenceIsDeserved
  <1>8. AssociationIsDue'
    <2>1. ASSUME tenant.strategy \in BusinessPartner, NEW e \in DOMAIN feed, Association(e)
          PROVE  \/ Open(e)'
                 \/ \E j \in DOMAIN record' : SameEvent(record'[j], e) /\ record'[j].isSend
                 \/ \E v \in Worker : /\ Executes(v)' /\ Edit(v)' = e
                                      /\ At(v, "mark")' /\ tenant.strategy = "legacy" => ~Dirty(feed[e].line)'
      <3>1. CASE e = Edit(w)
        <4>1. SameEvent(record'[worker[w].rec], e) /\ worker[w].rec \in DOMAIN record' /\ Edit(w)' = e
          BY <3>1 DEF Moves, SameEvent
        <4>2. CASE Open(Edit(w))'
          BY <3>1, <4>1, <4>2
        <4>3. CASE record'[worker[w].rec].isSend
          BY <4>1, <4>3
        <4>4. CASE Executes(w)' /\ (At(w, "mark")' /\ tenant.strategy = "legacy" => ~Dirty(feed[Edit(w)].line)')
          <5>1. At(w, "mark")' /\ tenant.strategy = "legacy" => ~Dirty(feed[e].line)'
            BY <1>5, <3>1, <4>1, <4>4
          <5> QED BY <4>1, <4>4, <5>1
        <4> QED BY <2>1, <3>1, <4>2, <4>3, <4>4
      <3>2. CASE e # Edit(w)
        <4>1. CASE Open(e)
          BY <1>4, <4>1
        <4>2. CASE \E j \in DOMAIN record : SameEvent(record[j], e) /\ record[j].isSend
          BY <3>2, <4>2 DEF Moves, SameEvent
        <4>3. CASE \E v \in Worker : /\ Executes(v) /\ Edit(v) = e
                                     /\ At(v, "mark") /\ tenant.strategy = "legacy" => ~Dirty(feed[e].line)
          <5>1. PICK v \in Worker : /\ Executes(v) /\ Edit(v) = e
                                    /\ At(v, "mark") /\ tenant.strategy = "legacy" => ~Dirty(feed[e].line)
            BY <4>3
          <5>2. v # w /\ Executes(v)' /\ Edit(v)' = e /\ (At(v, "mark")' => At(v, "mark"))
            BY <3>2, <5>1 DEF Moves, At
          <5>3. Dirty(feed[e].line)' => Dirty(feed[e].line)
            <6>1. feed[e].line \in Line /\ feed'[e] = feed[e]
              BY <1>5, EventLines
            <6> QED BY <6>1 DEF Moves, Dirty
          <5> QED BY <5>1, <5>2, <5>3
        <4> QED BY <2>1, <4>1, <4>2, <4>3 DEF DueParts, AssociationIsDue
      <3> QED BY <3>1, <3>2
    <2> QED BY <1>5, <2>1 DEF AssociationIsDue, Association
  <1> QED BY <1>6, <1>7, <1>8 DEF DueParts

\* A step of an execution that meets what MoveKeepsDue asks, and its inputs.
LEMMA WorkKeepsPrices ==
    ASSUME PricesInv, NEW w \in Worker, NEW pc, Works(w, pc),
           InputsKnown', Calm' => Calm, Calm => DueParts'
    PROVE  PricesInv'
  <1>1. Base'
    BY WorkKeepsBase DEF PricesInv
  <1> QED BY <1>1 DEF PricesInv, DueParts

LEMMA ReadKeepsPrices ==
    ASSUME PricesInv, NEW w \in Worker, Read(w)
    PROVE  PricesInv'
  <1> USE DEF PricesInv
  <1>1. /\ Works(w, "write") /\ worker[w].pc = "read" /\ line' = line /\ lost' = lost /\ omitted \subseteq omitted'
        /\ \A i \in DOMAIN record : /\ record'[i].edit = record[i].edit /\ record'[i].isSend = record[i].isSend
                                    /\ record'[i].error = record[i].error
    BY ReadWorks DEF At
  <1>2. /\ worker'[w].pc = "write" /\ (\A v \in Worker : v # w => worker'[v] = worker[v]) /\ Executes(w)
        /\ tenant' = tenant /\ feed' = feed /\ raced' = raced /\ crashed' = crashed
    BY <1>1 DEF Works
  <1>3. \A v \in Worker : Edit(v)' = Edit(v)
    BY <1>1, WorkMoves
  <1>4. \A l \in Line : /\ worker'[w].seen[l] # Nothing => worker'[w].seen[l] = line[l].input
                        /\ worker'[w].seen[l] = Nothing => l \in omitted' \/ ~(line[l].on /\ Covers(Edit(w), l))
    BY ReadWorks
  <1>5. \A l \in Line : Dirty(l)' => Dirty(l) /\ line'[l].safe = line[l].safe
    BY <1>1, WorkDirties
  <1>6. \A l \in Line : Dirty(l)' /\ Covers(Edit(w), l) => worker'[w].seen[l] # Nothing
    BY <1>1, <1>4 DEF Dirty
  <1>7. InputsKnown'
    <2>1. \A l \in Line : \A n : LastEdit(l, n)' = LastEdit(l, n)
      BY <1>2 DEF LastEdit
    <2>2. \A v \in Worker : Association(Edit(v))' = Association(Edit(v))
      BY <1>2, <1>3 DEF Association
    <2>3. \A v \in Worker : v # w => At(v, "write")' = At(v, "write") /\ worker'[v] = worker[v]
      BY <1>2 DEF At
    <2>4. \A v \in Worker, l \in Line \ raced : At(v, "write")' /\ worker'[v].seen[l] # Nothing =>
             worker'[v].seen[l] = line'[l].input
      BY <1>1, <1>4, <2>3 DEF InputsKnown
    <2>5. \A v \in Worker, l \in Line : At(v, "write")' /\ Association(Edit(v)) /\ worker'[v].seen[l] = Nothing =>
             ~Dirty(l)'
      <3>1. ASSUME NEW v \in Worker, NEW l \in Line, At(v, "write")', Association(Edit(v)),
                   worker'[v].seen[l] = Nothing, Dirty(l)'
            PROVE  FALSE
        <4>1. CASE v = w
          BY <1>6, <3>1, <4>1 DEF Covers
        <4>2. CASE v # w
          BY <1>5, <2>3, <3>1, <4>2 DEF InputsKnown
        <4> QED BY <4>1, <4>2
      <3> QED BY <3>1
    <2> QED BY <1>1, <1>2, <2>1, <2>2, <2>4, <2>5 DEF InputsKnown
  <1>8. \A l \in Line : Dirty(l)' /\ Covers(Edit(w), l) => WillPrice(w, l)'
    BY <1>2, <1>6 DEF WillPrice, At
  <1>9. Moves(w)
    <2>1. \A l \in Line : Dirty(l)' /\ WillPrice(w, l) => WillPrice(w, l)'
      BY <1>1, <1>8 DEF WillPrice, At
    <2> QED BY <1>1, <1>5, <2>1, WorkIsMove
  <1>10. Executes(w)'
    BY <1>2 DEF Executes, Executing
  <1>11. Silences(record[worker[w].rec])' => \A l \in Line :
               \/ ~Dirty(l)'
               \/ tenant.strategy = "skipped" /\ ~line[l].safe
               \/ Executes(w)' /\ WillPrice(w, l)'
    <2>1. ASSUME Silences(record[worker[w].rec])', NEW l \in Line, Dirty(l)', ~(tenant.strategy = "skipped" /\ ~line[l].safe)
          PROVE  WillPrice(w, l)'
      <3>1. record'[worker'[w].rec].edit = Edit(w)
        BY <1>9 DEF Moves
      <3>2. tenant.strategy \in {"dealPriceList", "s4PriceList"} \/ (tenant.strategy = "skipped" /\ feed[Edit(w)].kind = "property")
        BY <1>2, <2>1, <3>1 DEF Silences
      <3>3. Covers(Edit(w), l)
        BY <2>1, <3>2 DEF Covers, BusinessPartner
      <3> QED BY <1>8, <2>1, <3>3
    <2> QED BY <1>10, <2>1
  <1>12. Executes(w)' /\ ~At(w, "mark")'
    BY <1>2, <1>10 DEF At
  <1>13. DueParts => DueParts'
    BY <1>1, <1>9, <1>11, <1>12, MoveKeepsDue
  <1>14. Calm' = Calm
    BY <1>1, <1>2 DEF Calm
  <1>15. Calm => DueParts'
    BY <1>13 DEF DueParts
  <1> QED BY <1>1, <1>7, <1>14, <1>15, WorkKeepsPrices

LEMMA FailKeepsPrices ==
    ASSUME PricesInv, NEW w \in Worker, NoBasePrice(w) \/ ExecutionFails(w)
    PROVE  PricesInv'
  <1> USE DEF PricesInv
  <1>1. Works(w, "fail") /\ worker[w].pc \in {"read", "write"} /\ line' = line /\ record' = record /\ lost' = lost
        /\ omitted' = omitted
    BY FailWorks
  <1>2. /\ worker'[w].pc = "fail" /\ (\A v \in Worker : v # w => worker'[v] = worker[v]) /\ Executes(w)
        /\ tenant' = tenant /\ feed' = feed /\ raced' = raced /\ crashed' = crashed
    BY <1>1 DEF Works
  <1>3. \A v \in Worker : Edit(v)' = Edit(v)
    BY <1>1, WorkMoves
  <1>4. \A e, l : Covers(e, l)' = Covers(e, l)
    BY <1>1, <1>2 DEF Covers, Association
  <1>5. \A l \in Line : Dirty(l)' => Dirty(l) /\ line'[l].safe = line[l].safe
    BY <1>1, WorkDirties
  <1>6. InputsKnown'
    BY <1>1, <1>5, WorkKeepsInputs
  <1>7. \A l \in Line : WillPrice(w, l) => WillPrice(w, l)'
    <2>1. ASSUME NEW l \in Line, WillPrice(w, l) PROVE Covers(Edit(w), l)
      BY <1>1, <2>1 DEF WillPrice, Base, AssociationsCover
    <2> QED BY <1>2, <1>3, <1>4, <2>1 DEF WillPrice
  <1>8. Moves(w)
    BY <1>1, <1>5, <1>7, WorkIsMove
  <1>9. Executes(w)' /\ ~At(w, "mark")'
    BY <1>2 DEF Executes, Executing, At
  <1>10. ASSUME DueParts
         PROVE  Silences(record[worker[w].rec])' => \A l \in Line :
               \/ ~Dirty(l)'
               \/ tenant.strategy = "skipped" /\ ~line[l].safe
               \/ Executes(w)' /\ WillPrice(w, l)'
    <2>1. ASSUME Silences(record[worker[w].rec])', NEW l \in Line, Dirty(l)', ~(tenant.strategy = "skipped" /\ ~line[l].safe)
          PROVE  WillPrice(w, l)'
      <3>1. worker'[w].rec = worker[w].rec /\ worker[w].rec \in DOMAIN record
        BY <1>1, WorkMoves
      <3>2. Silences(record[worker[w].rec])
        BY <1>1, <1>2, <2>1, <3>1 DEF Silences
      <3>3. Dirty(l)
        BY <1>5, <2>1
      <3>4. PICK v \in Worker : Executes(v) /\ worker[v].rec = worker[w].rec /\ WillPrice(v, l)
        BY <1>10, <2>1, <3>1, <3>2, <3>3 DEF DueParts, SilenceIsDeserved
      <3>5. v = w
        BY <1>2, <3>4 DEF Base, RecordsHeld
      <3> QED BY <1>7, <1>10, <3>4, <3>5
    <2> QED BY <1>9, <2>1
  <1>11. DueParts => DueParts'
    BY <1>1, <1>8, <1>9, <1>10, MoveKeepsDue
  <1>12. Calm' = Calm
    BY <1>1, <1>2 DEF Calm
  <1>13. Calm => DueParts'
    BY <1>11 DEF DueParts, Calm
  <1> QED BY <1>1, <1>6, <1>12, <1>13, WorkKeepsPrices

\* Nobody edited a line since it was read: what is written is the line's present input.
LEMMA WriteSettles ==
    ASSUME Base, InputsKnown, NEW w \in Worker, Write(w), NEW l \in Line
    PROVE  /\ l \notin raced => line'[l].input = line[l].input
           /\ Dirty(l)' => line'[l] = line[l] /\ Dirty(l) /\ worker[w].seen[l] = Nothing
  <1>1. raced' = raced /\ At(w, "write")
    BY DEF Write
  <1>2. CASE worker[w].seen[l] = Nothing
    BY <1>1, <1>2, LineWritten DEF Dirty
  <1>3. CASE worker[w].seen[l] # Nothing /\ line'[l] = line[l] /\ l \in omitted'
    BY <1>3 DEF Dirty
  <1>4. CASE worker[w].seen[l] # Nothing /\ Settled(w, l)
    <2>1. Covers(Edit(w), l)
      BY <1>1, <1>4 DEF Base, AssociationsCover
    <2>2. line'[l].safe
      BY <1>4, <2>1 DEF Settled, Covers
    <2>3. l \notin raced => worker[w].seen[l] = line[l].input
      BY <1>1, <1>4 DEF InputsKnown
    <2> QED BY <1>1, <1>4, <2>2, <2>3 DEF Settled, Dirty
  <1> QED BY <1>2, <1>3, <1>4, LineWritten

LEMMA WriteKeepsPrices ==
    ASSUME PricesInv, NEW w \in Worker, Write(w)
    PROVE  PricesInv'
  <1> USE DEF PricesInv
  <1>1. Works(w, "mark") /\ worker[w].pc = "write" /\ record' = record /\ lost' = lost
    BY WriteWorks DEF At
  <1>2. /\ worker'[w].pc = "mark" /\ (\A v \in Worker : v # w => worker'[v] = worker[v]) /\ Executes(w)
        /\ tenant' = tenant /\ feed' = feed /\ raced' = raced /\ crashed' = crashed
        /\ \A l \in Line : line'[l].on = line[l].on /\ (line[l].safe => line'[l].safe)
    BY <1>1 DEF Works
  <1>3. \A v \in Worker : Edit(v)' = Edit(v)
    BY <1>1, WorkMoves
  <1>4. \A e : \A l \in Line : Covers(e, l) => Covers(e, l)'
    BY <1>2 DEF Covers, Association
  <1>5. InputsKnown'
    BY <1>1, WriteSettles, WorkKeepsInputs
  <1>6. Moves(w)
    <2>1. \A l \in Line : Dirty(l)' => Dirty(l) /\ line'[l].safe = line[l].safe
      BY WriteSettles
    <2>2. \A l \in Line : Dirty(l)' => ~WillPrice(w, l)
      BY <1>1, WriteSettles DEF WillPrice, At
    <2> QED BY <1>1, <2>1, <2>2, WorkIsMove
  <1>7. Executes(w)'
    BY <1>2 DEF Executes, Executing
  <1>8. ASSUME DueParts
         PROVE  Silences(record[worker[w].rec])' => \A l \in Line :
               \/ ~Dirty(l)'
               \/ tenant.strategy = "skipped" /\ ~line[l].safe
               \/ Executes(w)' /\ WillPrice(w, l)'
    <2>1. ASSUME Silences(record[worker[w].rec])', NEW l \in Line, Dirty(l)'
          PROVE  tenant.strategy = "skipped" /\ ~line[l].safe
      <3>1. worker'[w].rec = worker[w].rec /\ worker[w].rec \in DOMAIN record
        BY <1>1, WorkMoves
      <3>2. Silences(record[worker[w].rec])
        BY <1>1, <1>2, <2>1, <3>1 DEF Silences
      <3>3. Dirty(l) /\ worker[w].seen[l] = Nothing
        BY <2>1, WriteSettles
      <3>4. ~WillPrice(w, l)
        BY <1>1, <3>3 DEF WillPrice
      <3>5. ASSUME NEW v \in Worker, Executes(v), worker[v].rec = worker[w].rec, WillPrice(v, l) PROVE FALSE
        <4>1. v = w
          BY <1>2, <3>5 DEF Base, RecordsHeld
        <4> QED BY <3>4, <3>5, <4>1
      <3> QED BY <1>8, <3>1, <3>2, <3>3, <3>5 DEF DueParts, SilenceIsDeserved
    <2> QED BY <2>1
  <1>9. ASSUME Association(Edit(w)) PROVE ~Dirty(feed[Edit(w)].line)'
    <2>1. feed[Edit(w)].line \in Line
      BY <1>1, Kinds
    <2>2. PICK l \in Line : l = feed[Edit(w)].line
      BY <2>1
    <2>3. ~Dirty(l)'
      BY <1>1, <1>9, WriteSettles DEF InputsKnown, At
    <2>4. feed'[Edit(w)'].line = feed[Edit(w)].line
      BY <1>2, <1>3
    <2> QED BY <2>2, <2>3, <2>4 DEF Dirty
  <1>10. DueParts => DueParts'
    BY <1>2, <1>6, <1>7, <1>8, <1>9, MoveKeepsDue
  <1>11. Calm' = Calm
    BY <1>1, <1>2 DEF Calm
  <1>12. Calm => DueParts'
    BY <1>10 DEF DueParts, Calm
  <1> QED BY <1>1, <1>5, <1>11, <1>12, WorkKeepsPrices

LEMMA MarkKeepsPrices ==
    ASSUME PricesInv, NEW w \in Worker, MarkAsSent(w)
    PROVE  PricesInv'
  <1> USE DEF PricesInv
  <1>1. Works(w, "ok") /\ worker[w].pc = "mark" /\ line' = line /\ lost' = lost /\ omitted' = omitted
        /\ record'[worker[w].rec].isSend /\ record'[worker[w].rec].fresh = record[worker[w].rec].fresh
    BY MarkWorks DEF At
  <1>2. /\ worker'[w].pc = "ok" /\ (\A v \in Worker : v # w => worker'[v] = worker[v]) /\ Executes(w)
        /\ tenant' = tenant /\ feed' = feed /\ raced' = raced /\ crashed' = crashed
    BY <1>1 DEF Works
  <1>3. \A v \in Worker : Edit(v)' = Edit(v)
    BY <1>1, WorkMoves
  <1>4. \A e, l : Covers(e, l)' = Covers(e, l)
    BY <1>1, <1>2 DEF Covers, Association
  <1>6. \A l \in Line : Dirty(l)' => Dirty(l) /\ line'[l].safe = line[l].safe
    BY <1>1, WorkDirties
  <1>5. InputsKnown'
    BY <1>1, <1>6, WorkKeepsInputs
  <1>7. \A l \in Line : ~WillPrice(w, l)
    BY <1>1 DEF WillPrice, At
  <1>8. Moves(w)
    BY <1>1, <1>6, <1>7, WorkIsMove
  <1>9. ASSUME DueParts
        PROVE  Silences(record[worker[w].rec])' => \A l \in Line :
               \/ ~Dirty(l)'
               \/ tenant.strategy = "skipped" /\ ~line[l].safe
               \/ Executes(w)' /\ WillPrice(w, l)'
    <2>1. ASSUME Silences(record[worker[w].rec])', NEW l \in Line, Dirty(l)'
          PROVE  tenant.strategy = "skipped" /\ ~line[l].safe
      <3>1. worker'[w].rec = worker[w].rec /\ worker[w].rec \in DOMAIN record
        BY <1>1, WorkMoves
      <3>2. record[worker[w].rec].read /\ ~record[worker[w].rec].error /\ record'[worker[w].rec].edit = record[worker[w].rec].edit
        BY <1>1, <1>2, <1>8, HeldRecord DEF At, InFlight, Moves
      <3>3. Silences(record[worker[w].rec])
        BY <1>1, <1>2, <2>1, <3>1, <3>2 DEF Silences
      <3>4. Dirty(l)
        BY <1>6, <2>1
      <3>5. ASSUME NEW v \in Worker, Executes(v), worker[v].rec = worker[w].rec, WillPrice(v, l) PROVE FALSE
        <4>1. v = w
          BY <1>2, <3>5 DEF Base, RecordsHeld
        <4> QED BY <1>7, <3>5, <4>1
      <3> QED BY <1>9, <3>1, <3>3, <3>4, <3>5 DEF DueParts, SilenceIsDeserved
    <2> QED BY <2>1
  <1>10. DueParts => DueParts'
    BY <1>1, <1>8, <1>9, MoveKeepsDue
  <1>11. Calm' = Calm
    BY <1>1, <1>2 DEF Calm
  <1>12. Calm => DueParts'
    BY <1>10 DEF DueParts
  <1> QED BY <1>1, <1>5, <1>11, <1>12, WorkKeepsPrices

\* A failed execution leaves its event open, unless another attempt answers for it.
LEMMA ErrorKeepsPrices ==
    ASSUME PricesInv, NEW w \in Worker, MarkAsError(w)
    PROVE  PricesInv'
  <1> USE DEF PricesInv
  <1>1. Works(w, "error") /\ worker[w].pc = "fail" /\ line' = line /\ lost' = (lost \/ AnsweredBesides(w))
        /\ omitted' = omitted
        /\ record'[worker[w].rec].error /\ ~record'[worker[w].rec].isSend
    BY ErrorWorks DEF At
  <1>2. /\ worker'[w].pc = "error" /\ (\A v \in Worker : v # w => worker'[v] = worker[v]) /\ Executes(w)
        /\ tenant' = tenant /\ feed' = feed /\ raced' = raced /\ crashed' = crashed
        /\ DOMAIN record' = DOMAIN record /\ \A j \in DOMAIN record : j # worker[w].rec => record'[j] = record[j]
    BY <1>1 DEF Works
  <1>3. \A v \in Worker : Edit(v)' = Edit(v) /\ worker'[v].rec = worker[v].rec
    BY <1>1, WorkMoves
  <1>4. \A e, l : Covers(e, l)' = Covers(e, l)
    BY <1>1, <1>2 DEF Covers, Association
  <1>6. \A l \in Line : Dirty(l)' => Dirty(l) /\ line'[l].safe = line[l].safe
    BY <1>1, WorkDirties
  <1>5. InputsKnown'
    BY <1>1, <1>6, WorkKeepsInputs
  <1>7. ASSUME ~AnsweredBesides(w) PROVE Open(Edit(w))'
    <2>1. ~feed[Edit(w)].acked
      BY <1>7 DEF AnsweredBesides
    <2>2. \A v \in Worker : ~(At(v, "ok")' /\ Edit(v)' = Edit(w))
      BY <1>2, <1>3, <1>7 DEF AnsweredBesides, At
    <2>3. \A j \in DOMAIN record' : SameEvent(record'[j], Edit(w)) => ~Repeats(record'[j])
      BY <1>1, <1>2, <1>7 DEF AnsweredBesides, Repeats
    <2>4. PICK e : e = Edit(w) /\ Edit(w)' = e
      BY <1>3
    <2>5. Open(e)'
      BY <1>2, <2>1, <2>2, <2>3, <2>4 DEF Open
    <2> QED BY <2>4, <2>5 DEF Open
  <1>8. ASSUME ~AnsweredBesides(w) PROVE Moves(w)
    <2>1. \A l \in Line : WillPrice(w, l) => Covers(Edit(w), l)'
      BY <1>1, <1>3, <1>4 DEF WillPrice, At
    <2> QED BY <1>1, <1>6, <1>7, <1>8, <2>1, WorkIsMove
  <1>9. ~Silences(record[worker[w].rec])'
    BY <1>1, <1>3 DEF Silences
  <1>10. ~AnsweredBesides(w) /\ DueParts => DueParts'
    BY <1>1, <1>7, <1>8, <1>9, MoveKeepsDue
  <1>11. Calm' => Calm /\ ~AnsweredBesides(w)
    BY <1>1, <1>2 DEF Calm
  <1>12. Base'
    BY <1>1, WorkKeepsBase
  <1>13. Calm' => DueParts'
    BY <1>10, <1>11 DEF DueParts
  <1> QED BY <1>5, <1>12, <1>13 DEF DueParts

\* A new event is open, and sees to its line unless a base price is missing; then the line's
\* association does.
LEMMA PublishKeepsDue ==
    ASSUME Base, NEW kind \in {"association", "property"}, NEW l \in Line, NEW n, Publishes(kind, l, n),
           DueParts
    PROVE  DueParts'
  <1>1. /\ record' = record /\ worker' = worker /\ tenant' = tenant
        /\ DOMAIN feed' = DOMAIN feed \cup {n} /\ n \notin DOMAIN feed
        /\ \A e \in DOMAIN feed : feed'[e] = feed[e]
        /\ feed'[n].kind = kind /\ feed'[n].line = l /\ ~feed'[n].acked
        /\ \A k \in Line : k # l => line'[k] = line[k]
        /\ line'[l].on /\ (kind = "association" <=> ~line[l].on) /\ line'[l].safe = line[l].safe
        /\ omitted' = omitted /\ raced \subseteq raced' /\ (StillCounts => l \in raced')
    BY DEF Publishes
  <1>2. \A w \in Worker : worker[w].pc # "idle" => Edit(w) \in DOMAIN feed
    BY DEF Base, WebhooksShaped
  <1>3. \A i \in DOMAIN record : record[i].edit \in DOMAIN feed
    BY DEF Base, WebhooksShaped
  <1>4. \A w \in Worker : Edit(w)' = Edit(w) /\ Executes(w)' = Executes(w) /\ (Executes(w) => worker[w].pc # "idle")
    BY <1>1 DEF Edit, Executes, Executing
  <1>5. \A e \in DOMAIN feed, k \in Line : Association(e)' = Association(e) /\ Covers(e, k)' = Covers(e, k)
    BY <1>1 DEF Covers, Association
  <1>6. \A e \in DOMAIN feed : Open(e) => Open(e)'
    BY <1>1, <1>4 DEF Open, At
  <1>7. Open(n)'
    <2>1. \A w \in Worker : ~(At(w, "ok")' /\ Edit(w)' = n)
      BY <1>1, <1>2, <1>4 DEF At
    <2>2. \A i \in DOMAIN record' : ~SameEvent(record'[i], n)
      BY <1>1, <1>3 DEF SameEvent
    <2> QED BY <1>1, <2>1, <2>2 DEF Open
  <1>8. \A w \in Worker, k \in Line : WillPrice(w, k) => WillPrice(w, k)'
    BY <1>1, <1>2, <1>4, <1>5 DEF WillPrice, At
  <1>9. \A k \in Line : Due(k) => Due(k)'
    BY <1>1, <1>5, <1>6, <1>8 DEF Due
  <1>10. StillCounts => ~Dirty(l)'
    BY <1>1 DEF Dirty
  <1>11. \A k \in Line : k # l /\ Dirty(k)' => Dirty(k)
    BY <1>1 DEF Dirty
  <1>12. ASSUME Dirty(l)' PROVE Due(l)'
    <2>0. ~StillCounts /\ l \notin omitted /\ \A w \in Worker : ~Counts(w)
      BY <1>1, <1>10, <1>12 DEF Dirty, StillCounts
    <2>1. CASE Covers(n, l)'
      BY <1>1, <1>7, <2>1 DEF Due
    <2>2. CASE ~Covers(n, l)'
      <3>1. tenant.strategy \in BusinessPartner /\ kind = "property" /\ ~line[l].safe /\ line[l].on
        BY <1>1, <2>2 DEF Covers, Association
      <3>2. PICK e \in DOMAIN feed : Association(e) /\ feed[e].line = l
        BY <3>1, LineOfAssociation
      <3>3. Covers(e, l)
        BY <3>2 DEF Covers
      <3>4. CASE Open(e)
        BY <1>9, <3>3, <3>4 DEF Due
      <3>5. CASE \E i \in DOMAIN record : SameEvent(record[i], e) /\ record[i].isSend
        BY <2>0, <3>1, <3>2, <3>5 DEF Base, AssociationsCover, Reached, SameEvent
      <3>6. CASE \E w \in Worker : Executes(w) /\ Edit(w) = e
        <4>1. PICK w \in Worker : Executes(w) /\ Edit(w) = e
          BY <3>6
        <4>2. ~At(w, "mark") /\ ~At(w, "write")
          BY <2>0, <3>1, <3>2, <4>1 DEF Base, AssociationsCover, Reached, Kind, Association, Counts, At
        <4>3. WillPrice(w, l)
          BY <3>3, <4>1, <4>2 DEF WillPrice, Executes, Executing, At
        <4> QED BY <1>9, <4>3 DEF Due
      <3> QED BY <3>1, <3>2, <3>4, <3>5, <3>6 DEF DueParts, AssociationIsDue
    <2> QED BY <2>1, <2>2
  <1>13. DirtyIsDue'
    <2>1. ASSUME NEW k \in Line, Dirty(k)' PROVE Due(k)'
      <3>1. CASE k = l
        BY <1>12, <2>1, <3>1
      <3>2. CASE k # l
        <4>1. Dirty(k)
          BY <1>11, <2>1, <3>2
        <4> QED BY <1>9, <4>1 DEF DueParts, DirtyIsDue
      <3> QED BY <3>1, <3>2
    <2> QED BY <2>1 DEF DirtyIsDue
  <1>14. SilenceIsDeserved'
    <2>1. \A i \in DOMAIN record : Silences(record[i])' => Silences(record[i])
      BY <1>1, <1>3 DEF Silences
    <2>2. ASSUME NEW i \in DOMAIN record', Silences(record[i])', NEW k \in Line, Dirty(k)'
          PROVE  \/ tenant'.strategy = "skipped" /\ ~line'[k].safe
                 \/ \E v \in Worker : Executes(v)' /\ worker'[v].rec = i /\ WillPrice(v, k)'
      <3>1. i \in DOMAIN record /\ Silences(record[i])
        BY <1>1, <2>1, <2>2
      <3>2. k # l
        BY <1>10, <2>2, <3>1 DEF StillCounts
      <3>3. Dirty(k) /\ line'[k] = line[k]
        BY <1>1, <1>11, <2>2, <3>2
      <3>4. \/ tenant.strategy = "skipped" /\ ~line[k].safe
            \/ \E v \in Worker : Executes(v) /\ worker[v].rec = i /\ WillPrice(v, k)
        BY <3>1, <3>3 DEF DueParts, SilenceIsDeserved
      <3> QED BY <1>1, <1>4, <1>8, <3>3, <3>4
    <2> QED BY <2>2 DEF SilenceIsDeserved
  <1>15. AssociationIsDue'
    <2>1. ASSUME tenant.strategy \in BusinessPartner, NEW e \in DOMAIN feed', Association(e)'
          PROVE  \/ Open(e)'
                 \/ \E j \in DOMAIN record' : SameEvent(record'[j], e) /\ record'[j].isSend
                 \/ \E v \in Worker : /\ Executes(v)' /\ Edit(v)' = e
                                      /\ At(v, "mark")' /\ tenant'.strategy = "legacy" => ~Dirty(feed[e].line)'
      <3>1. CASE e = n
        BY <1>7, <3>1
      <3>2. CASE e \in DOMAIN feed
        <4>1. Association(e)
          BY <1>5, <2>1, <3>2
        <4>2. CASE Open(e)
          BY <1>6, <3>2, <4>2
        <4>3. CASE \E j \in DOMAIN record : SameEvent(record[j], e) /\ record[j].isSend
          BY <1>1, <4>3
        <4>4. CASE \E v \in Worker : /\ Executes(v) /\ Edit(v) = e
                                     /\ At(v, "mark") /\ tenant.strategy = "legacy" => ~Dirty(feed[e].line)
          <5>1. PICK v \in Worker : /\ Executes(v) /\ Edit(v) = e
                                    /\ At(v, "mark") /\ tenant.strategy = "legacy" => ~Dirty(feed[e].line)
            BY <4>4
          <5>2. PICK k \in Line : k = feed[e].line /\ k = feed'[e].line
            BY <1>1, <3>2, EventLines
          <5>3. ASSUME At(v, "mark"), tenant.strategy = "legacy" PROVE ~Dirty(k)'
            <6>1. CASE k = l
              <7>1. Counts(v)
                BY <4>1, <5>1, <5>3 DEF Counts, At, Association, Edit
              <7> QED BY <1>10, <6>1, <7>1 DEF StillCounts
            <6>2. CASE k # l
              BY <1>11, <5>1, <5>2, <5>3, <6>2
            <6> QED BY <6>1, <6>2
          <5>4. At(v, "mark")' /\ tenant'.strategy = "legacy" => ~Dirty(feed[e].line)'
            BY <1>1, <5>2, <5>3 DEF At, Dirty
          <5> QED BY <1>4, <5>1, <5>4
        <4> QED BY <2>1, <3>2, <4>1, <4>2, <4>3, <4>4 DEF DueParts, AssociationIsDue
      <3> QED BY <1>1, <3>1, <3>2
    <2> QED BY <1>1, <2>1 DEF AssociationIsDue
  <1> QED BY <1>13, <1>14, <1>15 DEF DueParts

LEMMA PublishKeepsInputs ==
    ASSUME Base, NEW kind \in {"association", "property"}, NEW l \in Line, NEW n, Publishes(kind, l, n),
           InputsKnown
    PROVE  InputsKnown'
  <1>1. /\ worker' = worker /\ DOMAIN feed' = DOMAIN feed \cup {n} /\ n \notin DOMAIN feed
        /\ \A e \in DOMAIN feed : feed'[e] = feed[e] /\ e \in Nat /\ e < n
        /\ n \in Nat \ {0} /\ feed'[n].kind = kind /\ feed'[n].line = l
        /\ \A k \in Line : k # l => line'[k] = line[k]
        /\ line'[l].input = IF kind = "association" THEN line[l].input ELSE n
        /\ omitted' = omitted /\ raced \subseteq raced' /\ (StillCounts => l \in raced')
    BY DEF Publishes
  <1>2. \A w \in Worker : At(w, "write")' => At(w, "write") /\ l \in raced'
    BY <1>1 DEF StillCounts, Counts, At
  <1>3. ASSUME NEW k \in Line \ raced' PROVE LastEdit(k, line[k].input)'
    <2>1. LastEdit(k, line[k].input)
      BY <1>1 DEF InputsKnown
    <2>2. CASE k = l /\ kind = "property"
      <3>1. line'[k].input = n
        BY <1>1, <2>2
      <3>2. \A e \in DOMAIN feed' : e <= n
        BY <1>1
      <3>3. n \in DOMAIN feed' /\ feed'[n].kind = "property" /\ feed'[n].line = k
        BY <1>1, <2>2
      <3> QED BY <3>1, <3>2, <3>3 DEF LastEdit
    <2>3. CASE ~(k = l /\ kind = "property")
      <3>1. line'[k].input = line[k].input
        BY <1>1, <2>3
      <3>2. \A e \in DOMAIN feed' : feed'[e].kind = "property" /\ feed'[e].line = k => e \in DOMAIN feed /\ feed'[e] = feed[e]
        BY <1>1, <2>3
      <3>3. line[k].input \in DOMAIN feed => line[k].input \in DOMAIN feed' /\ feed'[line[k].input] = feed[line[k].input]
        BY <1>1
      <3> QED BY <2>1, <3>1, <3>2, <3>3 DEF LastEdit
    <2> QED BY <2>2, <2>3
  <1>4. \A w \in Worker, k \in Line \ raced' : At(w, "write")' /\ worker'[w].seen[k] # Nothing =>
           worker'[w].seen[k] = line'[k].input
    BY <1>1, <1>2 DEF InputsKnown
  <1>5. ASSUME NEW w \in Worker, NEW k \in Line, At(w, "write")', Association(Edit(w))', worker'[w].seen[k] = Nothing,
               Dirty(k)'
        PROVE  FALSE
    <2>1. At(w, "write") /\ k # l
      BY <1>2, <1>5 DEF Dirty
    <2>2. Edit(w) \in DOMAIN feed /\ Edit(w)' = Edit(w)
      BY <1>1, <2>1, Kinds DEF At, Edit
    <2>3. Association(Edit(w))
      BY <1>1, <1>5, <2>2 DEF Association
    <2>4. Dirty(k)
      BY <1>1, <1>5, <2>1 DEF Dirty
    <2> QED BY <1>1, <1>5, <2>1, <2>3, <2>4 DEF InputsKnown
  <1> QED BY <1>3, <1>4, <1>5 DEF InputsKnown

LEMMA PublishKeepsPrices ==
    ASSUME PricesInv, NEW kind \in {"association", "property"}, NEW l \in Line, NEW n, Publishes(kind, l, n)
    PROVE  PricesInv'
  <1>1. Base /\ Base'
    BY PublishKeepsBase DEF PricesInv
  <1>2. InputsKnown'
    BY <1>1, PublishKeepsInputs DEF PricesInv
  <1>3. Calm' = Calm
    BY DEF Publishes, Calm
  <1>4. Calm => DueParts'
    BY <1>1, PublishKeepsDue DEF PricesInv, DueParts
  <1> QED BY <1>1, <1>2, <1>3, <1>4 DEF PricesInv, DueParts

LEMMA HandleKeepsPrices ==
    ASSUME PricesInv, NEW w \in Worker, Handle(w)
    PROVE  PricesInv'
  <1> USE DEF PricesInv
  <1>1. CASE PassGuard(w)
    BY <1>1, GuardPasses, PassKeepsPrices
  <1>2. CASE SkipDuplicate(w) \/ NoteDuplicate(w)
    BY <1>2, DuplicatePasses, PassKeepsPrices
  <1>3. CASE LegacySkip(w)
    BY <1>3, LegacyPasses, PassKeepsPrices
  <1>4. CASE ResolveFails(w) \/ NoDeal(w)
    BY <1>4, FailurePasses, PassKeepsPrices
  <1>5. CASE PassDebounce(w) \/ CreateCollides(w) \/ NothingToClaim(w)
    BY <1>5, CreationPasses, PassKeepsPrices
  <1>6. CASE NoteDebounced(w) \/ SkipDebounced(w)
    BY <1>6, DebouncedPasses, PassKeepsPrices
  <1>7. CASE LegacyStart(w) \/ Create(w) \/ \E i \in DOMAIN record : ClaimFailedAttempt(w, i)
    BY <1>7, StartsAre, StartKeepsPrices
  <1>8. CASE Read(w)
    BY <1>8, ReadKeepsPrices
  <1>9. CASE NoBasePrice(w) \/ ExecutionFails(w)
    BY <1>9, FailKeepsPrices
  <1>10. CASE Write(w)
    BY <1>10, WriteKeepsPrices
  <1>11. CASE MarkAsSent(w)
    BY <1>11, MarkKeepsPrices
  <1>12. CASE MarkAsError(w)
    BY <1>12, ErrorKeepsPrices
  <1>13. CASE Answer(w)
    BY <1>13, HearingHears, HearKeepsPrices
  <1> QED BY <1>1, <1>2, <1>3, <1>4, <1>5, <1>6, <1>7, <1>8, <1>9, <1>10, <1>11, <1>12, <1>13 DEF Handle

LEMMA PricesStep == PricesInv /\ [Next]_priceVars => PricesInv'
  <1> SUFFICES ASSUME PricesInv, [Next]_priceVars PROVE PricesInv'
    OBVIOUS
  <1>1. CASE \E l \in Line : AddLine(l) \/ EditLine(l)
    <2>1. PICK l \in Line : AddLine(l) \/ EditLine(l)
      BY <1>1
    <2>2. PICK kind \in {"association", "property"} : Publishes(kind, l, Len(feed) + 1)
      BY <2>1, AdvisorPublishes DEF PricesInv
    <2> QED BY <2>2, PublishKeepsPrices
  <1>2. CASE \E w \in Worker : Handle(w)
    BY <1>2, HandleKeepsPrices
  <1>3. CASE \E w \in Worker : \E e \in DOMAIN feed : Deliver(w, e)
    BY <1>3, HearingHears, HearKeepsPrices DEF PricesInv
  <1>4. CASE WindowPasses
    BY <1>4, WindowAges, AgeKeepsPrices DEF PricesInv
  <1>5. CASE Crash
    BY <1>5, CrashKeepsPrices
  <1>6. CASE UNCHANGED priceVars
    <2>1. Ages
      BY <1>6 DEF Ages, priceVars, PricesInv, Base, WebhooksShaped
    <2> QED BY <2>1, AgeKeepsPrices
  <1> QED BY <1>1, <1>2, <1>3, <1>4, <1>5, <1>6 DEF Next

\* At rest nothing is due, so no line is dirty: its price is its input, and that the last edit's.
LEMMA RestIsPriced == PricesInv => PriceFollowsEdits
  <1> SUFFICES ASSUME PricesInv, Quiet, ~lost, ~crashed, NEW l \in Line \ (raced \cup omitted), line[l].on
               PROVE  line[l].price = Wanted(l) /\ line[l].input = Wanted(l)
    BY DEF PriceFollowsEdits, Priced
  <1>1. InputsKnown /\ DirtyIsDue
    BY DEF PricesInv, Calm
  <1>2. \A w \in Worker : worker[w].pc = "idle"
    BY DEF Quiet, At
  <1>3. ~Due(l)
    BY <1>2 DEF Due, WillPrice, Open, Quiet, At
  <1>4. line[l].price = line[l].input
    BY <1>1, <1>3 DEF DirtyIsDue, Dirty
  <1>5. PICK v : v = line[l].input
    OBVIOUS
  <1>6. LastEdit(l, v)
    BY <1>1, <1>5 DEF InputsKnown
  <1> DEFINE of == {e \in DOMAIN feed : feed[e].kind = "property" /\ feed[e].line = l}
  <1>7. of \subseteq Nat \ {0}
    <2>1. feed \in Seq(FeedEvent)
      BY DEF PricesInv, Base, WebhooksShaped
    <2> QED BY <2>1, LenProperties
  <1>8. CASE v = 0
    <2>1. of = {}
      BY <1>6, <1>7, <1>8 DEF LastEdit
    <2>2. Wanted(l) = 0
      BY <2>1 DEF Wanted
    <2> QED BY <1>4, <1>5, <1>8, <2>2
  <1>9. CASE v # 0
    <2>1. v \in of /\ \A d \in of : d <= v
      BY <1>6, <1>9 DEF LastEdit
    <2>2. \A e \in of : (\A d \in of : d <= e) => e = v
      BY <1>7, <2>1
    <2>3. Wanted(l) = CHOOSE e \in of : \A d \in of : d <= e
      BY <2>1 DEF Wanted
    <2>4. Wanted(l) = v
      BY <2>1, <2>2, <2>3
    <2> QED BY <1>4, <1>5, <2>4
  <1> QED BY <1>8, <1>9

\* At rest every line carries the price of the advisor's last edit, but for a line edited after
\* a reading that still counted and one that an execution left out and none has written since;
\* unless a process died or a failed attempt's event was answered by another attempt.  Whatever
\* the strategy, the number of handlers, lines and edits (lineItemPriceWebhook.service.js and
\* its variants).
THEOREM EditsAreFollowed == Spec => []PriceFollowsEdits
  BY PricesStart, PricesStep, RestIsPriced, PTL DEF Spec

LEMMA AssociationOnce == Base => AssociationPricedOnce
  <1> SUFFICES ASSUME Base, NEW e \in DOMAIN feed, feed[e].kind = "association"
               PROVE  LET at == {w \in Worker : worker[w].pc \in Executing /\ Edit(w) = e}
                      IN  /\ Cardinality(at) <= 1
                          /\ at # {} => \A i \in DOMAIN record : SameEvent(record[i], e) => ~record[i].isSend
    BY DEF AssociationPricedOnce
  <1> DEFINE at == {w \in Worker : worker[w].pc \in Executing /\ Edit(w) = e}
  <1>1. \A w \in at : /\ Executes(w) /\ worker[w].rec \in DOMAIN record
                      /\ record[worker[w].rec].edit = e /\ ~record[worker[w].rec].isSend
    BY HeldRecord DEF Executes, InFlight
  <1>2. \A i, j \in DOMAIN record : record[i].edit = e /\ record[j].edit = e => i = j
    BY DEF Base, OneAssociation, Association
  <1>3. \A v, w \in at : v = w
    BY <1>1, <1>2 DEF Base, RecordsHeld
  <1>4. Cardinality(at) <= 1
    <2>1. CASE at = {}
      <3>1. Cardinality({}) = 0
        BY FS_EmptySet
      <3> QED BY <2>1, <3>1
    <2>2. ASSUME NEW w \in at PROVE Cardinality(at) = 1
      <3>1. at = {w}
        BY <1>3
      <3> QED BY <3>1, FS_Singleton
    <2> QED BY <2>1, <2>2
  <1>5. at # {} => \A i \in DOMAIN record : SameEvent(record[i], e) => ~record[i].isSend
    BY <1>1, <1>2 DEF SameEvent
  <1> QED BY <1>4, <1>5

\* However often and however close together HubSpot delivers an association, at most one handler
\* works on it, and none after its record is marked sent (claimFailedAttempt, the unique index).
THEOREM AssociationsArePricedOnce == Spec => []AssociationPricedOnce
  <1>1. PricesInv => AssociationPricedOnce
    BY AssociationOnce DEF PricesInv
  <1> QED BY <1>1, PricesStart, PricesStep, PTL DEF Spec

\* As long as no process died, a record that says in flight has a handler behind it.
THEOREM InFlightRecordsAreHeld == Spec => []InFlightIsHeld
  <1>1. PricesInv => InFlightIsHeld
    BY DEF PricesInv, Base, NoneLeftInFlight, InFlightIsHeld, InFlight, Executes
  <1> QED BY <1>1, PricesStart, PricesStep, PTL DEF Spec
=============================================================================
