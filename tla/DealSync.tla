------------------------------ MODULE DealSync ------------------------------
(***************************************************************************)
(* Orders and invoices synchronised one by one.  An order becomes a deal,  *)
(* or updates the one that has its DocEntry or its name, and is associated *)
(* with what the registry knows (deal.handler, associationService).  An    *)
(* invoice creates nothing: it moves the deals its base orders are linked  *)
(* to (invoice.handler.process).                                           *)
(*                                                                         *)
(* The two runs may be under way at once, since a run started by hand      *)
(* takes no lock.  A DocEntry is a number per kind of document.            *)
(***************************************************************************)
EXTENDS Integers, Sequences, FiniteSets, SequencesExt, FiniteSetsExt

CONSTANTS DocEntries,      \* the orders: their DocEntry
          OrderList,       \* the orders of a run, in order
          InvoiceList,     \* the invoices of a run, in order
          MaxDeals, MaxDealRuns, MaxDealFaults, MaxDealEdits

(* A document comes once in a run. *)
ASSUME DealsAssumption ==
    /\ MaxDeals \in Nat
    /\ InvoiceList \in Seq(Range(InvoiceList)) /\ InvoiceList # <<>>
    /\ \A m, n \in DOMAIN InvoiceList : InvoiceList[m] = InvoiceList[n] => m = n

VARIABLES dealName,     \* dealName[e]: the name an order's deal is given
          lines,        \* lines[i]: an invoice's lines, base type and entry
          deals,        \* HubSpot's deals: id, doc, name, stage, contact
          searchable,   \* the deals HubSpot's search sees
          links,        \* SapDocumentLink: type, doc, deal
          moveStage,    \* updateDealStage.isRequired
          contactIds,   \* what the registry holds of the contact, oldest first; 0 for ''
          orderRun, invoiceRun,
          twins, taken, moves,      \* what happened to the deals, for the properties
          dealRuns, dealFaults, dealEdits

dealVars == <<dealName, lines, deals, searchable, links, moveStage, contactIds, orderRun,
              invoiceRun, twins, taken, moves, dealRuns, dealFaults, dealEdits>>

Invoices == Range(InvoiceList)
DealIds == {d.id : d \in deals}
Deal(id) == CHOOSE d \in deals : d.id = id

(* HubSpot numbers the deals it is given; it never gives a number twice. *)
FreshDeal == CHOOSE n \in 1..(MaxDeals + 1) : n \notin DealIds

RestingOrders == [pc |-> "idle", at |-> 1, stage |-> "open", found |-> 0, blind |-> {},
                  sent |-> 0, failed |-> 0]
RestingInvoices == [pc |-> "idle", at |-> 1, todo |-> <<>>, moved |-> {},
                    sent |-> 0, failed |-> 0, skipped |-> 0,
                    told |-> [i \in Invoices |-> {}], how |-> [i \in Invoices |-> "none"]]

DealInit ==
    /\ twins = {} /\ taken = {} /\ moves = {}
    /\ moveStage \in BOOLEAN
    /\ orderRun = RestingOrders /\ invoiceRun = RestingInvoices
    /\ dealRuns = 0 /\ dealFaults = 0 /\ dealEdits = 0

(* What the tenant and HubSpot may hold when the service starts. *)
DealHoldings ==
    /\ deals \subseteq [id : 1..MaxDeals, doc : DocEntries \cup {0}, name : Range(dealName),
                        stage : {"open", "won"}, contact : BOOLEAN]
    /\ \A d, x \in deals : d.id = x.id => d = x
    /\ searchable \subseteq DealIds /\ IsFiniteSet(links)

DealFault(kind) == /\ kind # "answered" => dealFaults < MaxDealFaults
                   /\ dealFaults' = dealFaults + (IF kind = "answered" THEN 0 ELSE 1)

-----------------------------------------------------------------------------
(* The registry of contacts: a contact is registered when it is made, and   *)
(* registered with '' whenever its row comes without an email.  The lookup  *)
(* of one code takes the newest document; that of many codes takes the      *)
(* newest that has an id.                                                   *)

FindHubspotId(ids) == IF ids = <<>> THEN 0 ELSE Last(ids)
FindHubspotIds(ids) == LET real == SelectSeq(ids, LAMBDA id : id # 0)
                       IN IF real = <<>> THEN 0 ELSE Last(real)

RegisterContact(id) ==
    /\ dealEdits < MaxDealEdits /\ dealEdits' = dealEdits + 1
    /\ id # 0 => \A k \in DOMAIN contactIds : contactIds[k] = 0
    /\ contactIds' = Append(contactIds, id)
    /\ UNCHANGED <<dealName, lines, deals, searchable, links, moveStage, orderRun, invoiceRun,
                   twins, taken, moves, dealRuns, dealFaults>>

-----------------------------------------------------------------------------
(* The orders. *)

Order == OrderList[orderRun.at]

StartOrders ==
    /\ orderRun.pc \in {"idle", "over"} /\ dealRuns < MaxDealRuns
    /\ dealRuns' = dealRuns + 1
    /\ orderRun' = [RestingOrders EXCEPT !.pc = "preprocess"]
    /\ UNCHANGED <<dealName, lines, deals, searchable, links, moveStage, contactIds, invoiceRun,
                   twins, taken, moves, dealFaults, dealEdits>>

(* The row is over: counted sent or failed, and on to the next. *)
OrderTold(run, what) ==
    [run EXCEPT !.pc = IF run.at = Len(OrderList) THEN "over" ELSE "preprocess",
                !.at = IF run.at = Len(OrderList) THEN @ ELSE @ + 1,
                !.found = 0, !.blind = {},
                !.sent = @ + (IF what = "sent" THEN 1 ELSE 0),
                !.failed = @ + (IF what = "failed" THEN 1 ELSE 0)]

(* preprocess: the stage is the configured one when it is required. *)
PreprocessOrder ==
    /\ orderRun.pc = "preprocess"
    /\ orderRun' = [orderRun EXCEPT !.pc = "find", !.stage = IF moveStage THEN "won" ELSE "open"]
    /\ UNCHANGED <<dealName, lines, deals, searchable, links, moveStage, contactIds, invoiceRun,
                   twins, taken, moves, dealRuns, dealFaults, dealEdits>>

ByDocEntry(e) == {d.id : d \in {x \in deals : x.doc = e /\ x.id \in searchable}}
ByName(e) == {d.id : d \in {x \in deals : x.name = dealName[e] /\ x.id \in searchable}}

(* Mutants: the name comes first; the name alone. *)
ByNameFirst(e) == IF ByName(e) # {} THEN ByName(e)
                  ELSE IF ByDocEntry(e) # {} THEN ByDocEntry(e) ELSE {0}
ByNameAlone(e) == IF ByName(e) # {} THEN ByName(e) ELSE {0}

(* find: by sap_docentry, then by dealname; a search gives its first hit. *)
Candidates(e) == IF ByDocEntry(e) # {} THEN ByDocEntry(e)
                 ELSE IF ByName(e) # {} THEN ByName(e) ELSE {0}

FindDeal(kind) ==
    /\ orderRun.pc = "find" /\ DealFault(kind)
    /\ IF kind # "answered" THEN orderRun' = OrderTold(orderRun, "failed")
       ELSE \E id \in Candidates(Order) :
              orderRun' = [orderRun EXCEPT !.pc = "write", !.found = id,
                                           !.blind = DealIds \ searchable]
    /\ UNCHANGED <<dealName, lines, deals, searchable, links, moveStage, contactIds, invoiceRun,
                   twins, taken, moves, dealRuns, dealEdits>>

OwnSeen(e) == \E d \in deals : d.doc = e /\ d.id \notin orderRun.blind

(* Mutant: the name is lost in the update. *)
WrittenLoose(d, e) == [d EXCEPT !.doc = e, !.name = "none", !.stage = orderRun.stage]
DealWritten(d, e) == [d EXCEPT !.doc = e, !.name = dealName[e], !.stage = orderRun.stage]

(* The deal is made or written.  A lost answer leaves it done and the row   *)
(* failed.                                                                  *)
WriteDeal(kind) ==
    LET e == Order
        id == IF orderRun.found # 0 THEN orderRun.found ELSE FreshDeal
        new == [id |-> id, doc |-> e, name |-> dealName[e], stage |-> orderRun.stage,
                contact |-> FALSE]
    IN /\ orderRun.pc = "write" /\ DealFault(kind) /\ id <= MaxDeals
       /\ IF kind = "refused" THEN UNCHANGED <<deals, twins, taken>>
          ELSE IF orderRun.found = 0
          THEN /\ deals' = deals \cup {new}
               /\ twins' = twins \cup {[deal |-> id, of |-> d.id, seen |-> d.id \notin orderRun.blind] :
                                          d \in {x \in deals : x.doc = e}}
               /\ UNCHANGED taken
          ELSE /\ deals' = {IF d.id = id THEN DealWritten(d, e) ELSE d : d \in deals}
               /\ taken' = IF Deal(id).doc \in {0, e} THEN taken
                           ELSE taken \cup {[from |-> Deal(id).doc, by |-> e, own |-> OwnSeen(e)]}
               /\ UNCHANGED twins
       /\ orderRun' = IF kind = "answered" THEN [orderRun EXCEPT !.pc = "associate", !.found = id]
                      ELSE OrderTold(orderRun, "failed")
       /\ UNCHANGED <<dealName, lines, searchable, links, moveStage, contactIds, invoiceRun,
                      moves, dealRuns, dealEdits>>

(* handleDealAssociations: the contact if it is registered; a call that     *)
(* fails is logged and the row is sent.                                     *)
AssociateDeal(kind) ==
    /\ orderRun.pc = "associate" /\ DealFault(kind)
    /\ deals' = {IF d.id = orderRun.found
                 THEN [d EXCEPT !.contact = @ \/ (FindHubspotId(contactIds) # 0 /\ kind = "answered")]
                 ELSE d : d \in deals}
    /\ orderRun' = OrderTold(orderRun, "sent")
    /\ UNCHANGED <<dealName, lines, searchable, links, moveStage, contactIds, invoiceRun, twins,
                   taken, moves, dealRuns, dealEdits>>

-----------------------------------------------------------------------------
(* The invoices. *)

Invoice == InvoiceList[invoiceRun.at]

StartInvoices ==
    /\ invoiceRun.pc \in {"idle", "over"} /\ dealRuns < MaxDealRuns
    /\ dealRuns' = dealRuns + 1
    /\ invoiceRun' = [RestingInvoices EXCEPT !.pc = "resolve"]
    /\ moves' = {}
    /\ UNCHANGED <<dealName, lines, deals, searchable, links, moveStage, contactIds, orderRun,
                   twins, taken, dealFaults, dealEdits>>

(* Mutant: a skipped invoice counts as sent. *)
SkippedIsSent(run, what) ==
    [run EXCEPT !.pc = IF run.at = Len(InvoiceList) THEN "over" ELSE "resolve",
                !.at = IF run.at = Len(InvoiceList) THEN @ ELSE @ + 1,
                !.todo = <<>>, !.moved = {}, !.sent = @ + 1,
                !.how = [@ EXCEPT ![InvoiceList[run.at]] = what]]

InvoiceTold(run, what) ==
    [run EXCEPT !.pc = IF run.at = Len(InvoiceList) THEN "over" ELSE "resolve",
                !.at = IF run.at = Len(InvoiceList) THEN @ ELSE @ + 1,
                !.todo = <<>>, !.moved = {},
                !.sent = @ + (IF what = "updated" THEN 1 ELSE 0),
                !.failed = @ + (IF what = "failed" THEN 1 ELSE 0),
                !.skipped = @ + (IF what = "skipped" THEN 1 ELSE 0),
                !.how = [@ EXCEPT ![InvoiceList[run.at]] = what],
                !.told = [@ EXCEPT ![InvoiceList[run.at]] = run.moved]]

(* Mutant: the lines of every base document count. *)
AllBaseEntries(i) == {l.entry : l \in lines[i]}

(* extractOrderBaseEntries and findByOrderDocEntry: only lines copied from  *)
(* an order count, and only links of orders.                                *)
BaseEntries(i) == {l.entry : l \in {x \in lines[i] : x.type = "order"}}
LinkedDeals(i) == {k.deal : k \in {x \in links : x.type = "order" /\ x.doc \in BaseEntries(i)}}

ResolveInvoice(kind) ==
    /\ invoiceRun.pc = "resolve" /\ DealFault(kind)
    /\ IF kind # "answered" THEN invoiceRun' = InvoiceTold(invoiceRun, "failed")
       ELSE IF LinkedDeals(Invoice) = {} THEN invoiceRun' = InvoiceTold(invoiceRun, "skipped")
       ELSE \E todo \in {s \in [1..Cardinality(LinkedDeals(Invoice)) -> LinkedDeals(Invoice)] :
                            Range(s) = LinkedDeals(Invoice)} :
              invoiceRun' = [invoiceRun EXCEPT !.pc = "config", !.todo = todo]
    /\ UNCHANGED <<dealName, lines, deals, searchable, links, moveStage, contactIds, orderRun,
                   twins, taken, moves, dealRuns, dealEdits>>

ReadStage ==
    /\ invoiceRun.pc = "config"
    /\ invoiceRun' = IF moveStage THEN [invoiceRun EXCEPT !.pc = "move"]
                     ELSE InvoiceTold(invoiceRun, "skipped")
    /\ UNCHANGED <<dealName, lines, deals, searchable, links, moveStage, contactIds, orderRun,
                   twins, taken, moves, dealRuns, dealFaults, dealEdits>>

(* Mutant: the deals moved are noted only by the invoice that ends well. *)
MovedUnnoted(run, id) == [run EXCEPT !.todo = Tail(@)]
Moved(run, id) == [run EXCEPT !.todo = Tail(@), !.moved = @ \cup {id}]

(* One deal of the invoice: recorded as moved once HubSpot has confirmed;   *)
(* a failure ends the invoice with the deals moved so far.                  *)
MoveDeal(kind) ==
    LET id == Head(invoiceRun.todo)
        run == Moved(invoiceRun, id)
    IN /\ invoiceRun.pc = "move" /\ DealFault(kind)
       /\ IF kind = "refused" THEN UNCHANGED <<deals, moves>>
          ELSE /\ deals' = {IF d.id = id THEN [d EXCEPT !.stage = "won"] ELSE d : d \in deals}
               /\ moves' = moves \cup {[invoice |-> Invoice, deal |-> id, known |-> kind = "answered"]}
       /\ invoiceRun' = IF kind # "answered" THEN InvoiceTold(invoiceRun, "failed")
                        ELSE IF run.todo = <<>> THEN InvoiceTold(run, "updated") ELSE run
       /\ UNCHANGED <<dealName, lines, searchable, links, moveStage, contactIds, orderRun, twins,
                      taken, dealRuns, dealEdits>>

-----------------------------------------------------------------------------
(* The tenant switches the stage, a user gives a deal another's name, the   *)
(* search catches up.                                                       *)
SwitchStage == /\ dealEdits < MaxDealEdits /\ dealEdits' = dealEdits + 1
               /\ moveStage' = ~moveStage
               /\ UNCHANGED <<dealName, lines, deals, searchable, links, contactIds, orderRun,
                              invoiceRun, twins, taken, moves, dealRuns, dealFaults>>

RenameDeal(id, e) ==
    /\ dealEdits < MaxDealEdits /\ dealEdits' = dealEdits + 1
    /\ Deal(id).name # dealName[e]
    /\ deals' = {IF d.id = id THEN [d EXCEPT !.name = dealName[e]] ELSE d : d \in deals}
    /\ UNCHANGED <<dealName, lines, searchable, links, moveStage, contactIds, orderRun,
                   invoiceRun, twins, taken, moves, dealRuns, dealFaults>>

SearchCatchesUp ==
    /\ searchable # DealIds /\ searchable' = DealIds
    /\ UNCHANGED <<dealName, lines, deals, links, moveStage, contactIds, orderRun, invoiceRun,
                   twins, taken, moves, dealRuns, dealFaults, dealEdits>>

DealNext ==
    \/ StartOrders \/ PreprocessOrder \/ StartInvoices \/ ReadStage
    \/ SwitchStage \/ SearchCatchesUp
    \/ \E id \in DealIds, e \in DocEntries : RenameDeal(id, e)
    \/ \E id \in {0, 1} : RegisterContact(id)
    \/ \E kind \in {"answered", "refused"} :
         FindDeal(kind) \/ AssociateDeal(kind) \/ ResolveInvoice(kind)
    \/ \E kind \in {"answered", "refused", "lost"} : WriteDeal(kind) \/ MoveDeal(kind)

DealSpec == DealInit /\ DealHoldings /\ [][DealNext]_dealVars

-----------------------------------------------------------------------------

DealTypeOK ==
    /\ \A d \in deals : /\ d.id \in 1..MaxDeals /\ d.doc \in DocEntries \cup {0}
                        /\ d.name \in Range(dealName) /\ d.stage \in {"open", "won"}
                        /\ d.contact \in BOOLEAN
    /\ searchable \subseteq DealIds /\ moveStage \in BOOLEAN
    /\ orderRun.pc \in {"idle", "preprocess", "find", "write", "associate", "over"}
    /\ orderRun.found \in {0} \cup DealIds
    /\ invoiceRun.pc \in {"idle", "resolve", "config", "move", "over"}
    /\ Range(invoiceRun.todo) \subseteq {k.deal : k \in links}
    /\ dealRuns \in 0..MaxDealRuns /\ dealFaults \in 0..MaxDealFaults

(* A second deal for an order is made only while HubSpot's search does not  *)
(* see the first: a lost answer, a renamed deal or a failed row alone do    *)
(* not double it.                                                           *)
TwinDealsExplained == \A t \in twins : ~t.seen

(* An order writes over the deal of another order only when it has none of  *)
(* its own the search can see: that is, by a name they share.               *)
TakenOnlyWithoutOwn == \A t \in taken : ~t.own

(* An invoice moves the deals of the orders it was copied from and no       *)
(* other, though a quotation or a delivery may have the same DocEntry.      *)
MovesOnlyItsOrders ==
    \A m \in moves : \E l \in lines[m.invoice], k \in links :
        l.type = "order" /\ k.type = "order" /\ k.doc = l.entry /\ k.deal = m.deal

(* Whatever call an invoice fails at, it reports every deal HubSpot has     *)
(* confirmed as moved, and none that has not moved; one counted skipped     *)
(* moved none.                                                              *)
MovedAreReported ==
    \A i \in Invoices :
        LET confirmed == {m.deal : m \in {x \in moves : x.invoice = i /\ x.known}}
        IN /\ invoiceRun.how[i] \in {"updated", "failed"} => invoiceRun.told[i] = confirmed
           /\ invoiceRun.how[i] = "skipped" => {m \in moves : m.invoice = i} = {}

(* Every invoice of a run is counted once, as what it came to: a run that   *)
(* moved nothing does not read as one that sent.                            *)
InvoicesCounted ==
    invoiceRun.pc = "over" =>
        /\ invoiceRun.sent = Cardinality({i \in Invoices : invoiceRun.how[i] = "updated"})
        /\ invoiceRun.failed = Cardinality({i \in Invoices : invoiceRun.how[i] = "failed"})
        /\ invoiceRun.sent + invoiceRun.failed + invoiceRun.skipped = Len(InvoiceList)

(* What associationRegistryService says of its two lookups: that of many    *)
(* codes gives, code by code, what that of one gives.                       *)
LookupsAgree == FindHubspotIds(contactIds) = FindHubspotId(contactIds)

=============================================================================
