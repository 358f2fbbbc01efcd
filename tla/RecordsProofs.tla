---------------------------- MODULE RecordsProofs ----------------------------
(***************************************************************************)
(* Theorems about what writes records: one by one, ItemSync (whose record  *)
(* is written), DealSync (what an order and an invoice do to the deals),   *)
(* BusinessPartners (what a PATCH does to the employees) and Homologation  *)
(* (the owner a document's code comes back to); in batches, CrmBatches and *)
(* ChildContacts (one record for a partner, and whose record is written).  *)
(***************************************************************************)
EXTENDS ItemSync, DealSync, BusinessPartners, Homologation, ChildContacts, FiniteSetTheorems,
        SequenceTheorems, WellFoundedInduction, TLAPS

-----------------------------------------------------------------------------
(* ItemSync.  What a run has read before it writes: a record it looked up   *)
(* by a key of the partner, or an employee's that it found by its code when *)
(* the search knows the code, whatever HubSpot's index shows by then.       *)

ItemFields == {"pc", "p", "k", "found", "seen", "coded", "how", "phones"}

SeenIsPartners(r) ==
    r.pc = "write" /\ r.found # 0 => Bearing(r.seen) \in {"", sapGroups[r.p].idsap}

SeenIsKids(r) ==
    r.pc = "kidwrite" /\ r.found # 0 /\ r.coded => r.seen.code = sapGroups[r.p].kids[r.k].code

SeenIsOwn(r) == /\ DOMAIN r = ItemFields
                /\ r.pc \in {"find", "write", "associate"} => ~r.coded
                /\ SeenIsPartners(r) /\ SeenIsKids(r)

OwnersInv == overwritten = {} /\ SeenIsOwn(item)

LEMMA NextItemIsOwn == SeenIsOwn(item) => SeenIsOwn(NextItem) /\ NextItem.pc \in {"idle", "find"}
  BY DEF NextItem, Resting, SeenIsOwn, SeenIsPartners, SeenIsKids, ItemFields

LEMMA ToNextKidIsOwn == SeenIsOwn(item) /\ ToNextKid /\ UNCHANGED sapGroups => SeenIsOwn(item)'
  <1> SUFFICES ASSUME SeenIsOwn(item), ToNextKid, UNCHANGED sapGroups PROVE SeenIsOwn(item)'
    OBVIOUS
  <1>1. CASE item.k = Len(PartnerOfItem.kids)
    BY <1>1, NextItemIsOwn DEF ToNextKid, ItemSent, SeenIsOwn, SeenIsPartners, SeenIsKids
  <1>2. CASE item.k # Len(PartnerOfItem.kids)
    BY <1>2 DEF ToNextKid, SeenIsOwn, SeenIsPartners, SeenIsKids, ItemFields
  <1> QED BY <1>1, <1>2

(* find gives a record of the partner or of nobody; findContactEmployee the *)
(* employee's own when the search has its code.                             *)
LEMMA FoundPartnerIsOwn ==
    ASSUME NEW id \in FoundPartner, id # 0
    PROVE  Bearing(indexed[Type][id]) \in {"", PartnerOfItem.idsap}
  BY DEF FoundPartner, Hits, Incoming, NobodysRecord, Bearing

LEMMA FoundKidIsOwn ==
    ASSUME NEW id \in FoundKid, id # 0, Hits("contact", "code", Kid.code) # {}
    PROVE  indexed.contact[id].code = Kid.code
  BY DEF FoundKid, Hits

LEMMA FindOneIsOwn ==
    ASSUME SeenIsOwn(item), NEW kind, FindOne(kind) PROVE SeenIsOwn(item)'
  <1>1. sapGroups' = sapGroups
    BY DEF FindOne, outside
  <1>2. CASE item' = NextItem
    BY <1>1, <1>2, NextItemIsOwn DEF SeenIsOwn, SeenIsPartners, SeenIsKids
  <1>3. ASSUME item' # NextItem PROVE SeenIsOwn(item)'
    <2>1. PICK id \in FoundPartner :
            item' = [item EXCEPT !.pc = "write", !.found = id,
                                 !.seen = IF id = 0 THEN Nobody ELSE indexed[Type][id]]
      BY <1>3 DEF FindOne, ItemFails
    <2>2. item.pc = "find"
      BY DEF FindOne
    <2>3. id # 0 => Bearing(indexed[Type][id]) \in {"", PartnerOfItem.idsap}
      BY FoundPartnerIsOwn
    <2> QED BY <1>1, <2>1, <2>2, <2>3 DEF SeenIsOwn, SeenIsPartners, SeenIsKids, ItemFields, PartnerOfItem
  <1> QED BY <1>2, <1>3

LEMMA FindKidIsOwn ==
    ASSUME SeenIsOwn(item), NEW kind, FindKid(kind) PROVE SeenIsOwn(item)'
  <1>1. sapGroups' = sapGroups
    BY DEF FindKid, outside
  <1>2. CASE ToNextKid
    BY <1>1, <1>2, ToNextKidIsOwn
  <1>3. ASSUME ~ToNextKid PROVE SeenIsOwn(item)'
    <2>1. PICK id \in FoundKid :
            item' = [item EXCEPT !.pc = "kidwrite", !.found = id,
                        !.seen = IF id = 0 THEN Nobody ELSE indexed.contact[id],
                        !.coded = Hits("contact", "code", Kid.code) # {}]
      BY <1>3 DEF FindKid, AfterKidFails
    <2> DEFINE hit == Hits("contact", "code", Kid.code) # {}
    <2>2. id # 0 /\ hit => indexed.contact[id].code = Kid.code
      BY FoundKidIsOwn
    <2> HIDE DEF hit
    <2>3. item' = [item EXCEPT !.pc = "kidwrite", !.found = id,
                        !.seen = IF id = 0 THEN Nobody ELSE indexed.contact[id],
                        !.coded = hit]
      BY <2>1 DEF hit
    <2> QED BY <1>1, <2>2, <2>3 DEF SeenIsOwn, SeenIsPartners, SeenIsKids, ItemFields,
              PartnerOfItem, Kid
  <1> QED BY <1>2, <1>3

LEMMA WriteKidIsOwn ==
    ASSUME SeenIsOwn(item), NEW kind, WriteKid(kind) PROVE SeenIsOwn(item)'
  <1>1. sapGroups' = sapGroups
    BY DEF WriteKid, outside
  <1>2. CASE ToNextKid
    BY <1>1, <1>2, ToNextKidIsOwn
  <1>3. ASSUME ~ToNextKid PROVE SeenIsOwn(item)'
    <2>1. PICK id : item' = [item EXCEPT !.pc = "link", !.found = id]
      BY <1>3 DEF WriteKid, AfterKidFails
    <2> QED BY <1>1, <2>1 DEF SeenIsOwn, SeenIsPartners, SeenIsKids, ItemFields
  <1> QED BY <1>2, <1>3

LEMMA AssociateIsOwn ==
    ASSUME SeenIsOwn(item), NEW kind, AssociateItem(kind) PROVE SeenIsOwn(item)'
  <1>1. sapGroups' = sapGroups
    BY DEF AssociateItem, outside
  <1>2. CASE item' = NextItem
    BY <1>1, <1>2, NextItemIsOwn DEF SeenIsOwn, SeenIsPartners, SeenIsKids
  <1>3. CASE item' = [item EXCEPT !.pc = "kid", !.k = 1, !.found = 0, !.seen = Nobody]
    BY <1>1, <1>3 DEF SeenIsOwn, SeenIsPartners, SeenIsKids, ItemFields
  <1> QED BY <1>2, <1>3 DEF AssociateItem, ItemFails, ItemSent

(* Whichever way a partner's row is written, it goes on to its associations *)
(* or to the next row.                                                      *)
LEMMA WriteOneIsOwn ==
    ASSUME SeenIsOwn(item), NEW kind, CreateOne(kind) \/ UpdateOne(kind) \/ UpdateSapItem(kind)
    PROVE  SeenIsOwn(item)'
  <1>1. sapGroups' = sapGroups /\ item.pc = "write"
    BY DEF CreateOne, UpdateOne, UpdateSapItem, outside
  <1>2. CASE item' = NextItem
    BY <1>1, <1>2, NextItemIsOwn DEF SeenIsOwn, SeenIsPartners, SeenIsKids
  <1>3. CASE \E how : item' = [item EXCEPT !.pc = "associate", !.how = how]
    BY <1>1, <1>3 DEF SeenIsOwn, SeenIsPartners, SeenIsKids, ItemFields
  <1> QED BY <1>2, <1>3 DEF CreateOne, UpdateOne, UpdateSapItem, ItemFails, PlacedAt

(* With that, a write overtakes nobody. *)
LEMMA PartnerOvertakesNone ==
    SeenIsOwn(item) /\ item.pc = "write" /\ item.found # 0 => ~Overtakes(Incoming)
  BY DEF SeenIsOwn, SeenIsPartners, Overtakes, Incoming, PartnerOfItem

LEMMA KidOvertakesNone ==
    SeenIsOwn(item) /\ item.pc = "kidwrite" /\ item.found # 0 => ~Overtakes(IncomingKid)
  BY DEF SeenIsOwn, SeenIsKids, Overtakes, IncomingKid, PartnerOfItem, Kid

LEMMA NextKeepsOwners == OwnersInv /\ [ItemNext]_itemVars => OwnersInv'
  <1> SUFFICES ASSUME OwnersInv, [ItemNext]_itemVars PROVE OwnersInv'
    OBVIOUS
  <1> USE DEF OwnersInv
  <1>1. CASE StartItems
    BY <1>1 DEF StartItems, Resting, SeenIsOwn, SeenIsPartners, SeenIsKids, ItemFields
  <1>2. CASE IndexCatchesUp \/ EditTelephone \/ UNCHANGED itemVars
    BY <1>2 DEF IndexCatchesUp, EditTelephone, itemVars, SeenIsOwn, SeenIsPartners, SeenIsKids
  <1>3. ASSUME NEW kind, FindOne(kind) \/ FindKid(kind) \/ AssociateItem(kind) PROVE OwnersInv'
    <2>1. overwritten' = overwritten
      BY <1>3 DEF FindOne, FindKid, AssociateItem
    <2> QED BY <1>3, <2>1, FindOneIsOwn, FindKidIsOwn, AssociateIsOwn
  <1>4. ASSUME NEW kind, CreateOne(kind) \/ UpdateOne(kind) \/ UpdateSapItem(kind) PROVE OwnersInv'
    <2>1. overwritten' = overwritten
      BY <1>4, PartnerOvertakesNone DEF CreateOne, UpdateOne, UpdateSapItem, Update, Overtake
    <2> QED BY <1>4, <2>1, WriteOneIsOwn
  <1>5. ASSUME NEW kind, WriteKid(kind) PROVE OwnersInv'
    <2>1. overwritten' = overwritten
      BY <1>5, KidOvertakesNone DEF WriteKid, Update, Overtake
    <2> QED BY <1>5, <2>1, WriteKidIsOwn
  <1>6. ASSUME NEW kind, LinkKid(kind) PROVE OwnersInv'
    BY <1>6, ToNextKidIsOwn DEF LinkKid, outside
  <1> QED BY <1>1, <1>2, <1>3, <1>4, <1>5, <1>6 DEF ItemNext

\* However the partners and their employees share emails, codes and ids, and
\* whatever HubSpot's search does not show yet, no write goes to a record that
\* the run could see was another's (processSingleItem, findContactEmployee).
THEOREM OwnersAreKept == ItemSpec => []OwnersKept
  <1>1. ItemInit => OwnersInv
    BY DEF ItemInit, OwnersInv, Resting, SeenIsOwn, SeenIsPartners, SeenIsKids, ItemFields
  <1>2. OwnersInv => OwnersKept
    BY DEF OwnersInv, OwnersKept
  <1> QED BY <1>1, <1>2, NextKeepsOwners, PTL DEF ItemSpec

-----------------------------------------------------------------------------
(* DealSync: the deals.  They keep their ids, and their DocEntry but for    *)
(* the order that writes them.                                              *)

DealFields == {"id", "doc", "name", "stage", "contact"}

DealsShaped == /\ \A d \in deals : DOMAIN d = DealFields /\ d.id \in 1..MaxDeals
               /\ \A d, x \in deals : d.id = x.id => d = x

SameDocs == /\ \A x \in deals' : \E d \in deals : DOMAIN x = DOMAIN d /\ x.id = d.id /\ x.doc = d.doc
            /\ \A d \in deals : \E x \in deals' : x.id = d.id /\ x.doc = d.doc
            /\ \A x, y \in deals' : x.id = y.id => x = y

LEMMA ChangeKeepsDocs ==
    ASSUME DealsShaped, NEW changed, \A x \in deals' : \E d \in deals : x = changed[d],
           \A d \in deals : changed[d] \in deals',
           \A d \in deals : /\ DOMAIN changed[d] = DOMAIN d
                           /\ changed[d].id = d.id /\ changed[d].doc = d.doc
    PROVE  SameDocs
  <1>1. ASSUME NEW x \in deals', NEW y \in deals', x.id = y.id PROVE x = y
    <2>1. PICK d \in deals, e \in deals : x = changed[d] /\ y = changed[e]
      OBVIOUS
    <2> QED BY <2>1, <1>1 DEF DealsShaped
  <1> QED BY <1>1 DEF SameDocs

(* What an order's run has found.  A deal made because none was found has a *)
(* twin only among those the search did not show; a deal found by its name  *)
(* is taken only when the order has none the search shows.                  *)

RunFields == {"pc", "at", "stage", "found", "blind", "sent", "failed"}

OwnAreBlind(job) == \A d \in deals : d.doc = OrderList[job.at] => d.id \in job.blind
FoundIsOwn(job) == \A d \in deals : d.id = job.found => d.doc = OrderList[job.at]

OrderKnows(job) ==
    /\ DOMAIN job = RunFields
    /\ job.pc = "write" =>
         /\ job.found = 0 => OwnAreBlind(job)
         /\ job.found # 0 => job.found \in DealIds /\ (FoundIsOwn(job) \/ OwnAreBlind(job))

OrdersInv == /\ DealsShaped /\ OrderKnows(orderRun)
             /\ TwinDealsExplained /\ TakenOnlyWithoutOwn

LEMMA SameDocsKeepOrders ==
    ASSUME OrdersInv, SameDocs, UNCHANGED <<twins, taken>>,
           orderRun' = orderRun \/ (orderRun'.pc # "write" /\ DOMAIN orderRun' = RunFields)
    PROVE  OrdersInv'
  <1>1. DealsShaped'
    BY DEF OrdersInv, DealsShaped, SameDocs
  <1>2. OrderKnows(orderRun)'
    BY DEF OrdersInv, OrderKnows, OwnAreBlind, FoundIsOwn, SameDocs, DealIds
  <1> QED BY <1>1, <1>2 DEF OrdersInv, TwinDealsExplained, TakenOnlyWithoutOwn

LEMMA SameDealsKeepOrders ==
    ASSUME OrdersInv, UNCHANGED <<deals, twins, taken>>,
           orderRun' = orderRun \/ (orderRun'.pc # "write" /\ DOMAIN orderRun' = RunFields)
    PROVE  OrdersInv'
  BY SameDocsKeepOrders DEF SameDocs, OrdersInv, DealsShaped

LEMMA ToldIsOver ==
    ASSUME NEW job, DOMAIN job = RunFields, NEW what
    PROVE  OrderTold(job, what).pc # "write" /\ DOMAIN OrderTold(job, what) = RunFields
  BY DEF OrderTold, RunFields

(* find sees every deal of the order that the search shows. *)
LEMMA FindingKnows ==
    ASSUME OrdersInv, NEW id \in Candidates(Order), UNCHANGED deals, orderRun.pc = "find",
           orderRun' = [orderRun EXCEPT !.pc = "write", !.found = id, !.blind = DealIds \ searchable]
    PROVE  OrderKnows(orderRun)'
  <1>1. /\ DOMAIN orderRun' = RunFields /\ orderRun'.at = orderRun.at /\ orderRun'.found = id
        /\ orderRun'.blind = DealIds \ searchable
    BY DEF OrdersInv, OrderKnows, RunFields
  <1>2. CASE id \in ByDocEntry(Order)
    <2>1. PICK d \in deals : d.doc = Order /\ d.id = id
      BY <1>2 DEF ByDocEntry
    <2>2. id # 0 /\ id \in DealIds
      BY <2>1, DealsAssumption DEF OrdersInv, DealsShaped, DealIds
    <2>3. \A x \in deals : x.id = id => x.doc = Order
      BY <2>1 DEF OrdersInv, DealsShaped
    <2> QED BY <1>1, <2>2, <2>3 DEF OrderKnows, FoundIsOwn, DealIds, Order
  <1>3. CASE id \notin ByDocEntry(Order)
    <2>1. ByDocEntry(Order) = {}
      BY <1>3 DEF Candidates
    <2>2. \A d \in deals : d.doc = Order => d.id \in DealIds \ searchable
      BY <2>1 DEF ByDocEntry, DealIds
    <2>3. id # 0 => id \in DealIds
      BY <2>1 DEF Candidates, ByName, DealIds
    <2> QED BY <1>1, <2>2, <2>3 DEF OrderKnows, OwnAreBlind, DealIds, Order
  <1> QED BY <1>2, <1>3

LEMMA FreshIsFree == DealsShaped => FreshDeal \in Nat \ {0} /\ FreshDeal \notin DealIds
  <1> SUFFICES ASSUME DealsShaped PROVE FreshDeal \in Nat \ {0} /\ FreshDeal \notin DealIds
    OBVIOUS
  <1>1. MaxDeals + 1 \in 1..(MaxDeals + 1) /\ MaxDeals + 1 \notin DealIds
    BY DealsAssumption DEF DealsShaped, DealIds
  <1>2. FreshDeal \in 1..(MaxDeals + 1) /\ FreshDeal \notin DealIds
    BY <1>1 DEF FreshDeal
  <1> QED BY <1>2, DealsAssumption

(* A deal is made: it doubles what the run could not see. *)
LEMMA MakingKeepsOrders ==
    ASSUME OrdersInv, NEW kind, WriteDeal(kind), kind # "refused", orderRun.found = 0
    PROVE  OrdersInv'
  <1> DEFINE new == [id |-> FreshDeal, doc |-> Order, name |-> dealName[Order],
                     stage |-> orderRun.stage, contact |-> FALSE]
             doubled == {[deal |-> FreshDeal, of |-> d.id, seen |-> d.id \notin orderRun.blind] :
                            d \in {x \in deals : x.doc = Order}}
  <1>1. /\ deals' = deals \cup {new} /\ twins' = twins \cup doubled /\ taken' = taken
        /\ FreshDeal <= MaxDeals /\ orderRun.pc = "write"
    BY DEF WriteDeal
  <1>2. \A t \in doubled : ~t.seen
    <2> TAKE t \in doubled
    <2>1. PICK d \in deals : d.doc = Order
                             /\ t = [deal |-> FreshDeal, of |-> d.id, seen |-> d.id \notin orderRun.blind]
      OBVIOUS
    <2>2. OwnAreBlind(orderRun)
      BY <1>1 DEF OrdersInv, OrderKnows, WriteDeal
    <2> QED BY <2>1, <2>2 DEF OwnAreBlind, Order
  <1>3. FreshDeal \in 1..MaxDeals /\ FreshDeal \notin DealIds
    BY <1>1, FreshIsFree, DealsAssumption DEF OrdersInv
  <1>4. DOMAIN new = DealFields /\ new.id = FreshDeal
    BY DEF DealFields
  <1> HIDE DEF new, doubled
  <1>5. DealsShaped'
    BY <1>1, <1>3, <1>4 DEF OrdersInv, DealsShaped, DealIds
  <1>6. orderRun'.pc # "write" /\ DOMAIN orderRun' = RunFields
    <2>1. DOMAIN orderRun = RunFields
      BY DEF OrdersInv, OrderKnows
    <2>2. CASE kind = "answered"
      BY <2>1, <2>2, <1>1 DEF WriteDeal, RunFields
    <2>3. CASE kind # "answered"
      BY <2>1, <2>3, ToldIsOver DEF WriteDeal
    <2> QED BY <2>2, <2>3
  <1> QED BY <1>1, <1>2, <1>5, <1>6 DEF OrdersInv, OrderKnows, TwinDealsExplained, TakenOnlyWithoutOwn

(* A deal is written: another order's is taken only without one of its own. *)
LEMMA WritingKeepsOrders ==
    ASSUME OrdersInv, NEW kind, WriteDeal(kind), kind # "refused", orderRun.found # 0
    PROVE  OrdersInv'
  <1> DEFINE id == orderRun.found
             F(d) == IF d.id = id THEN DealWritten(d, Order) ELSE d
             note == [from |-> Deal(id).doc, by |-> Order, own |-> OwnSeen(Order)]
  <1>1. /\ deals' = {F(d) : d \in deals} /\ twins' = twins /\ orderRun.pc = "write"
        /\ taken' = IF Deal(id).doc \in {0, Order} THEN taken ELSE taken \cup {note}
    BY DEF WriteDeal
  <1>2. ASSUME NEW d \in deals PROVE DOMAIN F(d) = DOMAIN d /\ F(d).id = d.id
    BY DEF OrdersInv, DealsShaped, DealFields, DealWritten
  <1>3. id \in DealIds /\ (FoundIsOwn(orderRun) \/ OwnAreBlind(orderRun))
    BY <1>1 DEF OrdersInv, OrderKnows
  <1>4. Deal(id) \in deals /\ Deal(id).id = id
    BY <1>3 DEF Deal, DealIds
  <1>5. ASSUME FoundIsOwn(orderRun) PROVE TakenOnlyWithoutOwn'
    <2>1. taken' = taken
      BY <1>1, <1>4, <1>5 DEF FoundIsOwn, Order
    <2> QED BY <2>1 DEF OrdersInv, TakenOnlyWithoutOwn
  <1>6. ASSUME OwnAreBlind(orderRun) PROVE TakenOnlyWithoutOwn'
    <2>1. ~OwnSeen(Order)
      BY <1>6 DEF OwnAreBlind, OwnSeen, Order
    <2>2. ~note.own
      BY <2>1
    <2>3. taken' \subseteq taken \cup {note}
      BY <1>1
    <2> HIDE DEF note
    <2> QED BY <2>2, <2>3 DEF OrdersInv, TakenOnlyWithoutOwn
  <1>7. TakenOnlyWithoutOwn'
    BY <1>3, <1>5, <1>6
  <1> HIDE DEF F
  <1>8. DealsShaped'
    <2>1. ASSUME NEW x \in deals', NEW y \in deals', x.id = y.id PROVE x = y
      <3>1. PICK d \in deals, e \in deals : x = F(d) /\ y = F(e)
        BY <1>1
      <3> QED BY <3>1, <1>2, <2>1 DEF OrdersInv, DealsShaped
    <2> QED BY <1>1, <1>2, <2>1 DEF OrdersInv, DealsShaped
  <1>9. orderRun'.pc # "write" /\ DOMAIN orderRun' = RunFields
    <2>1. DOMAIN orderRun = RunFields
      BY DEF OrdersInv, OrderKnows
    <2>2. CASE kind = "answered"
      BY <2>1, <2>2, <1>1 DEF WriteDeal, RunFields
    <2>3. CASE kind # "answered"
      BY <2>1, <2>3, ToldIsOver DEF WriteDeal
    <2> QED BY <2>2, <2>3
  <1> QED BY <1>1, <1>7, <1>8, <1>9 DEF OrdersInv, OrderKnows, TwinDealsExplained

LEMMA NextKeepsOrders == OrdersInv /\ [DealNext]_dealVars => OrdersInv'
  <1> SUFFICES ASSUME OrdersInv, [DealNext]_dealVars PROVE OrdersInv'
    OBVIOUS
  <1>1. DOMAIN orderRun = RunFields
    BY DEF OrdersInv, OrderKnows
  <1>2. CASE StartOrders \/ PreprocessOrder
    <2>1. orderRun'.pc # "write" /\ DOMAIN orderRun' = RunFields
      BY <1>1, <1>2 DEF StartOrders, PreprocessOrder, RestingOrders, RunFields
    <2> QED BY <1>2, <2>1, SameDealsKeepOrders DEF StartOrders, PreprocessOrder
  <1>3. CASE \/ StartInvoices \/ ReadStage \/ SwitchStage \/ SearchCatchesUp \/ UNCHANGED dealVars
             \/ \E id \in {0, 1} : RegisterContact(id)
             \/ \E kind : ResolveInvoice(kind)
    BY <1>3, SameDealsKeepOrders DEF StartInvoices, ReadStage, SwitchStage, SearchCatchesUp, dealVars,
       RegisterContact, ResolveInvoice
  <1>4. ASSUME NEW kind, FindDeal(kind) PROVE OrdersInv'
    <2>1. UNCHANGED <<deals, twins, taken>> /\ orderRun.pc = "find"
      BY <1>4 DEF FindDeal
    <2>2. CASE orderRun' = OrderTold(orderRun, "failed")
      BY <1>1, <2>1, <2>2, ToldIsOver, SameDealsKeepOrders
    <2>3. ASSUME NEW id \in Candidates(Order),
                 orderRun' = [orderRun EXCEPT !.pc = "write", !.found = id, !.blind = DealIds \ searchable]
          PROVE  OrdersInv'
      BY <2>1, <2>3, FindingKnows DEF OrdersInv, DealsShaped, TwinDealsExplained, TakenOnlyWithoutOwn
    <2> QED BY <1>4, <2>2, <2>3 DEF FindDeal
  <1>5. ASSUME NEW kind, WriteDeal(kind) PROVE OrdersInv'
    <2>1. CASE kind = "refused"
      <3>1. orderRun'.pc # "write" /\ DOMAIN orderRun' = RunFields
        BY <1>1, <1>5, <2>1, ToldIsOver DEF WriteDeal
      <3> QED BY <1>5, <2>1, <3>1, SameDealsKeepOrders DEF WriteDeal
    <2> QED BY <1>5, <2>1, MakingKeepsOrders, WritingKeepsOrders
  <1>6. ASSUME NEW kind, AssociateDeal(kind) PROVE OrdersInv'
    <2> DEFINE changed == [d \in deals |->
                   IF d.id = orderRun.found
                   THEN [d EXCEPT !.contact = @ \/ (FindHubspotId(contactIds) # 0 /\ kind = "answered")]
                   ELSE d]
    <2>1. deals' = {changed[d] : d \in deals}
      BY <1>6 DEF AssociateDeal
    <2>2. SameDocs
      <3>1. \A d \in deals : DOMAIN changed[d] = DOMAIN d /\ changed[d].id = d.id /\ changed[d].doc = d.doc
        BY DEF OrdersInv, DealsShaped, DealFields
      <3> HIDE DEF changed
      <3> QED BY <2>1, <3>1, ChangeKeepsDocs DEF OrdersInv
    <2>3. orderRun'.pc # "write" /\ DOMAIN orderRun' = RunFields /\ UNCHANGED <<twins, taken>>
      BY <1>1, <1>6, ToldIsOver DEF AssociateDeal
    <2> QED BY <2>2, <2>3, SameDocsKeepOrders
  <1>7. ASSUME NEW kind, MoveDeal(kind) PROVE OrdersInv'
    <2>1. UNCHANGED <<orderRun, twins, taken>>
      BY <1>7 DEF MoveDeal
    <2> DEFINE changed == [d \in deals |->
                   IF d.id = Head(invoiceRun.todo) THEN [d EXCEPT !.stage = "won"] ELSE d]
    <2>2. CASE deals' = {changed[d] : d \in deals}
      <3>1. \A d \in deals : DOMAIN changed[d] = DOMAIN d /\ changed[d].id = d.id /\ changed[d].doc = d.doc
        BY DEF OrdersInv, DealsShaped, DealFields
      <3> HIDE DEF changed
      <3>2. SameDocs
        BY <2>2, <3>1, ChangeKeepsDocs DEF OrdersInv
      <3> QED BY <2>1, <3>2, SameDocsKeepOrders
    <2>3. CASE UNCHANGED deals
      BY <2>1, <2>3, SameDealsKeepOrders
    <2> QED BY <1>7, <2>2, <2>3 DEF MoveDeal
  <1>8. ASSUME NEW id, NEW e, RenameDeal(id, e) PROVE OrdersInv'
    <2> DEFINE changed == [d \in deals |-> IF d.id = id THEN [d EXCEPT !.name = dealName[e]] ELSE d]
    <2>1. deals' = {changed[d] : d \in deals}
      BY <1>8 DEF RenameDeal
    <2>2. SameDocs
      <3>1. \A d \in deals : DOMAIN changed[d] = DOMAIN d /\ changed[d].id = d.id /\ changed[d].doc = d.doc
        BY DEF OrdersInv, DealsShaped, DealFields
      <3> HIDE DEF changed
      <3> QED BY <2>1, <3>1, ChangeKeepsDocs DEF OrdersInv
    <2> QED BY <1>8, <2>2, SameDocsKeepOrders DEF RenameDeal
  <1> QED BY <1>2, <1>3, <1>4, <1>5, <1>6, <1>7, <1>8 DEF DealNext

LEMMA InitOrders == DealInit /\ DealHoldings => OrdersInv
  BY DEF DealInit, DealHoldings, RestingOrders, OrdersInv, DealsShaped, DealFields, OrderKnows, RunFields,
     TwinDealsExplained, TakenOnlyWithoutOwn

\* Whatever answers are lost, whoever renames or moves a deal meanwhile: an
\* order is given a second deal only while the search does not show the first
\* (deal.handler.find, create).
THEOREM TwinDealsAreExplained == DealSpec => []TwinDealsExplained
  <1>1. OrdersInv => TwinDealsExplained
    BY DEF OrdersInv
  <1> QED BY <1>1, InitOrders, NextKeepsOrders, PTL DEF DealSpec

\* An order writes over another's deal, found by a name they share, only when
\* it has no deal of its own that the search shows (deal.handler.find).
THEOREM TakenOnlyWithoutOwnDeal == DealSpec => []TakenOnlyWithoutOwn
  <1>1. OrdersInv => TakenOnlyWithoutOwn
    BY DEF OrdersInv
  <1> QED BY <1>1, InitOrders, NextKeepsOrders, PTL DEF DealSpec

-----------------------------------------------------------------------------
(* DealSync: the invoices.  Those before the one at work report what was    *)
(* confirmed of them, those after it have moved nothing, and the one at     *)
(* work has noted every deal moved so far.                                  *)

InvoiceFields == {"pc", "at", "todo", "moved", "sent", "failed", "skipped", "told", "how"}

Confirmed(M, i) == {m.deal : m \in {x \in M : x.invoice = i /\ x.known}}

Reported(M, job, i) ==
    /\ job.how[i] \in {"updated", "failed"} => job.told[i] = Confirmed(M, i)
    /\ job.how[i] = "skipped" => {m \in M : m.invoice = i} = {}

Untouched(M, job, i) == job.how[i] = "none" /\ \A m \in M : m.invoice # i

RunShaped(job) == /\ DOMAIN job = InvoiceFields /\ job.at \in DOMAIN InvoiceList
                  /\ DOMAIN job.how = Invoices /\ DOMAIN job.told = Invoices

(* What holds of the invoices other than the one at work, and what of that. *)
OthersSettled(M, job) ==
    /\ \A n \in DOMAIN InvoiceList : n < job.at => Reported(M, job, InvoiceList[n])
    /\ \A n \in DOMAIN InvoiceList : n > job.at => Untouched(M, job, InvoiceList[n])

AtWorkNoted(M, job) ==
    LET i == InvoiceList[job.at]
    IN /\ job.pc \in {"idle", "resolve", "config"} => job.moved = {} /\ Untouched(M, job, i)
       /\ job.pc = "move" => job.how[i] = "none" /\ job.moved = Confirmed(M, i)
       /\ job.pc = "over" => job.at = Len(InvoiceList) /\ Reported(M, job, i)

(* The deals still to move are those its order lines are linked to. *)
TodoLinked(job) ==
    job.pc \in {"config", "move"} =>
        job.todo \in Seq(LinkedDeals(InvoiceList[job.at])) /\ job.todo # <<>>

MovesLinked(M) == \A m \in M : m.deal \in LinkedDeals(m.invoice)

InvoicesInv == /\ RunShaped(invoiceRun) /\ IsFiniteSet(links)
               /\ invoiceRun.pc \in {"idle", "resolve", "config", "move", "over"}
               /\ OthersSettled(moves, invoiceRun) /\ AtWorkNoted(moves, invoiceRun)
               /\ TodoLinked(invoiceRun) /\ MovesLinked(moves)

LEMMA InvoicePositions ==
    /\ InvoiceList \in Seq(Invoices) /\ Len(InvoiceList) \in Nat \ {0}
    /\ DOMAIN InvoiceList = 1..Len(InvoiceList)
    /\ \A i \in Invoices : \E n \in DOMAIN InvoiceList : InvoiceList[n] = i
    /\ \A n \in DOMAIN InvoiceList : InvoiceList[n] \in Invoices
    /\ \A m, n \in DOMAIN InvoiceList : InvoiceList[m] = InvoiceList[n] => m = n
  BY DealsAssumption DEF Invoices, Range

(* An invoice ends with what it has moved. *)
LEMMA ToldReports ==
    ASSUME NEW M, NEW job, RunShaped(job), OthersSettled(M, job),
           job.moved = Confirmed(M, InvoiceList[job.at]),
           NEW what, \/ what \in {"updated", "failed"}
                     \/ what = "skipped" /\ \A m \in M : m.invoice # InvoiceList[job.at]
    PROVE  LET next == InvoiceTold(job, what)
           IN /\ RunShaped(next) /\ next.pc \in {"over", "resolve"}
              /\ OthersSettled(M, next) /\ AtWorkNoted(M, next) /\ TodoLinked(next)
  <1> DEFINE next == InvoiceTold(job, what)
             i == InvoiceList[job.at]
             last == job.at = Len(InvoiceList)
  <1>1. /\ DOMAIN next = InvoiceFields /\ next.pc = (IF last THEN "over" ELSE "resolve")
        /\ next.at = (IF last THEN job.at ELSE job.at + 1) /\ next.moved = {}
        /\ next.how = [job.how EXCEPT ![i] = what] /\ next.told = [job.told EXCEPT ![i] = job.moved]
    BY DEF InvoiceTold, RunShaped, InvoiceFields
  <1> HIDE DEF next
  <1>2. job.at \in 1..Len(InvoiceList) /\ i \in Invoices
    BY InvoicePositions DEF RunShaped
  <1>3. RunShaped(next)
    BY <1>1, <1>2, InvoicePositions DEF RunShaped
  <1>4. Reported(M, next, i)
    BY <1>1, <1>2 DEF Reported, RunShaped
  <1>5. ASSUME NEW n \in DOMAIN InvoiceList, n # job.at
        PROVE  /\ next.how[InvoiceList[n]] = job.how[InvoiceList[n]]
               /\ next.told[InvoiceList[n]] = job.told[InvoiceList[n]]
    BY <1>1, <1>2, <1>5, InvoicePositions DEF RunShaped
  <1>6. ASSUME NEW n \in DOMAIN InvoiceList, n < next.at PROVE Reported(M, next, InvoiceList[n])
    BY <1>1, <1>2, <1>4, <1>5, <1>6, InvoicePositions DEF OthersSettled, Reported
  <1>7. ASSUME NEW n \in DOMAIN InvoiceList, n > job.at PROVE Untouched(M, next, InvoiceList[n])
    BY <1>2, <1>5, <1>7, InvoicePositions DEF OthersSettled, Untouched
  <1>8. OthersSettled(M, next)
    BY <1>1, <1>2, <1>6, <1>7, InvoicePositions DEF OthersSettled
  <1>9. AtWorkNoted(M, next)
    BY <1>1, <1>2, <1>4, <1>7, InvoicePositions DEF AtWorkNoted
  <1> QED BY <1>1, <1>3, <1>8, <1>9 DEF TodoLinked, next

(* The links are finitely many, and so are the deals of an invoice. *)
LEMMA LinkedAreFinite ==
    ASSUME IsFiniteSet(links), NEW i PROVE IsFiniteSet(LinkedDeals(i))
  <1> DEFINE own == {x \in links : x.type = "order" /\ x.doc \in BaseEntries(i)}
             dealOf == [k \in own |-> k.deal]
  <1>1. IsFiniteSet(own)
    BY FS_Subset
  <1>2. dealOf \in Surjection(own, LinkedDeals(i))
    BY DEF Surjection, LinkedDeals
  <1> QED BY <1>1, <1>2, FS_Surjection

LEMMA EndingKeepsInvoices ==
    ASSUME NEW job, RunShaped(job), OthersSettled(moves', job),
           job.moved = Confirmed(moves', InvoiceList[job.at]),
           NEW what, \/ what \in {"updated", "failed"}
                     \/ what = "skipped" /\ \A m \in moves' : m.invoice # InvoiceList[job.at],
           invoiceRun' = InvoiceTold(job, what), UNCHANGED <<lines, links>>,
           IsFiniteSet(links), MovesLinked(moves')
    PROVE  InvoicesInv'
  <1> DEFINE next == InvoiceTold(job, what)
  <1>1. /\ RunShaped(next) /\ next.pc \in {"over", "resolve"}
        /\ OthersSettled(moves', next) /\ AtWorkNoted(moves', next)
    BY ToldReports
  <1>2. invoiceRun' = next
    OBVIOUS
  <1> HIDE DEF next
  <1>3. RunShaped(invoiceRun') /\ OthersSettled(moves', invoiceRun') /\ AtWorkNoted(moves', invoiceRun')
    BY <1>1, <1>2
  <1>4. \A i : LinkedDeals(i)' = LinkedDeals(i)
    BY DEF LinkedDeals, BaseEntries
  <1>5. TodoLinked(invoiceRun)' /\ MovesLinked(moves)'
    BY <1>1, <1>2, <1>4 DEF TodoLinked, MovesLinked
  <1> QED BY <1>1, <1>2, <1>3, <1>5 DEF InvoicesInv

LEMMA ResolvingKeepsInvoices ==
    ASSUME InvoicesInv, NEW kind, ResolveInvoice(kind) PROVE InvoicesInv'
  <1>1. UNCHANGED <<lines, links, moves>> /\ invoiceRun.pc = "resolve"
    BY DEF ResolveInvoice
  <1>2. invoiceRun.moved = Confirmed(moves, Invoice) /\ \A m \in moves : m.invoice # Invoice
    BY <1>1 DEF InvoicesInv, AtWorkNoted, Untouched, Confirmed, Invoice
  <1>3. ASSUME NEW what \in {"failed", "skipped"}, invoiceRun' = InvoiceTold(invoiceRun, what)
        PROVE  InvoicesInv'
    BY <1>1, <1>2, <1>3, EndingKeepsInvoices DEF InvoicesInv, Invoice
  <1>4. ASSUME LinkedDeals(Invoice) # {},
               NEW todo \in [1..Cardinality(LinkedDeals(Invoice)) -> LinkedDeals(Invoice)],
               Range(todo) = LinkedDeals(Invoice),
               invoiceRun' = [invoiceRun EXCEPT !.pc = "config", !.todo = todo]
        PROVE  InvoicesInv'
    <2>1. Cardinality(LinkedDeals(Invoice)) \in Nat
      BY LinkedAreFinite, FS_CardinalityType DEF InvoicesInv
    <2>2. todo \in Seq(LinkedDeals(Invoice)) /\ todo # <<>>
      BY <2>1, <1>4 DEF Range
    <2>3. /\ DOMAIN invoiceRun' = InvoiceFields /\ invoiceRun'.pc = "config" /\ invoiceRun'.todo = todo
          /\ invoiceRun'.at = invoiceRun.at /\ invoiceRun'.moved = invoiceRun.moved
          /\ invoiceRun'.how = invoiceRun.how /\ invoiceRun'.told = invoiceRun.told
      BY <1>4 DEF InvoicesInv, RunShaped, InvoiceFields
    <2>4. TodoLinked(invoiceRun)'
      BY <1>1, <2>2, <2>3 DEF TodoLinked, Invoice, LinkedDeals, BaseEntries
    <2>5. MovesLinked(moves)'
      BY <1>1 DEF InvoicesInv, MovesLinked, LinkedDeals, BaseEntries
    <2> QED BY <1>1, <2>3, <2>4, <2>5 DEF InvoicesInv, RunShaped, OthersSettled, AtWorkNoted, Reported,
              Untouched
  <1> QED BY <1>3, <1>4 DEF ResolveInvoice

LEMMA ReadingStageKeepsInvoices == InvoicesInv /\ ReadStage => InvoicesInv'
  <1> SUFFICES ASSUME InvoicesInv, ReadStage PROVE InvoicesInv'
    OBVIOUS
  <1>1. UNCHANGED <<lines, links, moves>> /\ invoiceRun.pc = "config"
    BY DEF ReadStage
  <1>2. invoiceRun.moved = Confirmed(moves, Invoice) /\ \A m \in moves : m.invoice # Invoice
    BY <1>1 DEF InvoicesInv, AtWorkNoted, Untouched, Confirmed, Invoice
  <1>3. CASE invoiceRun' = InvoiceTold(invoiceRun, "skipped")
    BY <1>1, <1>2, <1>3, EndingKeepsInvoices DEF InvoicesInv, Invoice
  <1>4. CASE invoiceRun' = [invoiceRun EXCEPT !.pc = "move"]
    <2>1. /\ DOMAIN invoiceRun' = InvoiceFields /\ invoiceRun'.pc = "move"
          /\ invoiceRun'.todo = invoiceRun.todo /\ invoiceRun'.at = invoiceRun.at
          /\ invoiceRun'.moved = invoiceRun.moved
          /\ invoiceRun'.how = invoiceRun.how /\ invoiceRun'.told = invoiceRun.told
      BY <1>4 DEF InvoicesInv, RunShaped, InvoiceFields
    <2>2. \A i : LinkedDeals(i)' = LinkedDeals(i)
      BY <1>1 DEF LinkedDeals, BaseEntries
    <2>3. TodoLinked(invoiceRun)' /\ MovesLinked(moves)'
      BY <1>1, <2>1, <2>2 DEF InvoicesInv, TodoLinked, MovesLinked
    <2>4. AtWorkNoted(moves, invoiceRun)'
      BY <1>1, <1>2, <2>1 DEF InvoicesInv, AtWorkNoted, Untouched, Invoice
    <2> QED BY <1>1, <2>1, <2>3, <2>4 DEF InvoicesInv, RunShaped, OthersSettled, Reported, Untouched
  <1> QED BY <1>3, <1>4 DEF ReadStage

(* A deal is moved: noted when HubSpot has confirmed it. *)
LEMMA MovingKeepsInvoices ==
    ASSUME InvoicesInv, NEW kind \in {"answered", "refused", "lost"}, MoveDeal(kind)
    PROVE  InvoicesInv'
  <1> DEFINE id == Head(invoiceRun.todo)
             job == Moved(invoiceRun, id)
             note == [invoice |-> Invoice, deal |-> id, known |-> kind = "answered"]
  <1>1. /\ UNCHANGED <<lines, links>> /\ invoiceRun.pc = "move"
        /\ moves' = IF kind = "refused" THEN moves ELSE moves \cup {note}
        /\ invoiceRun' = IF kind # "answered" THEN InvoiceTold(invoiceRun, "failed")
                         ELSE IF job.todo = <<>> THEN InvoiceTold(job, "updated") ELSE job
    BY DEF MoveDeal
  <1>2. /\ RunShaped(invoiceRun) /\ invoiceRun.moved = Confirmed(moves, Invoice)
        /\ invoiceRun.todo \in Seq(LinkedDeals(Invoice)) /\ invoiceRun.todo # <<>>
        /\ invoiceRun.how[Invoice] = "none"
    BY <1>1 DEF InvoicesInv, AtWorkNoted, TodoLinked, Invoice
  <1>3. id \in LinkedDeals(Invoice) /\ Tail(invoiceRun.todo) \in Seq(LinkedDeals(Invoice))
    BY <1>2
  <1>4. /\ DOMAIN job = InvoiceFields /\ job.pc = invoiceRun.pc /\ job.at = invoiceRun.at
        /\ job.todo = Tail(invoiceRun.todo) /\ job.moved = invoiceRun.moved \cup {id}
        /\ job.how = invoiceRun.how /\ job.told = invoiceRun.told
    BY <1>2 DEF Moved, RunShaped, InvoiceFields
  <1>5. note.invoice = Invoice /\ note.deal = id /\ note.known = (kind = "answered")
    OBVIOUS
  <1> HIDE DEF job, note, id
  <1>6. MovesLinked(moves')
    BY <1>1, <1>3, <1>5 DEF InvoicesInv, MovesLinked
  <1>7. OthersSettled(moves', invoiceRun)
    <2>1. ASSUME NEW n \in DOMAIN InvoiceList, n # invoiceRun.at PROVE InvoiceList[n] # Invoice
      BY <1>2, <2>1, InvoicePositions DEF Invoice, RunShaped
    <2>2. ASSUME NEW n \in DOMAIN InvoiceList, n # invoiceRun.at
          PROVE  {m \in moves' : m.invoice = InvoiceList[n]} = {m \in moves : m.invoice = InvoiceList[n]}
      BY <1>1, <1>5, <2>1, <2>2
    <2>3. ASSUME NEW n \in DOMAIN InvoiceList, n # invoiceRun.at
          PROVE  Confirmed(moves', InvoiceList[n]) = Confirmed(moves, InvoiceList[n])
      BY <1>1, <1>5, <2>1, <2>3 DEF Confirmed
    <2>4. invoiceRun.at \in Nat
      BY <1>2, InvoicePositions DEF RunShaped
    <2>5. ASSUME NEW n \in DOMAIN InvoiceList, n < invoiceRun.at
          PROVE  Reported(moves', invoiceRun, InvoiceList[n])
      BY <2>2, <2>3, <2>4, <2>5, InvoicePositions DEF InvoicesInv, OthersSettled, Reported
    <2>6. ASSUME NEW n \in DOMAIN InvoiceList, n > invoiceRun.at
          PROVE  Untouched(moves', invoiceRun, InvoiceList[n])
      BY <1>1, <1>5, <2>1, <2>4, <2>6, InvoicePositions DEF InvoicesInv, OthersSettled, Untouched
    <2> QED BY <2>5, <2>6 DEF OthersSettled
  <1>8. IsFiniteSet(links)
    BY DEF InvoicesInv
  <1>9. CASE kind # "answered"
    <2>1. Confirmed(moves', Invoice) = Confirmed(moves, Invoice)
      BY <1>1, <1>5, <1>9 DEF Confirmed
    <2> QED BY <1>1, <1>2, <1>6, <1>7, <1>8, <1>9, <2>1, EndingKeepsInvoices DEF Invoice
  <1>10. CASE kind = "answered"
    <2>1. RunShaped(job) /\ OthersSettled(moves', job)
      BY <1>2, <1>4, <1>7 DEF RunShaped, OthersSettled, Reported, Untouched
    <2>2. job.moved = Confirmed(moves', Invoice)
      <3>1. moves' = moves \cup {note} /\ note.known
        BY <1>1, <1>5, <1>10
      <3>2. \A x : x \in Confirmed(moves', Invoice) <=> x \in Confirmed(moves, Invoice) \/ x = id
        BY <3>1, <1>5 DEF Confirmed
      <3> QED BY <1>2, <1>4, <3>2
    <2>3. CASE job.todo = <<>>
      BY <1>1, <1>4, <1>6, <1>8, <1>10, <2>1, <2>2, <2>3, EndingKeepsInvoices DEF Invoice
    <2>4. CASE job.todo # <<>>
      <3>1. invoiceRun' = job
        BY <1>1, <1>10, <2>4
      <3>2. \A i : LinkedDeals(i)' = LinkedDeals(i)
        BY <1>1 DEF LinkedDeals, BaseEntries
      <3>3. TodoLinked(invoiceRun)' /\ MovesLinked(moves)'
        BY <1>3, <1>4, <1>6, <2>4, <3>1, <3>2 DEF TodoLinked, MovesLinked, Invoice
      <3>4. AtWorkNoted(moves, invoiceRun)'
        BY <1>1, <1>2, <1>4, <2>2, <3>1 DEF AtWorkNoted, Invoice
      <3>5. RunShaped(invoiceRun') /\ OthersSettled(moves', invoiceRun') /\ invoiceRun'.pc = "move"
        BY <1>1, <1>4, <2>1, <3>1
      <3> QED BY <1>1, <1>8, <3>3, <3>4, <3>5 DEF InvoicesInv
    <2> QED BY <2>3, <2>4
  <1> QED BY <1>9, <1>10

LEMMA NextKeepsInvoices == InvoicesInv /\ [DealNext]_dealVars => InvoicesInv'
  <1> SUFFICES ASSUME InvoicesInv, [DealNext]_dealVars PROVE InvoicesInv'
    OBVIOUS
  <1>1. CASE UNCHANGED <<lines, links, moves, invoiceRun>>
    BY <1>1 DEF InvoicesInv, RunShaped, OthersSettled, AtWorkNoted, TodoLinked, MovesLinked, Reported,
       Untouched, Confirmed, LinkedDeals, BaseEntries
  <1>2. CASE StartInvoices
    <2>1. /\ DOMAIN invoiceRun' = InvoiceFields /\ invoiceRun'.pc = "resolve" /\ invoiceRun'.at = 1
          /\ invoiceRun'.moved = {} /\ invoiceRun'.how = [i \in Invoices |-> "none"]
          /\ DOMAIN invoiceRun'.told = Invoices /\ moves' = {} /\ links' = links
      BY <1>2 DEF StartInvoices, RestingInvoices, InvoiceFields
    <2> QED BY <2>1, InvoicePositions DEF InvoicesInv, RunShaped, OthersSettled, AtWorkNoted, TodoLinked,
              MovesLinked, Untouched
  <1>3. CASE \/ StartOrders \/ PreprocessOrder \/ SwitchStage \/ SearchCatchesUp \/ UNCHANGED dealVars
             \/ (\E id, e : RenameDeal(id, e)) \/ (\E id : RegisterContact(id))
             \/ (\E kind : FindDeal(kind) \/ WriteDeal(kind) \/ AssociateDeal(kind))
    BY <1>1, <1>3 DEF StartOrders, PreprocessOrder, SwitchStage, SearchCatchesUp, dealVars, RenameDeal,
       RegisterContact, FindDeal, WriteDeal, AssociateDeal
  <1> QED BY <1>2, <1>3, ResolvingKeepsInvoices, ReadingStageKeepsInvoices, MovingKeepsInvoices DEF DealNext

LEMMA InitInvoices == DealInit /\ DealHoldings => InvoicesInv
  <1> SUFFICES ASSUME DealInit, DealHoldings PROVE InvoicesInv
    OBVIOUS
  <1>1. /\ DOMAIN invoiceRun = InvoiceFields /\ invoiceRun.pc = "idle" /\ invoiceRun.at = 1
        /\ invoiceRun.moved = {} /\ invoiceRun.how = [i \in Invoices |-> "none"]
        /\ DOMAIN invoiceRun.told = Invoices /\ moves = {} /\ IsFiniteSet(links)
    BY DEF DealInit, DealHoldings, RestingInvoices, InvoiceFields
  <1> QED BY <1>1, InvoicePositions DEF InvoicesInv, RunShaped, OthersSettled, AtWorkNoted, TodoLinked,
            MovesLinked, Untouched

\* An invoice moves the deals of the orders it was copied from and no other
\* (extractOrderBaseEntries, findByOrderDocEntry).
THEOREM InvoicesMoveTheirOrders == DealSpec => []MovesOnlyItsOrders
  <1>1. InvoicesInv => MovesOnlyItsOrders
    BY DEF InvoicesInv, MovesLinked, MovesOnlyItsOrders, LinkedDeals, BaseEntries
  <1> QED BY <1>1, InitInvoices, NextKeepsInvoices, PTL DEF DealSpec

\* Whatever call it fails at, an invoice reports every deal HubSpot has
\* confirmed as moved; one counted skipped has moved none
\* (invoice.handler.process).
THEOREM InvoicesReportTheirMoves == DealSpec => []MovedAreReported
  <1>1. InvoicesInv => MovedAreReported
    <2> SUFFICES ASSUME InvoicesInv, NEW i \in Invoices PROVE Reported(moves, invoiceRun, i)
      BY DEF MovedAreReported, Reported, Confirmed
    <2>1. PICK n \in DOMAIN InvoiceList : InvoiceList[n] = i
      BY InvoicePositions
    <2>2. invoiceRun.at \in Nat /\ n \in Nat
      BY InvoicePositions DEF InvoicesInv, RunShaped
    <2>3. CASE n # invoiceRun.at
      BY <2>1, <2>2, <2>3 DEF InvoicesInv, OthersSettled, Untouched, Reported
    <2>4. CASE n = invoiceRun.at
      BY <2>1, <2>4 DEF InvoicesInv, AtWorkNoted, Untouched, Reported
    <2> QED BY <2>3, <2>4
  <1> QED BY <1>1, InitInvoices, NextKeepsInvoices, PTL DEF DealSpec

-----------------------------------------------------------------------------
(* BusinessPartners.  Why a PATCH of a whole array loses nobody: an event   *)
(* that nothing has overtaken holds every code SAP holds for its partner,   *)
(* and what it sends holds every code it has.                               *)

EmployeeFields == {"key", "code", "val"}

AreEmployees(staff) ==
    \A s \in staff : DOMAIN s = EmployeeFields /\ s.code \in Nat \ {0}

PartnersInv ==
    /\ hired \in Nat
    /\ \A p \in partners : DOMAIN p = {"card", "staff"} /\ AreEmployees(p.staff)

DoingFields == {"pc", "tries", "card", "code", "val", "partner", "made", "searched", "seen",
                "staff", "todo", "codes", "errors"}

HasPartner(d) == d.pc \in {"fetch", "link", "contacts", "reread"} => d.partner \in Cards

HasItsStaff(d) ==
    d.pc \in {"link", "contacts"} =>
        \A p \in partners : p.card = d.partner =>
            \A s \in p.staff : \E t \in d.staff : t.code = s.code

IsDoing(d) == DOMAIN d = DoingFields /\ AreEmployees(d.staff)

EventInv(e) == /\ IsDoing(doing[e]) /\ HasPartner(doing[e])
               /\ e \notin overtaken => HasItsStaff(doing[e])

StaffInv == /\ PartnersInv /\ DOMAIN doing = Events
            /\ \A e \in Events : EventInv(e)

\* What one event's step may do to the others' copies of the array.
NoneOutdated(e) ==
    \A f \in Events : \/ f = e \/ f \in overtaken'
                      \/ f \notin overtaken /\ \A q \in partners' :
                            (q.card = doing[f].partner /\ q.card \in Cards) => q \in partners

LEMMA UnreadIsDoing ==
    ASSUME NEW e \in Events, IsDoing(doing[e])
    PROVE  /\ IsDoing(Unread(doing[e]))
           /\ Unread(doing[e]).pc = doing[e].pc /\ Unread(doing[e]).tries = doing[e].tries
  BY DEF Unread, IsDoing, DoingFields, AreEmployees

LEMMA EventStep ==
    ASSUME StaffInv, NEW e \in Events, NEW next, Goes(e, next), PartnersInv',
           Cards \subseteq Cards', NoneOutdated(e),
           IsDoing(next), HasPartner(next)', e \in overtaken' \/ HasItsStaff(next)'
    PROVE  StaffInv'
  <1>1. doing' = [doing EXCEPT ![e] = next] /\ DOMAIN doing = Events
    BY DEF Goes, StaffInv
  <1>2. DOMAIN doing' = Events /\ doing'[e] = next
    BY <1>1
  <1>3. ASSUME NEW f \in Events PROVE EventInv(f)'
    <2>1. CASE f = e
      BY <2>1, <1>2 DEF EventInv, IsDoing, HasPartner, HasItsStaff
    <2>2. CASE f # e
      <3>1. doing'[f] = doing[f] /\ EventInv(f)
        BY <1>1, <2>2 DEF StaffInv
      <3>2. HasPartner(doing[f])'
        BY <3>1 DEF EventInv, HasPartner
      <3>3. f \notin overtaken' => HasItsStaff(doing[f])'
        BY <2>2, <3>1 DEF NoneOutdated, EventInv, HasPartner, HasItsStaff
      <3> QED BY <3>1, <3>2, <3>3 DEF EventInv, IsDoing, HasPartner, HasItsStaff
    <2> QED BY <2>1, <2>2
  <1> QED BY <1>2, <1>3 DEF StaffInv

LEMMA StillFresh ==
    ASSUME UNCHANGED partners PROVE Cards' = Cards
  BY DEF Cards

\* A step of an event that leaves SAP's partners as they are and is at none of its copies.
LEMMA QuietStep ==
    ASSUME StaffInv, NEW e \in Events, NEW next, Goes(e, next), UNCHANGED <<partners, hired>>,
           overtaken \subseteq overtaken' \union {e},
           IsDoing(next), HasPartner(next), e \in overtaken' \/ HasItsStaff(next)
    PROVE  StaffInv'
  <1>1. PartnersInv' /\ Cards' = Cards
    BY StillFresh DEF StaffInv, PartnersInv, AreEmployees
  <1>2. NoneOutdated(e)
    BY DEF NoneOutdated
  <1>3. HasPartner(next)' /\ (e \in overtaken' \/ HasItsStaff(next)')
    BY <1>1 DEF HasPartner, HasItsStaff
  <1> QED BY <1>1, <1>2, <1>3, EventStep

LEMMA Retried ==
    ASSUME StaffInv, NEW e \in Events, Fails(e), UNCHANGED <<partners, hired, overtaken>>
    PROVE  StaffInv'
  <1>1. PICK next : /\ Goes(e, next)
                    /\ next = [Unread(doing[e]) EXCEPT !.tries = @ + 1,
                                  !.pc = IF doing[e].tries + 1 = MaxTries THEN "errored" ELSE "card"]
    BY DEF Fails
  <1>2. IsDoing(Unread(doing[e]))
    BY UnreadIsDoing DEF StaffInv, EventInv
  <1>3. IsDoing(next) /\ next.pc \in {"errored", "card"}
    BY <1>1, <1>2 DEF IsDoing, DoingFields, AreEmployees
  <1> QED BY <1>1, <1>3, QuietStep DEF HasPartner, HasItsStaff

\* Staff(card) holds what each partner of the card does.
LEMMA StaffOfCard ==
    ASSUME PartnersInv, NEW card
    PROVE  /\ AreEmployees(Staff(card))
           /\ \A p \in partners : p.card = card => p.staff \subseteq Staff(card)
           /\ \A s \in Staff(card) : \E p \in partners : p.card = card /\ s \in p.staff
  BY DEF PartnersInv, AreEmployees, Staff

LEMMA TakenIsFresh ==
    ASSUME StaffInv, NEW e \in Events, NEW card \in Cards, Taken(e, card, "link"),
           UNCHANGED <<partners, hired>>
    PROVE  StaffInv'
  <1>1. PICK next : /\ Goes(e, next)
                    /\ next = [doing[e] EXCEPT !.pc = "link", !.partner = card,
                                               !.staff = Staff(card), !.todo = ContactList]
    BY DEF Taken
  <1>2. IsDoing(doing[e]) /\ PartnersInv
    BY DEF StaffInv, EventInv
  <1>3. IsDoing(next) /\ next.pc = "link" /\ next.partner = card /\ next.staff = Staff(card)
    BY <1>1, <1>2, StaffOfCard DEF IsDoing, DoingFields
  <1>4. HasPartner(next) /\ HasItsStaff(next)
    BY <1>2, <1>3, StaffOfCard DEF HasPartner, HasItsStaff
  <1> QED BY <1>1, <1>3, <1>4, QuietStep DEF Taken

LEMMA FindByCardKeeps == ASSUME StaffInv, NEW e \in Events, FindByCard(e) PROVE StaffInv'
  <1>1. UNCHANGED <<partners, hired>>
    BY DEF FindByCard
  <1>2. CASE Fails(e) /\ UNCHANGED overtaken
    BY <1>1, <1>2, Retried
  <1>3. CASE doing[e].card \in Cards /\ Taken(e, doing[e].card, "link")
    BY <1>1, <1>3, TakenIsFresh
  <1>4. CASE Goes(e, [doing[e] EXCEPT !.pc = "field"]) /\ UNCHANGED overtaken
    <2>1. PICK next : Goes(e, next) /\ next = [doing[e] EXCEPT !.pc = "field"]
      BY <1>4
    <2>2. IsDoing(next) /\ next.pc = "field"
      BY <2>1 DEF StaffInv, EventInv, IsDoing, DoingFields, AreEmployees
    <2> QED BY <1>1, <1>4, <2>1, <2>2, QuietStep DEF HasPartner, HasItsStaff
  <1> QED BY <1>2, <1>3, <1>4 DEF FindByCard

LEMMA FindByFieldKeeps == ASSUME StaffInv, NEW e \in Events, FindByField(e) PROVE StaffInv'
  <1>1. UNCHANGED <<partners, hired>>
    BY DEF FindByField
  <1>2. IsDoing(doing[e]) /\ PartnersInv
    BY DEF StaffInv, EventInv
  <1>3. CASE Fails(e) /\ UNCHANGED overtaken
    BY <1>1, <1>3, Retried
  <1>4. ASSUME NEW card \in ByField, overtaken' = overtaken \ {e},
               Goes(e, [doing[e] EXCEPT !.pc = "link", !.partner = card, !.searched = TRUE,
                                        !.staff = Staff(card), !.todo = ContactList])
        PROVE StaffInv'
    <2>1. PICK next : /\ Goes(e, next)
                      /\ next = [doing[e] EXCEPT !.pc = "link", !.partner = card, !.searched = TRUE,
                                        !.staff = Staff(card), !.todo = ContactList]
      BY <1>4
    <2>2. IsDoing(next) /\ next.pc = "link" /\ next.partner = card /\ next.staff = Staff(card)
      BY <1>2, <2>1, StaffOfCard DEF IsDoing, DoingFields
    <2>3. HasPartner(next) /\ HasItsStaff(next)
      BY <1>2, <2>2, StaffOfCard DEF HasPartner, HasItsStaff, ByField
    <2> QED BY <1>1, <1>4, <2>1, <2>2, <2>3, QuietStep
  <1>5. CASE Goes(e, [doing[e] EXCEPT !.pc = "create", !.seen = Cards]) /\ UNCHANGED overtaken
    <2>1. PICK next : Goes(e, next) /\ next = [doing[e] EXCEPT !.pc = "create", !.seen = Cards]
      BY <1>5
    <2>2. IsDoing(next) /\ next.pc = "create"
      BY <1>2, <2>1 DEF IsDoing, DoingFields, AreEmployees
    <2> QED BY <1>1, <1>5, <2>1, <2>2, QuietStep DEF HasPartner, HasItsStaff
  <1> QED BY <1>3, <1>4, <1>5 DEF FindByField

\* The quiet steps that leave an event elsewhere than at its contacts.
LEMMA ElsewhereStep ==
    ASSUME StaffInv, NEW e \in Events, NEW next, Goes(e, next), UNCHANGED <<partners, hired>>,
           overtaken \subseteq overtaken' \union {e},
           IsDoing(next), next.pc \notin {"fetch", "link", "contacts", "reread"}
    PROVE  StaffInv'
  BY QuietStep DEF HasPartner, HasItsStaff

LEMMA ArriveKeeps == ASSUME StaffInv, NEW e \in Events, Arrive(e) PROVE StaffInv'
  <1>1. PICK next : /\ Goes(e, next)
                    /\ next = [doing[e] EXCEPT !.pc = "card", !.card = idsap, !.code = internal,
                                               !.val = value]
    BY DEF Arrive
  <1>2. IsDoing(next) /\ next.pc = "card"
    BY <1>1 DEF StaffInv, EventInv, IsDoing, DoingFields, AreEmployees
  <1> QED BY <1>1, <1>2, ElsewhereStep DEF Arrive

LEMMA FirstStaffAreEmployees ==
    ASSUME StaffInv, NEW e \in Events PROVE AreEmployees(FirstStaff(e))
  <1>1. hired \in Nat /\ \A i \in DOMAIN ContactList : i \in Nat \ {0}
    BY ContactsAssumption DEF StaffInv, PartnersInv
  <1> QED BY <1>1 DEF FirstStaff, AreEmployees, EmployeeFields

LEMMA CreateKeeps == ASSUME StaffInv, NEW e \in Events, Create(e) PROVE StaffInv'
  <1>1. PartnersInv /\ IsDoing(doing[e]) /\ overtaken' = overtaken
    BY DEF StaffInv, EventInv, Create
  <1>2. CASE UNCHANGED <<partners, hired>> /\ Fails(e)
    BY <1>1, <1>2, Retried
  <1>3. ASSUME NewCard(e) \notin Cards,
               partners' = partners \union {[card |-> NewCard(e), staff |-> FirstStaff(e)]},
               hired' = hired + (IF rules.nested THEN Len(ContactList) ELSE 0)
        PROVE StaffInv'
    <2>1. PartnersInv'
      <3>1. hired' \in Nat
        BY <1>1, <1>3, ContactsAssumption, LenProperties DEF PartnersInv
      <3>2. AreEmployees(FirstStaff(e))
        BY FirstStaffAreEmployees
      <3> QED BY <1>1, <1>3, <3>1, <3>2 DEF PartnersInv, AreEmployees
    <2>2. Cards' = Cards \union {NewCard(e)}
      <3>1. PICK new : new = [card |-> NewCard(e), staff |-> FirstStaff(e)]
        OBVIOUS
      <3>2. new.card = NewCard(e) /\ partners' = partners \union {new}
        BY <1>3, <3>1
      <3> QED BY <3>2 DEF Cards
    <2>3. NoneOutdated(e)
      BY <1>1, <1>3 DEF NoneOutdated
    <2>4. CASE Fails(e)
      <3>1. PICK next : /\ Goes(e, next)
                        /\ next = [Unread(doing[e]) EXCEPT !.tries = @ + 1,
                                      !.pc = IF doing[e].tries + 1 = MaxTries THEN "errored" ELSE "card"]
        BY <2>4 DEF Fails
      <3>2. IsDoing(Unread(doing[e]))
        BY <1>1, UnreadIsDoing
      <3>3. IsDoing(next) /\ next.pc \in {"errored", "card"}
        BY <3>1, <3>2 DEF IsDoing, DoingFields, AreEmployees
      <3> QED BY <2>1, <2>2, <2>3, <3>1, <3>3, EventStep DEF HasPartner, HasItsStaff
    <2>5. CASE Goes(e, [doing[e] EXCEPT !.pc = "fetch", !.partner = NewCard(e), !.made = TRUE])
      <3>1. PICK next : /\ Goes(e, next)
                        /\ next = [doing[e] EXCEPT !.pc = "fetch", !.partner = NewCard(e), !.made = TRUE]
        BY <2>5
      <3>2. IsDoing(next) /\ next.pc = "fetch" /\ next.partner = NewCard(e)
        BY <1>1, <3>1 DEF IsDoing, DoingFields, AreEmployees
      <3>3. HasPartner(next)' /\ HasItsStaff(next)'
        BY <2>2, <3>2 DEF HasPartner, HasItsStaff
      <3> QED BY <2>1, <2>2, <2>3, <3>1, <3>2, <3>3, EventStep
    <2> QED BY <1>3, <2>4, <2>5 DEF Create
  <1> QED BY <1>2, <1>3 DEF Create

LEMMA FetchCreatedKeeps == ASSUME StaffInv, NEW e \in Events, FetchCreated(e) PROVE StaffInv'
  <1>1. UNCHANGED <<partners, hired>>
    BY DEF FetchCreated
  <1>2. doing[e].partner \in Cards
    BY DEF FetchCreated, StaffInv, EventInv, HasPartner
  <1>3. CASE Taken(e, doing[e].partner, "link")
    BY <1>1, <1>2, <1>3, TakenIsFresh
  <1>4. CASE Fails(e) /\ UNCHANGED overtaken
    BY <1>1, <1>4, Retried
  <1> QED BY <1>3, <1>4 DEF FetchCreated

LEMMA LinkPartnerKeeps == ASSUME StaffInv, NEW e \in Events, LinkPartner(e) PROVE StaffInv'
  <1>1. UNCHANGED <<partners, hired, overtaken>>
    BY DEF LinkPartner
  <1>2. CASE Fails(e)
    BY <1>1, <1>2, Retried
  <1>3. CASE Goes(e, AfterLink(e))
    <2>1. PICK next : Goes(e, next) /\ next = AfterLink(e)
      BY <1>3
    <2>2. EventInv(e) /\ doing[e].pc = "link"
      BY DEF LinkPartner, StaffInv
    <2>3. /\ IsDoing(next) /\ next.pc = "contacts"
          /\ next.partner = doing[e].partner /\ next.staff = doing[e].staff
      BY <2>1, <2>2 DEF AfterLink, EventInv, IsDoing, DoingFields
    <2>4. HasPartner(next) /\ (e \notin overtaken => HasItsStaff(next))
      BY <2>2, <2>3 DEF EventInv, HasPartner, HasItsStaff
    <2> QED BY <1>1, <2>1, <2>3, <2>4, QuietStep
  <1> QED BY <1>2, <1>3 DEF LinkPartner

LEMMA WriteCodesKeeps == ASSUME StaffInv, NEW e \in Events, WriteCodes(e) PROVE StaffInv'
  <1>1. UNCHANGED <<partners, hired, overtaken>>
    BY DEF WriteCodes
  <1>2. CASE Fails(e)
    BY <1>1, <1>2, Retried
  <1>3. CASE Goes(e, [doing[e] EXCEPT !.pc = "cut"])
    <2>1. PICK next : Goes(e, next) /\ next = [doing[e] EXCEPT !.pc = "cut"]
      BY <1>3
    <2>2. IsDoing(next) /\ next.pc = "cut"
      BY <2>1 DEF StaffInv, EventInv, IsDoing, DoingFields, AreEmployees
    <2> QED BY <1>1, <2>1, <2>2, ElsewhereStep
  <1> QED BY <1>2, <1>3 DEF WriteCodes

LEMMA MakeDocumentKeeps == ASSUME StaffInv, NEW e \in Events, MakeDocument(e) PROVE StaffInv'
  <1>1. PICK next :
          /\ Goes(e, next)
          /\ next = [Unread(doing[e]) EXCEPT !.searched = doing[e].searched,
                                             !.pc = IF Stops(e) THEN "errored" ELSE "done"]
    BY DEF MakeDocument
  <1>2. IsDoing(Unread(doing[e]))
    BY UnreadIsDoing DEF StaffInv, EventInv
  <1>3. IsDoing(next) /\ next.pc \in {"errored", "done"}
    BY <1>1, <1>2 DEF IsDoing, DoingFields, AreEmployees
  <1> QED BY <1>1, <1>3, ElsewhereStep DEF MakeDocument

LEMMA RereadPartnerKeeps == ASSUME StaffInv, NEW e \in Events, RereadPartner(e) PROVE StaffInv'
  <1>1. UNCHANGED <<partners, hired>> /\ overtaken \subseteq overtaken' \union {e}
    BY DEF RereadPartner
  <1>2. EventInv(e) /\ PartnersInv /\ doing[e].pc = "reread"
    BY DEF RereadPartner, StaffInv
  <1>3. CASE Fails(e) /\ UNCHANGED overtaken
    BY <1>1, <1>3, Retried
  <1>4. ASSUME NEW c, NEW fresh, fresh = Staff(doing[e].partner),
               Goes(e, [doing[e] EXCEPT !.pc = "contacts", !.staff = fresh, !.todo = Tail(@),
                                        !.codes = [@ EXCEPT ![c] = CodeOf(fresh, c)]])
        PROVE StaffInv'
    <2>1. PICK next :
            /\ Goes(e, next)
            /\ next = [doing[e] EXCEPT !.pc = "contacts", !.staff = fresh, !.todo = Tail(@),
                                       !.codes = [@ EXCEPT ![c] = CodeOf(fresh, c)]]
      BY <1>4
    <2>2. /\ IsDoing(next) /\ next.pc = "contacts"
          /\ next.partner = doing[e].partner /\ next.staff = fresh
      BY <1>2, <1>4, <2>1, StaffOfCard DEF EventInv, IsDoing, DoingFields
    <2>3. HasPartner(next) /\ HasItsStaff(next)
      BY <1>2, <1>4, <2>2, StaffOfCard DEF EventInv, HasPartner, HasItsStaff
    <2> QED BY <1>1, <2>1, <2>2, <2>3, QuietStep
  <1> QED BY <1>3, <1>4 DEF RereadPartner

(* The PATCHes.  What is sent holds every code the event knows; what comes  *)
(* of it holds every code that was sent.                                    *)

IsSent(body) == \A s \in body : DOMAIN s = EmployeeFields /\ s.code \in Nat

LEMMA AfterSent ==
    ASSUME hired \in Nat, NEW staff, AreEmployees(staff), NEW body, IsSent(body)
    PROVE  /\ AreEmployees(After(staff, body))
           /\ \A s \in body : s.code # 0 => s \in After(staff, body)
           /\ \A t \in After(staff, body) :
                \/ t \in staff
                \/ \E s \in body : s.code = 0 \/ s.code = t.code
  <1>1. ASSUME NEW x \in body, x.code = 0
        PROVE  LET new == [x EXCEPT !.code = hired + 1]
               IN DOMAIN new = EmployeeFields /\ new.code \in Nat \ {0}
    BY <1>1 DEF IsSent, EmployeeFields
  <1>2. \A x \in body : x.code # 0 => DOMAIN x = EmployeeFields /\ x.code \in Nat \ {0}
    BY DEF IsSent
  <1>3. AreEmployees(After(staff, body))
    BY <1>1, <1>2 DEF After, AreEmployees
  <1>4. \A t \in After(staff, body) :
                \/ t \in staff
                \/ \E s \in body : s.code = 0 \/ s.code = t.code
    BY DEF After
  <1>5. \A s \in body : s.code # 0 => s \in After(staff, body)
    BY DEF After
  <1> QED BY <1>3, <1>4, <1>5

LEMMA PatchedPartners ==
    ASSUME StaffInv, NEW e \in Events, NEW body, IsSent(body), NEW kind, Patched(e, body, kind)
    PROVE  /\ PartnersInv' /\ Cards' = Cards /\ NoneOutdated(e)
           /\ overtaken \subseteq overtaken'
           /\ \A q \in partners' : q.card = doing[e].partner =>
                \E p \in partners : q.card = p.card /\ q.staff = After(p.staff, body)
           /\ \A p \in partners : \E q \in partners' :
                /\ q.card = p.card
                /\ q.staff = IF p.card = doing[e].partner THEN After(p.staff, body) ELSE p.staff
  <1> DEFINE Card == doing[e].partner
             Turned(p) == IF p.card = Card THEN [p EXCEPT !.staff = After(p.staff, body)] ELSE p
  <1>1. PartnersInv
    BY DEF StaffInv
  <1>2. partners' = {Turned(p) : p \in partners}
    BY DEF Patched
  <1>10. hired' = hired + (IF 0 \in Codes(body) THEN 1 ELSE 0)
    BY DEF Patched
  <1>11. overtaken' = overtaken \union {f \in Events : /\ doing[f].partner = Card
                                                      /\ f = e => kind = "lost"}
    BY DEF Patched
  <1>3. ASSUME NEW p \in partners
        PROVE  /\ DOMAIN Turned(p) = {"card", "staff"} /\ AreEmployees(Turned(p).staff)
               /\ Turned(p).card = p.card
               /\ Turned(p).staff = IF p.card = Card THEN After(p.staff, body) ELSE p.staff
               /\ p.card # Card => Turned(p) = p
    <2>1. DOMAIN p = {"card", "staff"} /\ AreEmployees(p.staff) /\ hired \in Nat
      BY <1>1 DEF PartnersInv
    <2>2. AreEmployees(After(p.staff, body))
      BY <2>1, AfterSent
    <2> QED BY <2>1, <2>2
  <1> HIDE DEF Turned
  <1>4. hired' \in Nat
    BY <1>1, <1>10 DEF PartnersInv
  <1>5. PartnersInv'
    BY <1>2, <1>3, <1>4 DEF PartnersInv, AreEmployees
  <1>6. Cards' = Cards
    BY <1>2, <1>3 DEF Cards
  <1>7. NoneOutdated(e)
    <2> SUFFICES ASSUME NEW f \in Events, f # e, f \notin overtaken'
                 PROVE  /\ f \notin overtaken
                        /\ \A q \in partners' : q.card = doing[f].partner => q \in partners
      BY DEF NoneOutdated
    <2>1. f \notin overtaken /\ doing[f].partner # Card
      BY <1>11
    <2> QED BY <1>2, <1>3, <2>1
  <1>8. \A q \in partners' : q.card = Card =>
                \E p \in partners : q.card = p.card /\ q.staff = After(p.staff, body)
    BY <1>2, <1>3
  <1>9. \A p \in partners : \E q \in partners' :
            q.card = p.card /\ q.staff = IF p.card = Card THEN After(p.staff, body) ELSE p.staff
    BY <1>2, <1>3
  <1> QED BY <1>11, <1>5, <1>6, <1>7, <1>8, <1>9

\* A PATCH by an event that goes on with next, its copy as it was or no longer of use.
LEMMA PatchStep ==
    ASSUME StaffInv, NEW e \in Events, doing[e].pc = "contacts", NEW body, IsSent(body), NEW kind,
           Patch(e, body, kind), NEW next, Goes(e, next), IsDoing(next),
           next.partner = doing[e].partner, next.staff = doing[e].staff,
           next.pc \in {"contacts", "reread"},
           (next.pc = "contacts" /\ kind # "lost") =>
               \/ ~Accepts(Staff(doing[e].partner), body)
               \/ \A s \in body : \E t \in next.staff : s.code # 0 /\ t.code = s.code
    PROVE  StaffInv'
  <1>1. EventInv(e) /\ PartnersInv /\ doing[e].partner \in Cards
    BY DEF StaffInv, EventInv, HasPartner
  <1>2. CASE UNCHANGED <<partners, hired, overtaken>>
    <2>1. HasPartner(next) /\ (e \notin overtaken => HasItsStaff(next))
      BY <1>1 DEF EventInv, HasPartner, HasItsStaff
    <2> QED BY <1>2, <2>1, QuietStep
  <1>3. CASE /\ kind # "refused" /\ Accepts(Staff(doing[e].partner), body)
             /\ Patched(e, body, kind)
    <2>1. /\ PartnersInv' /\ Cards' = Cards /\ NoneOutdated(e) /\ overtaken \subseteq overtaken'
          /\ \A q \in partners' : q.card = doing[e].partner =>
                \E p \in partners : q.card = p.card /\ q.staff = After(p.staff, body)
      BY <1>3, PatchedPartners
    <2>2. HasPartner(next)'
      BY <1>1, <2>1 DEF HasPartner
    <2>3. CASE next.pc = "reread"
      BY <2>1, <2>2, <2>3, EventStep DEF HasItsStaff
    <2>4. CASE kind = "lost"
      <3>1. e \in overtaken'
        BY <1>3, <2>4 DEF Patched
      <3> QED BY <2>1, <2>2, <3>1, EventStep
    <2>5. CASE e \in overtaken
      BY <2>1, <2>2, <2>5, EventStep
    <2>6. CASE next.pc = "contacts" /\ kind # "lost" /\ e \notin overtaken
      <3>1. \A s \in body : \E t \in next.staff : s.code # 0 /\ t.code = s.code
        BY <1>3, <2>6
      <3>2. \A p \in partners : p.card = next.partner =>
              \A s \in p.staff : \E t \in next.staff : t.code = s.code
        BY <1>1, <2>6 DEF EventInv, HasItsStaff
      <3>3. ASSUME NEW q \in partners', q.card = next.partner, NEW s \in q.staff
            PROVE  \E t \in next.staff : t.code = s.code
        <4>1. PICK p \in partners : q.card = p.card /\ q.staff = After(p.staff, body)
          BY <2>1, <3>3
        <4>2. s \in p.staff \/ \E x \in body : x.code = 0 \/ x.code = s.code
          BY <1>1, <3>3, <4>1, AfterSent DEF PartnersInv
        <4> QED BY <3>1, <3>2, <3>3, <4>1, <4>2
      <3>4. HasItsStaff(next)'
        BY <3>3 DEF HasItsStaff
      <3> QED BY <2>1, <2>2, <3>4, EventStep
    <2> QED BY <2>3, <2>4, <2>5, <2>6
  <1> QED BY <1>2, <1>3 DEF Patch

LEMMA UpdatedIsSent ==
    ASSUME NEW staff, AreEmployees(staff), NEW s \in staff,
           NEW new, DOMAIN new = EmployeeFields, new.code = s.code,
           NEW body, \A x : x \in body <=> (x \in staff /\ x # s) \/ x = new
    PROVE  /\ IsSent(body)
           /\ \A x \in body : \E t \in staff : x.code # 0 /\ t.code = x.code
           /\ \A t \in staff : \E x \in body : x.code # 0 /\ t.code = x.code
  BY DEF IsSent, AreEmployees

LEMMA MatchContactKeeps == ASSUME StaffInv, NEW e \in Events, MatchContact(e) PROVE StaffInv'
  <1>1. EventInv(e) /\ doing[e].pc = "contacts"
    BY DEF StaffInv, MatchContact
  <1>2. PICK s \in Existing(e, Head(doing[e].todo)) :
          /\ \/ UNCHANGED <<partners, hired, overtaken, incidents>>
             \/ \E kind \in {"answered", "refused", "lost"} :
                   Patch(e, (doing[e].staff \ {s})
                            \union {[s EXCEPT !.val = doing[e].val[Head(doing[e].todo)]]}, kind)
          /\ Goes(e, Found(e, s))
    BY DEF MatchContact
  <1>3. s \in doing[e].staff
    BY <1>2 DEF Existing
  <1>4. PICK next : Goes(e, next) /\ next = Found(e, s)
    BY <1>2
  <1>5. /\ IsDoing(next) /\ next.pc = "contacts"
        /\ next.partner = doing[e].partner /\ next.staff = doing[e].staff
    BY <1>1, <1>4 DEF Found, EventInv, IsDoing, DoingFields
  <1>6. CASE UNCHANGED <<partners, hired, overtaken, incidents>>
    <2>1. HasPartner(next) /\ (e \notin overtaken => HasItsStaff(next))
      BY <1>1, <1>5 DEF EventInv, HasPartner, HasItsStaff
    <2> QED BY <1>4, <1>5, <1>6, <2>1, QuietStep
  <1>7. ASSUME NEW kind,
               Patch(e, (doing[e].staff \ {s})
                        \union {[s EXCEPT !.val = doing[e].val[Head(doing[e].todo)]]}, kind)
        PROVE StaffInv'
    <2>1. PICK v, new, body : /\ new = [s EXCEPT !.val = v]
                              /\ body = (doing[e].staff \ {s}) \union {new}
                              /\ Patch(e, body, kind)
      BY <1>7
    <2>2. AreEmployees(doing[e].staff)
      BY <1>1 DEF EventInv, IsDoing
    <2>3. DOMAIN new = EmployeeFields /\ new.code = s.code
      BY <1>3, <2>1, <2>2 DEF AreEmployees, EmployeeFields
    <2>4. \A x : x \in body <=> (x \in doing[e].staff /\ x # s) \/ x = new
      BY <2>1
    <2>5. /\ IsSent(body)
          /\ \A x \in body : \E t \in doing[e].staff : x.code # 0 /\ t.code = x.code
      BY <1>3, <2>2, <2>3, <2>4, UpdatedIsSent
    <2> QED BY <1>1, <1>4, <1>5, <2>1, <2>5, PatchStep
  <1> QED BY <1>2, <1>6, <1>7

LEMMA ExtendedIsSent ==
    ASSUME NEW e \in Events, AreEmployees(doing[e].staff), NEW c
    PROVE  /\ IsSent(Extended(e, c))
           /\ \A t \in doing[e].staff : \E x \in Extended(e, c) : x.code # 0 /\ t.code = x.code
  BY DEF Extended, IsSent, AreEmployees, EmployeeFields

LEMMA AppendContactKeeps == ASSUME StaffInv, NEW e \in Events, AppendContact(e) PROVE StaffInv'
  <1>1. EventInv(e) /\ doing[e].pc = "contacts"
    BY DEF StaffInv, AppendContact
  <1>2. PICK c, kind :
          /\ kind \in {"answered", "refused", "lost"}
          /\ Patch(e, Extended(e, c), kind)
          /\ Goes(e, IF PatchAnswered(e, Extended(e, c), kind) THEN [doing[e] EXCEPT !.pc = "reread"]
                     ELSE Refused(e, c))
    BY DEF AppendContact
  <1>3. PICK body : body = Extended(e, c)
    OBVIOUS
  <1>4. IsSent(body)
    BY <1>1, <1>3, ExtendedIsSent DEF EventInv, IsDoing
  <1>5. PICK next :
          /\ Goes(e, next)
          /\ next = IF PatchAnswered(e, body, kind) THEN [doing[e] EXCEPT !.pc = "reread"]
                    ELSE Refused(e, c)
    BY <1>2, <1>3
  <1>6. CASE PatchAnswered(e, body, kind)
    <2>1. /\ IsDoing(next) /\ next.pc = "reread"
          /\ next.partner = doing[e].partner /\ next.staff = doing[e].staff
      BY <1>1, <1>5, <1>6 DEF EventInv, IsDoing, DoingFields
    <2> QED BY <1>1, <1>2, <1>3, <1>4, <1>5, <2>1, PatchStep
  <1>7. CASE ~PatchAnswered(e, body, kind)
    <2>1. /\ IsDoing(next) /\ next.pc = "contacts"
          /\ next.partner = doing[e].partner /\ next.staff = doing[e].staff
      BY <1>1, <1>5, <1>7 DEF Refused, EventInv, IsDoing, DoingFields
    <2>2. kind = "lost" \/ kind = "refused" \/ ~Accepts(Staff(doing[e].partner), body)
      BY <1>2, <1>7 DEF PatchAnswered
    <2>3. CASE kind = "refused"
      <3>1. UNCHANGED <<partners, hired, overtaken>>
        BY <1>2, <2>3 DEF Patch
      <3>2. HasPartner(next) /\ (e \notin overtaken => HasItsStaff(next))
        BY <1>1, <2>1 DEF EventInv, HasPartner, HasItsStaff
      <3> QED BY <1>5, <2>1, <3>1, <3>2, QuietStep
    <2>4. CASE kind = "lost" \/ ~Accepts(Staff(doing[e].partner), body)
      BY <1>1, <1>2, <1>3, <1>4, <1>5, <2>1, <2>4, PatchStep
    <2> QED BY <2>2, <2>3, <2>4
  <1> QED BY <1>6, <1>7

LEMMA HireInSapKeeps ==
    ASSUME StaffInv, NEW h \in partners, NEW c \in Contacts, HireInSap(h, c) PROVE StaffInv'
  <1>1. PICK new : new = [h EXCEPT !.staff = @ \union {[key |-> c, code |-> hired + 1, val |-> 0]}]
    OBVIOUS
  <1>2. /\ hired' = hired + 1 /\ doing' = doing /\ partners' = (partners \ {h}) \union {new}
        /\ overtaken' = overtaken \union {f \in Events : doing[f].partner = h.card}
    BY <1>1 DEF HireInSap
  <1>3. hired \in Nat /\ DOMAIN h = {"card", "staff"} /\ AreEmployees(h.staff)
    BY DEF StaffInv, PartnersInv
  <1>4. DOMAIN new = {"card", "staff"} /\ new.card = h.card /\ AreEmployees(new.staff)
    BY <1>1, <1>3 DEF AreEmployees, EmployeeFields
  <1>5. PartnersInv'
    BY <1>2, <1>3, <1>4 DEF StaffInv, PartnersInv, AreEmployees
  <1>6. Cards' = Cards
    BY <1>2, <1>4 DEF Cards
  <1>7. ASSUME NEW f \in Events PROVE EventInv(f)'
    <2>1. EventInv(f) /\ doing'[f] = doing[f]
      BY <1>2 DEF StaffInv
    <2>2. f \notin overtaken' => HasItsStaff(doing[f])'
      BY <1>2, <1>4, <2>1 DEF EventInv, HasItsStaff
    <2> QED BY <1>6, <2>1, <2>2 DEF EventInv, IsDoing, HasPartner, HasItsStaff
  <1> QED BY <1>2, <1>5, <1>7 DEF StaffInv

LEMMA NextKeepsStaff == StaffInv /\ [PartnerNext]_partnerVars => StaffInv'
  <1> SUFFICES ASSUME StaffInv, [PartnerNext]_partnerVars PROVE StaffInv'
    OBVIOUS
  <1>1. ASSUME NEW e \in Events, Process(e) PROVE StaffInv'
    BY <1>1, ArriveKeeps, FindByCardKeeps, FindByFieldKeeps, CreateKeeps, FetchCreatedKeeps,
       LinkPartnerKeeps, MatchContactKeeps, AppendContactKeeps, RereadPartnerKeeps,
       WriteCodesKeeps, MakeDocumentKeeps DEF Process
  <1>2. ASSUME UNCHANGED <<partners, hired, doing, overtaken>> PROVE StaffInv'
    BY <1>2 DEF StaffInv, PartnersInv, AreEmployees, EventInv, IsDoing, HasPartner, HasItsStaff, Cards
  <1>3. ASSUME NEW c \in Contacts, EditContact(c) PROVE StaffInv'
    BY <1>2, <1>3 DEF EditContact
  <1>4. CASE UNCHANGED partnerVars
    BY <1>2, <1>4 DEF partnerVars
  <1> QED BY <1>1, <1>3, <1>4, HireInSapKeeps DEF PartnerNext

LEMMA InitStaff == PartnerInit /\ PartnerHoldings => StaffInv
  <1> SUFFICES ASSUME PartnerInit, PartnerHoldings PROVE StaffInv
    OBVIOUS
  <1>1. PartnersInv
    BY DEF PartnerHoldings, PartnersInv, AreEmployees, EmployeeFields
  <1>2. ASSUME NEW e \in Events PROVE EventInv(e)
    BY DEF PartnerInit, Unsent, EventInv, IsDoing, DoingFields, AreEmployees, HasPartner, HasItsStaff
  <1> QED BY <1>1, <1>2 DEF StaffInv, PartnerInit

KeptOrOvertaken(p, s) ==
    \/ \E q \in partners' : q.card = p.card /\ s.code \in Codes(q.staff)
    \/ \E e \in overtaken : doing[e].pc = "contacts"

LEMMA StillThere ==
    ASSUME NEW p \in partners, NEW s \in p.staff, p \in partners' PROVE KeptOrOvertaken(p, s)
  BY DEF KeptOrOvertaken, Codes

LEMMA PatchKeeps ==
    ASSUME StaffInv, NEW e \in Events, doing[e].pc = "contacts", NEW body, IsSent(body),
           \A t \in doing[e].staff : \E x \in body : x.code # 0 /\ t.code = x.code,
           NEW kind, Patch(e, body, kind), NEW p \in partners, NEW s \in p.staff
    PROVE  KeptOrOvertaken(p, s)
  <1>1. CASE UNCHANGED partners
    BY <1>1, StillThere
  <1>2. CASE e \in overtaken
    BY <1>2 DEF KeptOrOvertaken
  <1>3. CASE Patched(e, body, kind) /\ e \notin overtaken
    <2>1. PICK q \in partners' :
            /\ q.card = p.card
            /\ q.staff = IF p.card = doing[e].partner THEN After(p.staff, body) ELSE p.staff
      BY <1>3, PatchedPartners
    <2>2. CASE p.card # doing[e].partner
      BY <2>1, <2>2 DEF KeptOrOvertaken, Codes
    <2>3. CASE p.card = doing[e].partner
      <3>1. PICK t \in doing[e].staff : t.code = s.code
        BY <1>3, <2>3 DEF StaffInv, EventInv, HasItsStaff
      <3>2. PICK x \in body : x.code # 0 /\ x.code = s.code
        BY <3>1
      <3>3. x \in After(p.staff, body)
        BY <3>2, AfterSent DEF StaffInv, PartnersInv
      <3> QED BY <2>1, <2>3, <3>2, <3>3 DEF KeptOrOvertaken, Codes
    <2> QED BY <2>2, <2>3
  <1> QED BY <1>1, <1>2, <1>3 DEF Patch

LEMMA StepKeepsContacts ==
    ASSUME StaffInv, PartnerNext, NEW p \in partners, NEW s \in p.staff
    PROVE  KeptOrOvertaken(p, s)
  <1>1. CASE UNCHANGED partners
    BY <1>1, StillThere
  <1>2. ASSUME NEW e \in Events, Create(e) PROVE KeptOrOvertaken(p, s)
    <2>1. p \in partners'
      BY <1>2 DEF Create
    <2> QED BY <2>1, StillThere
  <1>3. ASSUME NEW e \in Events, MatchContact(e) PROVE KeptOrOvertaken(p, s)
    <2>1. PICK r \in Existing(e, Head(doing[e].todo)) :
            \/ UNCHANGED <<partners, hired, overtaken, incidents>>
            \/ \E kind \in {"answered", "refused", "lost"} :
                  Patch(e, (doing[e].staff \ {r})
                           \union {[r EXCEPT !.val = doing[e].val[Head(doing[e].todo)]]}, kind)
      BY <1>3 DEF MatchContact
    <2>2. r \in doing[e].staff /\ doing[e].pc = "contacts" /\ AreEmployees(doing[e].staff)
      BY <1>3, <2>1 DEF Existing, MatchContact, StaffInv, EventInv, IsDoing
    <2>3. ASSUME NEW kind,
                 Patch(e, (doing[e].staff \ {r})
                          \union {[r EXCEPT !.val = doing[e].val[Head(doing[e].todo)]]}, kind)
          PROVE KeptOrOvertaken(p, s)
      <3>1. PICK v, new, body : /\ new = [r EXCEPT !.val = v]
                                /\ body = (doing[e].staff \ {r}) \union {new}
                                /\ Patch(e, body, kind)
        BY <2>3
      <3>2. DOMAIN new = EmployeeFields /\ new.code = r.code
        BY <2>2, <3>1 DEF AreEmployees, EmployeeFields
      <3>3. \A x : x \in body <=> (x \in doing[e].staff /\ x # r) \/ x = new
        BY <3>1
      <3>4. /\ IsSent(body)
            /\ \A t \in doing[e].staff : \E x \in body : x.code # 0 /\ t.code = x.code
        BY <2>2, <3>2, <3>3, UpdatedIsSent, SMTT(60)
      <3> QED BY <2>2, <3>1, <3>4, PatchKeeps
    <2> QED BY <1>1, <2>1, <2>3
  <1>4. ASSUME NEW e \in Events, AppendContact(e) PROVE KeptOrOvertaken(p, s)
    <2>1. PICK c, kind, body : body = Extended(e, c) /\ Patch(e, body, kind)
      BY <1>4 DEF AppendContact
    <2>2. doing[e].pc = "contacts" /\ AreEmployees(doing[e].staff)
      BY <1>4 DEF AppendContact, StaffInv, EventInv, IsDoing
    <2> QED BY <2>1, <2>2, ExtendedIsSent, PatchKeeps
  <1>5. ASSUME NEW h \in partners, NEW c \in Contacts, HireInSap(h, c) PROVE KeptOrOvertaken(p, s)
    <2>1. PICK new :
            /\ new = [h EXCEPT !.staff = @ \union {[key |-> c, code |-> hired + 1, val |-> 0]}]
            /\ partners' = (partners \ {h}) \union {new}
      BY <1>5 DEF HireInSap
    <2>2. DOMAIN h = {"card", "staff"}
      BY DEF StaffInv, PartnersInv
    <2>3. new.card = h.card /\ h.staff \subseteq new.staff
      BY <2>1, <2>2
    <2> QED BY <2>1, <2>3 DEF KeptOrOvertaken, Codes
  <1>6. ASSUME NEW e \in Events, Process(e) PROVE KeptOrOvertaken(p, s)
    BY <1>1, <1>2, <1>3, <1>4, <1>6
       DEF Process, Arrive, FindByCard, FindByField, FetchCreated, LinkPartner, RereadPartner,
           WriteCodes, MakeDocument
  <1>7. ASSUME NEW c \in Contacts, EditContact(c) PROVE KeptOrOvertaken(p, s)
    BY <1>1, <1>7 DEF EditContact
  <1> QED BY <1>5, <1>6, <1>7 DEF PartnerNext

\* No employee SAP holds is lost to an event that holds the array as SAP has
\* it, whatever happens between its reads and its PATCHes
\* (SapWebhookOrderAdapter's PATCHes of the whole array).
THEOREM EmployeesAreKept == PartnerSpec => ContactsKept
  <1>1. StaffInv /\ [PartnerNext]_partnerVars
          => [\A p \in partners : \A s \in p.staff :
                 \/ \E q \in partners' : q.card = p.card /\ s.code \in Codes(q.staff)
                 \/ \E e \in overtaken : doing[e].pc = "contacts"]_partnerVars
    BY StepKeepsContacts DEF KeptOrOvertaken
  <1> QED BY <1>1, InitStaff, NextKeepsStaff, PTL DEF PartnerSpec, ContactsKept

-----------------------------------------------------------------------------
(* Homologation.  RoundTrip needs what a row must say for a document to have got *)
(* the code of its owner (CodeCameFrom), and what a run has made of the code it  *)
(* read as long as no row changed (StayedTrue).                                  *)

RowsInOrder == \A r \in table : r.owner \in Owners /\ r.text \in Texts \union {Unset}

\* The code is of an owner whose row is in use.
NamedBy(code, owner) == \E r \in OwnersOfCode(code) : r.owner = owner
NobodyElse(code) == \A r, other \in OwnersOfCode(code) : r = other

CodeCameFrom == (undisturbed /\ sapOwner.from # NoOwner) => NamedBy(sapOwner.code, sapOwner.from)

StayedTrue ==
    (sync.pc # "idle" /\ sync.steady /\ sync.rec.from # NoOwner) =>
        /\ NamedBy(sync.rec.code, sync.rec.from)
        /\ (sync.pc # "load" /\ NobodyElse(sync.rec.code)) => sync.value \in {sync.rec.code, sync.rec.from}

OwnerShapes ==
    /\ sync.steady \in BOOLEAN /\ undisturbed \in BOOLEAN
    /\ sync.pc \in {"idle", "load", "preprocess", "write"}
    /\ DOMAIN sync = {"pc", "rec", "seen", "known", "value", "steady"}
    /\ present \subseteq Owners /\ DOMAIN request = Admins
    /\ \A a \in Admins : request[a].pc = "found" =>
          request[a].owner \in Owners /\ request[a].text \in Texts

EquivalenceInv == RowsInOrder /\ OwnerShapes /\ CodeCameFrom /\ StayedTrue

LEMMA OwnersFirst == ASSUME OwnerInit PROVE EquivalenceInv
  BY Zenon DEF OwnerInit, EquivalenceInv, RowsInOrder, OwnerShapes, CodeCameFrom, StayedTrue, NoOwnerRun, NoRequest

\* A step that changes rows makes nobody's knowledge steady.
LEMMA RowsChange ==
    ASSUME EquivalenceInv, NEW data, TableBecomes(data), DOMAIN request' = Admins,
           \A r \in data : r.owner \in Owners /\ r.text \in Texts \union {Unset},
           \A a \in Admins : request'[a].pc = "found" =>
               request'[a].owner \in Owners /\ request'[a].text \in Texts
    PROVE  EquivalenceInv'
<1>1. ~undisturbed' /\ ~sync'.steady /\ sync'.pc = sync.pc
      /\ DOMAIN sync' = {"pc", "rec", "seen", "known", "value", "steady"}
  BY DEF TableBecomes, EquivalenceInv, OwnerShapes
<1>2. RowsInOrder'
  BY DEF TableBecomes, RowsInOrder
<1>3. OwnerShapes'
  BY <1>1 DEF EquivalenceInv, OwnerShapes, TableBecomes, Outside
<1> QED
  BY <1>1, <1>2, <1>3 DEF EquivalenceInv, CodeCameFrom, StayedTrue

\* A step that touches neither rows nor the run nor what a document named.
LEMMA OthersOfOwners ==
    ASSUME EquivalenceInv, UNCHANGED <<table, sync, undisturbed, sapOwner>>,
           present' \subseteq Owners, DOMAIN request' = Admins,
           \A a \in Admins : request'[a].pc = "found" =>
               request'[a].owner \in Owners /\ request'[a].text \in Texts
    PROVE  EquivalenceInv'
  BY DEF EquivalenceInv, RowsInOrder, OwnerShapes, CodeCameFrom, StayedTrue, NamedBy, NobodyElse, OwnersOfCode

LEMMA RequestsStay ==
    ASSUME OwnerShapes
    PROVE  /\ DOMAIN request = Admins
           /\ \A a \in Admins : request[a].pc = "found" => request[a].owner \in Owners /\ request[a].text \in Texts
  BY DEF OwnerShapes

LEMMA TouchedStays ==
    ASSUME OwnerShapes, NEW id
    PROVE  /\ DOMAIN Touched(id) = Admins
           /\ \A a \in Admins : Touched(id)[a].pc = "found" =>
               Touched(id)[a].owner \in Owners /\ Touched(id)[a].text \in Texts
<1>1. ASSUME NEW a \in Admins, NEW b, Touched(id)[a] = [request[a] EXCEPT !.touched = b]
      PROVE  /\ Touched(id)[a].pc = "found" => request[a].pc = "found"
             /\ Touched(id)[a].owner = request[a].owner /\ Touched(id)[a].text = request[a].text
  BY <1>1
<1> QED
  BY <1>1 DEF Touched, OwnerShapes

LEMMA MissingOwners ==
    ASSUME NEW S \in SUBSET Owners
    PROVE  \A n \in DOMAIN SetToSeq(S) : SetToSeq(S)[n] \in S
<1>1. IsFiniteSet(S)
  BY OwnersAreFinite, FS_Subset
<1>2. PICK f \in Bijection(1 .. Cardinality(S), S) : TRUE
  BY <1>1, FS_CardinalityType DEF ExistsBijection
<1>3. f \in [1 .. Cardinality(S) -> S] /\ IsInjective(f)
  BY <1>2 DEF Bijection, Injection, IsInjective
<1>4. SetToSeq(S) \in [1 .. Cardinality(S) -> S]
  BY <1>3 DEF SetToSeq
<1> QED
  BY <1>4

LEMMA SeedKeeps == ASSUME EquivalenceInv, SeedOwners PROVE EquivalenceInv'
<1> DEFINE absent == present \ {r.owner : r \in table}
           added == {OwnerRow(lastId + n, SetToSeq(absent)[n], Unset) : n \in DOMAIN SetToSeq(absent)}
<1>1. TableBecomes(table \union added) /\ UNCHANGED request
  BY DEF SeedOwners, SeededRows
<1>2. absent \subseteq Owners
  BY DEF EquivalenceInv, OwnerShapes
<1>3. \A n \in DOMAIN SetToSeq(absent) : SetToSeq(absent)[n] \in Owners
  BY <1>2, MissingOwners
<1> HIDE DEF absent
<1>4. \A r \in added : r.owner \in Owners /\ r.text = Unset
  <2> SUFFICES ASSUME NEW n \in DOMAIN SetToSeq(absent)
               PROVE  /\ OwnerRow(lastId + n, SetToSeq(absent)[n], Unset).owner \in Owners
                      /\ OwnerRow(lastId + n, SetToSeq(absent)[n], Unset).text = Unset
    OBVIOUS
  <2> QED
    BY <1>3 DEF OwnerRow
<1>5. \A r \in table \union added : r.owner \in Owners /\ r.text \in Texts \union {Unset}
  BY <1>4 DEF EquivalenceInv, RowsInOrder
<1> QED
  BY <1>1, <1>5, RowsChange, RequestsStay DEF EquivalenceInv

LEMMA SavesKeep == ASSUME EquivalenceInv, NEW a \in Admins, UpsertSaves(a) PROVE EquivalenceInv'
<1> DEFINE q == request[a]
           answered(reply) == [NoRequest EXCEPT !.pc = "answered", !.reply = reply]
<1>1. q.pc = "found" /\ q.owner \in Owners /\ q.text \in Texts
  BY DEF UpsertSaves, EquivalenceInv, OwnerShapes
<1>2. \A reply : answered(reply).pc = "answered"
  BY DEF NoRequest
<1>3. ASSUME NEW row, row.owner \in Owners, row.text \in Texts \union {Unset}
      PROVE  \A r \in {r \in table : r.id # row.id} \union {row} :
                 r.owner \in Owners /\ r.text \in Texts \union {Unset}
  BY <1>3 DEF EquivalenceInv, RowsInOrder
<1>4. ASSUME NEW requests, NEW reply, DOMAIN requests = Admins,
             request' = [requests EXCEPT ![a] = answered(reply)],
             \A b \in Admins : requests[b].pc = "found" => requests[b].owner \in Owners /\ requests[b].text \in Texts
      PROVE  /\ DOMAIN request' = Admins
             /\ \A b \in Admins : request'[b].pc = "found" => request'[b].owner \in Owners /\ request'[b].text \in Texts
  <2> HIDE DEF answered
  <2>1. \A b \in Admins : request'[b] = requests[b] \/ request'[b] = answered(reply)
    BY <1>4
  <2> QED
    BY <1>2, <1>4, <2>1
<1>5. ASSUME NEW row, row.owner \in Owners, row.text \in Texts \union {Unset}, Free(table, row),
             TableBecomes({r \in table : r.id # row.id} \union {row}),
             request' = [Touched(row.id) EXCEPT ![a] = answered("ok")]
      PROVE  EquivalenceInv'
  <2>1. DOMAIN Touched(row.id) = Admins
        /\ \A b \in Admins : Touched(row.id)[b].pc = "found" =>
               Touched(row.id)[b].owner \in Owners /\ Touched(row.id)[b].text \in Texts
    BY TouchedStays DEF EquivalenceInv
  <2> HIDE DEF answered
  <2> QED
    BY <1>3, <1>4, <1>5, <2>1, RowsChange
<1>6. ASSUME TableBecomes(table), NEW reply, request' = [request EXCEPT ![a] = answered(reply)]
      PROVE  EquivalenceInv'
  <2>1. DOMAIN request = Admins
        /\ \A b \in Admins : request[b].pc = "found" => request[b].owner \in Owners /\ request[b].text \in Texts
    BY RequestsStay DEF EquivalenceInv
  <2> HIDE DEF answered
  <2> QED
    BY <1>4, <1>6, <2>1, RowsChange DEF EquivalenceInv, RowsInOrder
<1>7. CASE q.held = {}
  <2> DEFINE row == OwnerRow(lastId + 1, q.owner, q.text)
  <2>1. row.owner \in Owners /\ row.text \in Texts \union {Unset}
    BY <1>1 DEF OwnerRow
  <2>2. IF Free(table, row)
        THEN /\ TableBecomes({r \in table : r.id # row.id} \union {row})
             /\ request' = [Touched(row.id) EXCEPT ![a] = answered("ok")]
        ELSE /\ TableBecomes(table)
             /\ request' = [request EXCEPT ![a] = answered("conflict")]
    BY Zenon, <1>7 DEF UpsertSaves
  <2> HIDE DEF row
  <2> QED
    BY <1>5, <1>6, <2>1, <2>2
<1>8. CASE q.held # {}
  <2>1. PICK held \in q.held :
           \/ \E row \in {r \in table : r.id = held.id} :
                 IF Free(table, SavedRow(row, held, q.owner))
                 THEN /\ TableBecomes({r \in table : r.id # SavedRow(row, held, q.owner).id}
                                      \union {SavedRow(row, held, q.owner)})
                      /\ request' = [Touched(SavedRow(row, held, q.owner).id) EXCEPT ![a] = answered("ok")]
                 ELSE /\ TableBecomes(table)
                      /\ request' = [request EXCEPT ![a] = answered("conflict")]
           \/ TableBecomes(table) /\ request' = [request EXCEPT ![a] = answered("error")]
    BY Zenon, <1>8 DEF UpsertSaves
  <2>2. ASSUME NEW row \in table
        PROVE  /\ SavedRow(row, held, q.owner).owner \in Owners
               /\ SavedRow(row, held, q.owner).text \in Texts \union {Unset}
    <3>1. row.owner \in Owners /\ row.text \in Texts \union {Unset}
      BY DEF EquivalenceInv, RowsInOrder
    <3>2. SavedRow(row, held, q.owner).text = row.text
          /\ SavedRow(row, held, q.owner).owner \in {row.owner, q.owner}
      BY DEF SavedRow
    <3> QED BY <1>1, <3>1, <3>2
  <2> QED
    BY <1>5, <1>6, <2>1, <2>2
<1> QED BY <1>7, <1>8

LEMMA RowWritesKeep ==
    ASSUME EquivalenceInv, CreateRow \/ PatchRow \/ DeleteRow
    PROVE  EquivalenceInv'
<1>1. DOMAIN request = Admins
      /\ \A b \in Admins : request[b].pc = "found" => request[b].owner \in Owners /\ request[b].text \in Texts
  BY RequestsStay DEF EquivalenceInv
<1>2. \A id : /\ DOMAIN Touched(id) = Admins
              /\ \A b \in Admins : Touched(id)[b].pc = "found" =>
                     Touched(id)[b].owner \in Owners /\ Touched(id)[b].text \in Texts
  BY TouchedStays DEF EquivalenceInv
<1>3. CASE CreateRow
  <2>1. PICK o \in Owners, text \in Texts \union {Unset} : TableBecomes(table \union {OwnerRow(lastId + 1, o, text)})
    BY <1>3, Zenon DEF CreateRow
  <2>2. \A r \in table \union {OwnerRow(lastId + 1, o, text)} : r.owner \in Owners /\ r.text \in Texts \union {Unset}
    BY DEF EquivalenceInv, RowsInOrder, OwnerRow
  <2> QED
    BY <1>1, <1>3, <2>1, <2>2, RowsChange DEF CreateRow
<1>4. CASE PatchRow
  <2>1. PICK row \in table, text \in Texts \union {Unset}, active \in BOOLEAN :
           /\ TableBecomes((table \ {row}) \union {[row EXCEPT !.text = text, !.active = active]})
           /\ request' = Touched(row.id)
    BY <1>4, Zenon DEF PatchRow
  <2> DEFINE patched == [row EXCEPT !.text = text, !.active = active]
  <2>2. patched.owner = row.owner /\ patched.text \in {row.text, text}
    OBVIOUS
  <2>3. \A r \in (table \ {row}) \union {patched} : r.owner \in Owners /\ r.text \in Texts \union {Unset}
    BY <2>2 DEF EquivalenceInv, RowsInOrder
  <2>4. TableBecomes((table \ {row}) \union {patched})
    BY <2>1
  <2>5. DOMAIN request' = Admins
        /\ \A b \in Admins : request'[b].pc = "found" => request'[b].owner \in Owners /\ request'[b].text \in Texts
    BY <1>2, <2>1
  <2> HIDE DEF patched
  <2> QED
    BY <2>3, <2>4, <2>5, RowsChange
<1>5. CASE DeleteRow
  <2>1. PICK row \in table : TableBecomes(table \ {row}) /\ request' = Touched(row.id)
    BY <1>5 DEF DeleteRow
  <2>2. \A r \in table \ {row} : r.owner \in Owners /\ r.text \in Texts \union {Unset}
    BY DEF EquivalenceInv, RowsInOrder
  <2> QED
    BY <1>2, <2>1, <2>2, RowsChange
<1> QED BY <1>3, <1>4, <1>5

LEMMA FindsKeeps == ASSUME EquivalenceInv, NEW a \in Admins, UpsertFinds(a) PROVE EquivalenceInv'
<1>1. PICK o \in Owners, text \in {t \in Texts : CodesOf(t) # {}} :
          request' = [request EXCEPT ![a] = [NoRequest EXCEPT !.pc = "found", !.owner = o, !.text = text,
                                                              !.held = {r \in table : r.text = text}]]
  BY Zenon DEF UpsertFinds
<1> DEFINE found == [NoRequest EXCEPT !.pc = "found", !.owner = o, !.text = text,
                                      !.held = {r \in table : r.text = text}]
<1>2. found.owner = o /\ found.text = text
  BY DEF NoRequest
<1>3. DOMAIN request = Admins
      /\ \A b \in Admins : request[b].pc = "found" => request[b].owner \in Owners /\ request[b].text \in Texts
  BY RequestsStay DEF EquivalenceInv
<1> HIDE DEF found
<1>4. \A b \in Admins : request'[b] = request[b] \/ request'[b] = found
  BY <1>1, <1>3 DEF found
<1>5. DOMAIN request' = Admins
      /\ \A b \in Admins : request'[b].pc = "found" => request'[b].owner \in Owners /\ request'[b].text \in Texts
  BY <1>1, <1>2, <1>3, <1>4
<1>6. UNCHANGED <<table, sync, undisturbed, sapOwner, present>>
  BY DEF UpsertFinds, Outside
<1> QED
  BY <1>5, <1>6, OthersOfOwners DEF EquivalenceInv, OwnerShapes

LEMMA OutsideKeeps ==
    ASSUME EquivalenceInv, OwnerLeaves \/ SomeoneReassigns \/ SapReassigns
    PROVE  EquivalenceInv'
<1>1. DOMAIN request = Admins
      /\ \A b \in Admins : request[b].pc = "found" => request[b].owner \in Owners /\ request[b].text \in Texts
  BY RequestsStay DEF EquivalenceInv
<1>2. CASE OwnerLeaves \/ SomeoneReassigns
  <2>1. /\ UNCHANGED <<table, sync, undisturbed, sapOwner, request>>
        /\ present' \subseteq Owners
    BY <1>2 DEF OwnerLeaves, SomeoneReassigns, TableRests, EquivalenceInv, OwnerShapes
  <2> QED BY <1>1, <2>1, OthersOfOwners
<1>3. CASE SapReassigns
  <2>1. undisturbed' = FALSE /\ UNCHANGED <<table, sync, request, present>>
    BY <1>3 DEF SapReassigns, TableRests
  <2> QED
    BY <2>1 DEF EquivalenceInv, RowsInOrder, OwnerShapes, CodeCameFrom, StayedTrue, NamedBy, NobodyElse, OwnersOfCode
<1> QED BY <1>2, <1>3

\* A row of one code has this code alone, which is one that SAP has.
LEMMA OneCode ==
    ASSUME NEW text \in Texts \union {Unset}, Len(text) = 1, CodesOf(text) # {}
    PROVE  Head(text) \in CodesOf(text)
<1>1. text \in Seq(SapCodes \union {NoCode}) /\ text = <<Head(text)>>
  BY TextsHoldCodes, <<>> \in Seq(SapCodes \union {NoCode}) DEF Unset
<1>2. Range(text) = {Head(text)}
  BY <1>1 DEF Range
<1> QED BY <1>2 DEF CodesOf

LEMMA DocumentKeeps == ASSUME EquivalenceInv, WriteDocument PROVE EquivalenceInv'
<1>1. PICK code \in SlpCodes(dealOwner) : sapOwner' = [code |-> code, from |-> dealOwner]
  BY DEF WriteDocument
<1>2. PICK r \in table : r.active /\ r.owner = dealOwner /\ Len(r.text) = 1 /\ CodesOf(r.text) # {} /\ code = Head(r.text)
  BY Zenon, <1>1 DEF SlpCodes
<1>3. r \in OwnersOfCode(code)
  BY <1>2, OneCode DEF OwnersOfCode, EquivalenceInv, RowsInOrder
<1>4. NamedBy(code, dealOwner)
  BY <1>2, <1>3 DEF NamedBy
<1>5. UNCHANGED <<table, request, present, sync>> /\ undisturbed' = TRUE
  BY DEF WriteDocument, TableRests
<1>6. CodeCameFrom'
  BY <1>1, <1>4, <1>5 DEF CodeCameFrom, NamedBy, OwnersOfCode
<1> QED
  BY <1>5, <1>6 DEF EquivalenceInv, RowsInOrder, OwnerShapes, StayedTrue, NamedBy, NobodyElse, OwnersOfCode

LEMMA FetchKeeps == ASSUME EquivalenceInv, FetchRecord PROVE EquivalenceInv'
<1>1. /\ UNCHANGED <<table, request, present, sapOwner, undisturbed>>
      /\ sync' = [NoOwnerRun EXCEPT !.pc = "load", !.rec = sapOwner, !.steady = undisturbed]
  BY DEF FetchRecord, OwnerRunStep, TableRests
<1>2. sync'.pc = "load" /\ sync'.rec = sapOwner /\ sync'.steady = undisturbed
      /\ DOMAIN sync' = {"pc", "rec", "seen", "known", "value", "steady"}
  BY <1>1 DEF NoOwnerRun
<1>3. StayedTrue'
  BY <1>1, <1>2 DEF EquivalenceInv, StayedTrue, CodeCameFrom, NamedBy, OwnersOfCode
<1> QED
  BY <1>1, <1>2, <1>3 DEF EquivalenceInv, RowsInOrder, OwnerShapes, CodeCameFrom, NamedBy, OwnersOfCode

\* Whoever alone holds the code is the owner it came from.
LEMMA AloneIsTheOwner ==
    ASSUME NEW code, NEW owner, NamedBy(code, owner), NobodyElse(code)
    PROVE  \A r \in OwnersOfCode(code) : r.owner = owner
  BY DEF NamedBy, NobodyElse

\* No owner's id is a code that a row holds.
LEMMA HeldCodes ==
    ASSUME RowsInOrder, NEW code, OwnersOfCode(code) # {}
    PROVE  code \in SapCodes /\ code # NoCode
<1>1. PICK r \in table : code \in CodesOf(r.text)
  BY DEF OwnersOfCode
<1>2. r.text \in Seq(SapCodes \union {NoCode})
  BY TextsHoldCodes, <<>> \in Seq(SapCodes \union {NoCode}) DEF RowsInOrder, Unset
<1>3. Range(r.text) \subseteq SapCodes \union {NoCode}
  BY <1>2 DEF Range
<1> QED BY <1>1, <1>3 DEF CodesOf

LEMMA LoadKeeps == ASSUME EquivalenceInv, LoadDirectory PROVE EquivalenceInv'
<1>1. PICK knows \in BOOLEAN :
         \E v \in IF knows /\ field # "deal" THEN Translations(sync.rec.code) ELSE {sync.rec.code} :
            sync' = [sync EXCEPT !.pc = IF field = "user" THEN "write" ELSE "preprocess",
                                 !.known = knows, !.value = v, !.seen = table]
  BY Zenon DEF LoadDirectory
<1>1a. PICK v \in IF knows /\ field # "deal" THEN Translations(sync.rec.code) ELSE {sync.rec.code} :
         sync' = [sync EXCEPT !.pc = IF field = "user" THEN "write" ELSE "preprocess",
                              !.known = knows, !.value = v, !.seen = table]
  BY <1>1
<1>2. /\ sync'.pc \in {"write", "preprocess"} /\ sync'.rec = sync.rec /\ sync'.steady = sync.steady
      /\ sync'.value = v /\ DOMAIN sync' = {"pc", "rec", "seen", "known", "value", "steady"}
  BY <1>1a DEF EquivalenceInv, OwnerShapes
<1>3. sync.pc = "load" /\ UNCHANGED <<table, request, present, sapOwner, undisturbed>>
  BY DEF LoadDirectory, OwnerRunStep, TableRests
<1>4. ASSUME NamedBy(sync.rec.code, sync.rec.from), NobodyElse(sync.rec.code)
      PROVE  v \in {sync.rec.code, sync.rec.from}
  <2>1. \A r \in OwnersOfCode(sync.rec.code) : r.owner = sync.rec.from
    BY <1>4, AloneIsTheOwner
  <2>2. OwnersOfCode(sync.rec.code) # {} /\ sync.rec.code # NoCode
    BY <1>4, HeldCodes DEF NamedBy, EquivalenceInv
  <2>3. Translations(sync.rec.code) = {r.owner : r \in OwnersOfCode(sync.rec.code)}
    BY <2>2 DEF Translations
  <2> QED
    BY <1>1a, <2>1, <2>3
<1>5. StayedTrue'
  BY <1>2, <1>3, <1>4 DEF EquivalenceInv, StayedTrue, NamedBy, NobodyElse, OwnersOfCode
<1> QED
  BY <1>2, <1>3, <1>5 DEF EquivalenceInv, RowsInOrder, OwnerShapes, CodeCameFrom, NamedBy, OwnersOfCode

LEMMA PreprocessKeeps == ASSUME EquivalenceInv, PreprocessOwner PROVE EquivalenceInv'
<1> DEFINE found == {r.owner : r \in IF sync.value = NoCode THEN {} ELSE OwnersOfCode(sync.value)}
<1>1. PICK v \in IF found = {} THEN {sync.value} ELSE found :
         sync' = [sync EXCEPT !.pc = "write", !.value = v, !.seen = @ \union table]
  BY Zenon DEF PreprocessOwner
<1>2. /\ sync'.pc = "write" /\ sync'.rec = sync.rec /\ sync'.steady = sync.steady
      /\ sync'.value = v /\ DOMAIN sync' = {"pc", "rec", "seen", "known", "value", "steady"}
  BY <1>1 DEF EquivalenceInv, OwnerShapes
<1>3. sync.pc = "preprocess" /\ UNCHANGED <<table, request, present, sapOwner, undisturbed>>
  BY DEF PreprocessOwner, OwnerRunStep, TableRests
<1>4. ASSUME NamedBy(sync.rec.code, sync.rec.from), NobodyElse(sync.rec.code),
             sync.value \in {sync.rec.code, sync.rec.from}
      PROVE  v \in {sync.rec.code, sync.rec.from}
  <2>1. \A r \in OwnersOfCode(sync.rec.code) : r.owner = sync.rec.from
    BY <1>4, AloneIsTheOwner
  <2>2. sync.rec.from \in Owners
    BY <1>4 DEF NamedBy, OwnersOfCode, EquivalenceInv, RowsInOrder
  <2>3. OwnersOfCode(sync.rec.from) = {}
    BY <2>2, HeldCodes, OwnersAreNoCodes DEF EquivalenceInv
  <2>4. sync.value = sync.rec.from => v = sync.rec.from
    BY <1>1, <2>3
  <2>5. sync.value = sync.rec.code => v \in {sync.rec.code, sync.rec.from}
    BY <1>1, <2>1
  <2> QED BY <1>4, <2>4, <2>5
<1>5. StayedTrue'
  BY <1>2, <1>3, <1>4 DEF EquivalenceInv, StayedTrue, NamedBy, NobodyElse, OwnersOfCode
<1> QED
  BY <1>2, <1>3, <1>5 DEF EquivalenceInv, RowsInOrder, OwnerShapes, CodeCameFrom, NamedBy, OwnersOfCode

LEMMA RecordKeeps == ASSUME EquivalenceInv, WriteRecord PROVE EquivalenceInv'
<1>1. sync' = NoOwnerRun /\ UNCHANGED <<table, request, present, sapOwner, undisturbed>>
  BY DEF WriteRecord, OwnerRunStep, TableRests
<1>2. sync'.pc = "idle" /\ sync'.steady = FALSE /\ DOMAIN sync' = {"pc", "rec", "seen", "known", "value", "steady"}
  BY <1>1 DEF NoOwnerRun
<1> QED
  BY <1>1, <1>2 DEF EquivalenceInv, RowsInOrder, OwnerShapes, CodeCameFrom, StayedTrue, NamedBy, OwnersOfCode

LEMMA StepKeepsEquivalence == ASSUME EquivalenceInv, [OwnerNext]_ownerVars PROVE EquivalenceInv'
<1>1. CASE OwnerNext
  BY <1>1, SeedKeeps, RowWritesKeep, FindsKeeps, SavesKeep, OutsideKeeps, DocumentKeeps, FetchKeeps, LoadKeeps,
     PreprocessKeeps, RecordKeeps DEF OwnerNext
<1>2. CASE UNCHANGED ownerVars
  BY <1>2 DEF ownerVars, EquivalenceInv, RowsInOrder, OwnerShapes, CodeCameFrom, StayedTrue, NamedBy, NobodyElse,
     OwnersOfCode
<1> QED BY <1>1, <1>2

\* A deal whose document got the code of its owner keeps this owner when a run brings the
\* code back, as long as no row of the table changed and nobody else holds the code
\* (resolveDocumentSlpCode, owner-directory, translateSapOwnerValue).
THEOREM OwnersComeBack == OwnerSpec => RoundTrip
<1>1. ASSUME EquivalenceInv, [OwnerNext]_ownerVars, sync.pc = "write", sync'.pc = "idle",
             sync.rec.from # NoOwner, sync.steady,
             \A r, other \in OwnersOfCode(sync.rec.code) : r = other
      PROVE  dealOwner' \in {dealOwner, sync.rec.from}
  <2>1. NobodyElse(sync.rec.code)
    BY <1>1 DEF NobodyElse
  <2>2. NamedBy(sync.rec.code, sync.rec.from) /\ sync.value \in {sync.rec.code, sync.rec.from}
    BY <1>1, <2>1 DEF EquivalenceInv, StayedTrue
  <2>3. sync.rec.from \in Owners /\ OwnersOfCode(sync.rec.code) # {}
    BY <2>2, <1>1 DEF NamedBy, OwnersOfCode, EquivalenceInv, RowsInOrder
  <2>4. sync.rec.code # NoCode /\ sync.rec.code \notin Owners
    BY <2>3, <1>1, HeldCodes, OwnersAreNoCodes DEF EquivalenceInv
  <2>5. sync.value # NoCode /\ (sync.value \in present => sync.value = sync.rec.from)
    BY <1>1, <2>2, <2>3, <2>4, OwnersAreNoCodes DEF EquivalenceInv, OwnerShapes
  <2>6. WriteRecord => dealOwner' \in {dealOwner, sync.rec.from}
    BY <2>5 DEF WriteRecord
  <2>7. ASSUME TableBecomes(table') \/ UNCHANGED sync PROVE sync'.pc = sync.pc
    BY <1>1, <2>7 DEF TableBecomes, EquivalenceInv, OwnerShapes
  <2>8. CASE SeedOwners \/ CreateRow \/ PatchRow \/ DeleteRow \/ \E a \in Admins : UpsertFinds(a) \/ UpsertSaves(a)
    <3>1. TableBecomes(table') \/ UNCHANGED sync
      BY <2>8, ZenonT(60) DEF SeedOwners, CreateRow, PatchRow, DeleteRow, UpsertFinds, UpsertSaves, TableBecomes
    <3> QED BY <1>1, <2>7, <3>1
  <2>9. CASE UNCHANGED sync
    BY <1>1, <2>9
  <2>10. CASE OwnerLeaves \/ SomeoneReassigns \/ SapReassigns \/ WriteDocument
    BY <2>9, <2>10 DEF OwnerLeaves, SomeoneReassigns, SapReassigns, WriteDocument
  <2>11. CASE FetchRecord \/ LoadDirectory \/ PreprocessOwner
    BY <1>1, <2>11 DEF FetchRecord, LoadDirectory, PreprocessOwner
  <2> QED
    BY <1>1, <2>6, <2>8, <2>9, <2>10, <2>11 DEF OwnerNext, ownerVars
<1>2. EquivalenceInv /\ [OwnerNext]_ownerVars =>
         ((sync.pc = "write" /\ sync'.pc = "idle" /\ sync.rec.from # NoOwner /\ sync.steady
            /\ \A r, other \in OwnersOfCode(sync.rec.code) : r = other) =>
              dealOwner' \in {dealOwner, sync.rec.from})
  BY <1>1
<1> QED
  BY <1>2, OwnersFirst, StepKeepsEquivalence, PTL DEF OwnerSpec, RoundTrip
-----------------------------------------------------------------------------
(* CrmBatches and ChildContacts.  What a run has in hand: each row is in one *)
(* place, none of those has a record of this run, and an update writes over  *)
(* a record the key it carries, or one where it carries none.                *)
\* The properties of a record and of a task.
Fields == Property \cup {"by", "run", "how"}
TaskFields == {"chunk", "queue", "created", "conflicts", "errors", "failedRows", "items"}

\* A sequence without a double; two sequences with an element in common.
Once(s) == \A i, j \in DOMAIN s : s[i] = s[j] => i = j
Shares(s, t) == \E i \in DOMAIN s, j \in DOMAIN t : s[i] = t[j]

\* Rows, employees and records carry what they may carry.
DataShaped ==
    /\ rows \in Seq(ToSet(rows)) /\ DOMAIN children = Row
    /\ \A r \in Row :
          /\ DOMAIN rows[r] = Property /\ rows[r].code = ""
          /\ children[r] \in Seq(ToSet(children[r]))
          /\ \A j \in DOMAIN children[r] : DOMAIN children[r][j] = Property

\* A record made for a partner keeps the partner's key.
MadeForPartner(record) ==
    record.by # 0 =>
        /\ record.by \in Row /\ record.run \in 1 .. run /\ record.how \in {"batch", "item"}
        /\ rows[record.by].idsap # "" => record.idsap = rows[record.by].idsap

PortalShaped ==
    /\ run \in Nat /\ portal \in Seq(ToSet(portal))
    /\ \A i \in DOMAIN portal : DOMAIN portal[i] = Fields /\ MadeForPartner(portal[i])

\* This run has made a record for the row.
MadeNow(r) == \E i \in DOMAIN portal : portal[i].by = r /\ portal[i].run = run

\* What has been swept is there, and nothing has been made for a partner since.
SweptIsThere ==
    /\ pc # "idle" => run # 0
    /\ pc \in {"sweep", "properties", "plan", "sap"} => \A r \in Row : ~MadeNow(r)
    /\ pc \in {"properties", "plan"} =>
          /\ DOMAIN index \subseteq DOMAIN portal
          /\ \A i \in DOMAIN index : index[i] = portal[i]
          /\ \A i \in DOMAIN portal \ DOMAIN index : portal[i].by = 0
    /\ pc = "childplan" => index = portal
    /\ pc \in {"plan", "sap", "create", "update"} => known # "no"

\* The key a batch update writes over a record is the one the record carries, if
\* it carries any.
WritesItsOwn(r, id) ==
    /\ r \in Row /\ id \in DOMAIN portal
    /\ portal[id].by # 0 /\ rows[portal[id].by].idsap # "" => rows[portal[id].by].idsap = rows[r].idsap
    /\ id \notin adopted =>
          /\ portal[id].idsap \in {"", rows[r].idsap}
          /\ portal[id].code # "" => portal[id].idsap = rows[r].idsap

\* The rows and the records a list of updates is of.
UpdatedRows(those) == {those[i][1] : i \in DOMAIN those}
UpdatedIds(those) == {those[i][2] : i \in DOMAIN those}

\* A list of updates: each row and each record is in it once.
Planned(those) ==
    /\ those \in Seq(Row \X Nat)
    /\ \A i, j \in DOMAIN those : those[i][1] = those[j][1] \/ those[i][2] = those[j][2] => i = j
    /\ \A i \in DOMAIN those : WritesItsOwn(those[i][1], those[i][2])

\* The rows a task may still make records for, while it makes them and while it
\* updates what there is.
Queued(task) == UNION {ToSet(task.queue[q]) : q \in DOMAIN task.queue}
Waiting(task) == Queued(task) \cup ToSet(task.items)
Unwritten(task) == IF task.queue # <<>> THEN UpdatedRows(task.chunk) ELSE ToSet(task.items)

\* No row stands twice in what a task has left to do.
TidyQueue(task) ==
    /\ task.queue \in Seq(Seq(Row)) /\ task.items \in Seq(Row) /\ Once(task.items)
    /\ \A q \in DOMAIN task.queue : Once(task.queue[q]) /\ ~Shares(task.queue[q], task.items)
    /\ \A p, q \in DOMAIN task.queue : p # q => ~Shares(task.queue[p], task.queue[q])

\* While records are made: the rows of a task have none of this run, and no two
\* tasks have one of them.
MakingTidy ==
    pc \in {"sap", "create", "items"} =>
        /\ \A k \in DOMAIN tasks :
              /\ DOMAIN tasks[k] = TaskFields /\ TidyQueue(tasks[k])
              /\ \A r \in Waiting(tasks[k]) : ~MadeNow(r)
        /\ \A j, k \in DOMAIN tasks : j # k => Waiting(tasks[j]) \cap Waiting(tasks[k]) = {}

\* While records are updated: a chunk is a list of updates until it is sent.
TidyUpdate(task) ==
    /\ DOMAIN task = TaskFields /\ task.items \in Seq(Row) /\ Once(task.items)
    /\ task.queue # <<>> => Planned(task.chunk)

\* No two tasks update one record, or have left one row.
UpdatingTidy ==
    pc = "update" =>
        /\ \A k \in DOMAIN tasks : TidyUpdate(tasks[k]) /\ \A r \in Unwritten(tasks[k]) : ~MadeNow(r)
        /\ \A j, k \in DOMAIN tasks : j # k =>
              /\ Unwritten(tasks[j]) \cap Unwritten(tasks[k]) = {}
              /\ tasks[j].queue # <<>> /\ tasks[k].queue # <<>> =>
                    UpdatedIds(tasks[j].chunk) \cap UpdatedIds(tasks[k].chunk) = {}

\* The updates planned are of rows that nothing is made for.
UpdatesTidy ==
    pc \in {"sap", "create"} =>
        /\ Planned(updates)
        /\ \A r \in UpdatedRows(updates) : ~MadeNow(r) /\ \A k \in DOMAIN tasks : r \notin Waiting(tasks[k])

\* What a run creates in batches: one row for each key, and of keys HubSpot knew
\* no record of when the run began.
CreatedOnce(C) ==
    /\ \A r, q \in C : rows[r].idsap # "" /\ rows[r].idsap = rows[q].idsap => r = q
    /\ \A k \in DOMAIN tasks : Queued(tasks[k]) \subseteq C
    /\ \A i \in DOMAIN portal :
          portal[i].by # 0 =>
              /\ portal[i].run = run /\ portal[i].how = "batch" => portal[i].by \in C
              /\ \A r \in C : rows[r].idsap # "" /\ rows[portal[i].by].idsap = rows[r].idsap
                     => portal[i].run = run

\* While records are made there is such a set.
CreatesTidy == pc \in {"sap", "create"} => \E C \in SUBSET Row : CreatedOnce(C)

\* Contact employees: those that have a record are written only if it is theirs.
Deciding(e) == First(groups, e) /\ groups[e][1] = "record"

\* The entries are employees.
EntriesShaped ==
    pc \in {"childplan", "childcreate", "childupdate"} =>
        /\ entries \in Seq(ToSet(entries))
        /\ \A e \in DOMAIN entries : DOMAIN Props(e) = Property

\* The record that decides an entry is in HubSpot, is of no other employee, and
\* decides no other entry.
GroupsKept ==
    pc \in {"childcreate", "childupdate"} =>
        \A e \in DOMAIN entries : Deciding(e) =>
            /\ groups[e][2] \in DOMAIN portal
            /\ portal[groups[e][2]].code \in {"", Props(e).code}
            /\ \A f \in DOMAIN entries : Deciding(f) /\ groups[f][2] = groups[e][2] => f = e

\* The tasks of the employees are of entries; what is updated is what decides.
EntryTasks ==
    /\ pc = "childcreate" => \A k \in DOMAIN tasks :
          /\ DOMAIN tasks[k] = TaskFields
          /\ tasks[k].queue \in Seq(Seq(DOMAIN entries)) /\ tasks[k].items \in Seq(DOMAIN entries)
    /\ pc = "childupdate" => \A k \in DOMAIN tasks :
          /\ DOMAIN tasks[k] = TaskFields
          /\ \A i \in DOMAIN tasks[k].chunk : tasks[k].chunk[i] \in DOMAIN entries /\ Deciding(tasks[k].chunk[i])

\* The invariant: what is so of the partners, and of their employees.
PartnersTidy ==
    /\ DataShaped /\ PortalShaped /\ SweptIsThere /\ MakingTidy /\ UpdatingTidy
    /\ UpdatesTidy /\ CreatesTidy /\ OneRecordPerPartner
EmployeesTidy == EntriesShaped /\ GroupsKept /\ EntryTasks
CrmInv == PartnersTidy /\ EmployeesTidy
-----------------------------------------------------------------------------
(* CrmBatches: rows in order, chunks, matches.                               *)

\* A set of numbers has a least one: it takes the place of induction.
LEMMA Least == ASSUME NEW T, T \subseteq Nat, T # {}
               PROVE  \E x \in T : \A y \in T : x <= y
<1>1. PICK m \in T : TRUE
  OBVIOUS
<1> PICK S : S = 0 .. m
  OBVIOUS
<1>2. IsFiniteSet(S)
  BY <1>1, FS_Interval
<1>3. IsWellFoundedOn(StrictSubsetOrdering(S), FiniteSubsetsOf(S))
  BY FS_StrictSubsetOrderingWellFounded
<1> PICK C : C = {0 .. x : x \in {t \in T : t <= m}}
  OBVIOUS
<1>4. C # {} /\ C \subseteq FiniteSubsetsOf(S)
  <2>1. C # {}
    BY <1>1
  <2>2. FiniteSubsetsOf(S) = SUBSET S
    BY <1>2, FS_FiniteSubsetsOfFinite
  <2>3. \A x \in T : x <= m => 0 .. x \subseteq S
    BY <1>1
  <2>4. C \subseteq SUBSET S
    BY <2>3
  <2> QED
    BY <2>1, <2>2, <2>4
<1>5. \E x \in C : \A y \in C : ~(<<y, x>> \in StrictSubsetOrdering(S))
  BY <1>3, <1>4, WFMin
<1>6. PICK x \in T : x <= m /\ \A y \in C : ~(<<y, 0 .. x>> \in StrictSubsetOrdering(S))
  BY <1>5
<1>7. ASSUME NEW y \in T, y < x PROVE FALSE
  <2>1. 0 .. y \in C
    BY <1>1, <1>6, <1>7
  <2>2. 0 .. y \subseteq 0 .. x /\ 0 .. y # 0 .. x
    BY <1>7
  <2>3. (0 .. y) \in SUBSET S /\ (0 .. x) \in SUBSET S
    BY <1>1, <1>6, <1>7
  <2> QED
    BY <1>6, <2>1, <2>2, <2>3 DEF StrictSubsetOrdering
<1> QED
  BY <1>6, <1>7
-----------------------------------------------------------------------------
(* CrmBatches and ChildContacts.  Lists: what Ordered, ChunkArray and Halves make *)
(* of one is made of its elements.                                               *)

\* Every rank of a finite set of numbers is the rank of one of them.
LEMMA RanksAreMet ==
    ASSUME NEW N \in Nat, NEW S, S \subseteq 1 .. N, NEW k \in 1 .. Cardinality(S)
    PROVE  \E n \in S : Cardinality({m \in S : m <= n}) = k
<1> DEFINE Below(n) == {m \in S : m <= n}
           Ahead(n) == Cardinality(Below(n))
<1>1. IsFiniteSet(S) /\ Cardinality(S) \in Nat
  <2>1. IsFiniteSet(1 .. N)
    BY FS_Interval
  <2>2. IsFiniteSet(S)
    BY <2>1, FS_Subset
  <2> QED
    BY <2>2, FS_CardinalityType
<1>2. \A n \in S : /\ Below(n) \in SUBSET S /\ IsFiniteSet(Below(n)) /\ n \in Below(n)
                   /\ Ahead(n) \in 1 .. Cardinality(S)
  <2> SUFFICES ASSUME NEW n \in S
               PROVE  /\ Below(n) \in SUBSET S /\ IsFiniteSet(Below(n)) /\ n \in Below(n)
                      /\ Ahead(n) \in 1 .. Cardinality(S)
    OBVIOUS
  <2>1. Below(n) \in SUBSET S /\ n \in Below(n)
    OBVIOUS
  <2>2. IsFiniteSet(Below(n)) /\ Ahead(n) <= Cardinality(S) /\ Ahead(n) \in Nat
    BY <1>1, <2>1, FS_Subset, FS_CardinalityType
  <2>3. Ahead(n) # 0
    BY <2>1, <2>2, FS_EmptySet
  <2> QED
    BY <1>1, <2>1, <2>2, <2>3
<1>3. \A n, m \in S : n < m => Ahead(n) < Ahead(m)
  <2> SUFFICES ASSUME NEW n \in S, NEW m \in S, n < m PROVE Ahead(n) < Ahead(m)
    OBVIOUS
  <2>0. n \in Nat /\ m \in Nat /\ \A x \in S : x \in Nat
    OBVIOUS
  <2>a. \A x \in Below(n) : x \in Below(m)
    BY <2>0
  <2>b. m \in Below(m) /\ m \notin Below(n)
    BY <2>0
  <2>1. Below(n) \in SUBSET Below(m) /\ m \in Below(m) /\ m \notin Below(n)
    <3> HIDE DEF Below
    <3> QED BY <2>a, <2>b
  <2>2. Below(n) # Below(m)
    BY <2>1
  <2>3. Ahead(n) \in Nat /\ Ahead(m) \in Nat /\ IsFiniteSet(Below(m))
    BY <1>2
  <2>4. Ahead(n) <= Ahead(m) /\ (Ahead(n) = Ahead(m) => Below(n) = Below(m))
    BY <2>1, <2>3, FS_Subset
  <2> QED
    BY <2>2, <2>3, <2>4
<1> DEFINE rank == [n \in S |-> Ahead(n)]
           image == {rank[n] : n \in S}
<1>4. rank \in Injection(S, 1 .. Cardinality(S))
  <2>1. rank \in [S -> 1 .. Cardinality(S)]
    BY <1>2
  <2>2. \A n, m \in S : n # m => rank[n] # rank[m]
    <3> SUFFICES ASSUME NEW n \in S, NEW m \in S, n # m PROVE Ahead(n) # Ahead(m)
      OBVIOUS
    <3>1. n < m \/ m < n
      OBVIOUS
    <3>2. Ahead(n) \in Nat /\ Ahead(m) \in Nat
      BY <1>2
    <3> HIDE DEF Ahead
    <3> QED
      BY <1>3, <3>1, <3>2
  <2> HIDE DEF rank
  <2> QED
    BY <2>1, <2>2 DEF Injection, IsInjective
<1>5. IsFiniteSet(1 .. Cardinality(S)) /\ Cardinality(1 .. Cardinality(S)) = Cardinality(S)
  BY <1>1, FS_Interval
<1>6. rank \in Surjection(S, 1 .. Cardinality(S))
  BY <1>1, <1>4, <1>5, FS_Injection
<1> QED
  BY <1>6 DEF Surjection

\* The numbers of a set, each once.
LEMMA OrderedIsOfSet ==
    ASSUME NEW N \in Nat, NEW S, S \subseteq 1 .. N
    PROVE  /\ Ordered(S) \in Seq(S)
           /\ Once(Ordered(S))
<1> DEFINE C == Cardinality(S)
           Place(k) == CHOOSE n \in S : Cardinality({m \in S : m <= n}) = k
<1>1. C \in Nat
  <2>1. IsFiniteSet(1 .. N)
    BY FS_Interval
  <2>2. IsFiniteSet(S)
    BY <2>1, FS_Subset
  <2> QED
    BY <2>2, FS_CardinalityType
<1>2. \A k \in 1 .. C : Place(k) \in S /\ Cardinality({m \in S : m <= Place(k)}) = k
  <2> SUFFICES ASSUME NEW k \in 1 .. C
               PROVE  Place(k) \in S /\ Cardinality({m \in S : m <= Place(k)}) = k
    OBVIOUS
  <2>1. \E n \in S : Cardinality({m \in S : m <= n}) = k
    BY RanksAreMet, ZenonT(60)
  <2> QED
    BY <2>1
<1>3. Ordered(S) = [k \in 1 .. C |-> Place(k)]
  BY DEF Ordered
<1>4. Ordered(S) \in Seq(S) /\ DOMAIN Ordered(S) = 1 .. C /\ \A k \in 1 .. C : Ordered(S)[k] = Place(k)
  <2>1. \A k \in 1 .. C : Place(k) \in S
    BY <1>2
  <2> HIDE DEF C, Place
  <2> QED
    BY <1>1, <1>3, <2>1
<1>5. ASSUME NEW i \in 1 .. C, NEW j \in 1 .. C, Place(i) = Place(j) PROVE i = j
  <2>1. Cardinality({m \in S : m <= Place(i)}) = i /\ Cardinality({m \in S : m <= Place(j)}) = j
    BY <1>2
  <2> HIDE DEF Place
  <2> QED
    BY <1>5, <2>1
<1> HIDE DEF C, Place
<1> QED
  BY <1>4, <1>5 DEF Once

\* The lesser of two numbers, and the least of a set of numbers.
LEMMA MinOfTwo == ASSUME NEW a \in Int, NEW b \in Int
                  PROVE  Min({a, b}) = IF a <= b THEN a ELSE b
<1> DEFINE m == IF a <= b THEN a ELSE b
<1>1. m \in {a, b} /\ \A y \in {a, b} : m <= y
  OBVIOUS
<1>2. \A x \in {a, b} : (\A y \in {a, b} : x <= y) => x = m
  OBVIOUS
<1> HIDE DEF m
<1>3. Min({a, b}) = m
  BY <1>1, <1>2 DEF Min
<1> QED
  BY <1>3 DEF m

LEMMA MinIsLeast == ASSUME NEW T, T \subseteq Nat, T # {}
                    PROVE  Min(T) \in T /\ \A y \in T : Min(T) <= y
<1>1. \E x \in T : \A y \in T : x <= y
  BY Least
<1> QED
  BY <1>1 DEF Min

\* A part of a list without repetitions has none.
LEMMA PartOfOnce ==
    ASSUME NEW S, NEW s \in Seq(S), NEW m \in Nat, NEW n \in Nat, 1 <= m, n <= Len(s)
    PROVE  /\ SubSeq(s, m, n) \in Seq(S)
           /\ DOMAIN SubSeq(s, m, n) = 1 .. (IF m <= n THEN n - m + 1 ELSE 0)
           /\ \A i \in DOMAIN SubSeq(s, m, n) : /\ m + i - 1 \in DOMAIN s /\ m + i - 1 <= n
                                                 /\ SubSeq(s, m, n)[i] = s[m + i - 1]
           /\ Once(s) => Once(SubSeq(s, m, n))
<1> DEFINE part == SubSeq(s, m, n)
           l == IF m <= n THEN n - m + 1 ELSE 0
<1>1. part \in Seq(S) /\ Len(part) = l /\ \A i \in 1 .. l : part[i] = s[m + i - 1]
  <2>1. \A i \in m .. n : s[i] \in S
    OBVIOUS
  <2>2. part \in Seq(S) /\ Len(part) = l /\ \A i \in 1 .. n - m + 1 : part[i] = s[m + i - 1]
    BY <2>1, SubSeqProperties
  <2>3. \A i \in 1 .. l : i \in 1 .. n - m + 1
    OBVIOUS
  <2> QED
    BY <2>2, <2>3
<1>2. l \in Nat /\ \A i \in 1 .. l : m + i - 1 \in 1 .. Len(s) /\ m + i - 1 <= n
  OBVIOUS
<1>3. DOMAIN s = 1 .. Len(s) /\ \A i \in 1 .. Len(s) : s[i] \in S
  OBVIOUS
<1>4. DOMAIN part = 1 .. l
  BY <1>1
<1>5. Once(s) => Once(part)
  <2> SUFFICES ASSUME Once(s), NEW i \in 1 .. l, NEW j \in 1 .. l, s[m + i - 1] = s[m + j - 1]
               PROVE  i = j
    <3> HIDE DEF part, l
    <3> QED BY <1>1, <1>4 DEF Once
  <2>1. m + i - 1 = m + j - 1
    BY <1>2, <1>3 DEF Once
  <2> QED
    BY <2>1
<1>6. \A i \in DOMAIN part : m + i - 1 \in DOMAIN s /\ m + i - 1 <= n /\ part[i] = s[m + i - 1]
  <2> HIDE DEF part, l
  <2> QED
    BY <1>1, <1>2, <1>3, <1>4
<1> QED
  BY <1>1, <1>4, <1>5, <1>6

\* The parts of ChunkArray are of the list, and no element is in two of them.
LEMMA ChunksOfOnce ==
    ASSUME NEW S, NEW s \in Seq(S), NEW size \in Nat \ {0}
    PROVE  LET chunks == ChunkArray(s, size)
           IN  /\ \E n \in Nat : DOMAIN chunks = 1 .. n
               /\ \A k \in DOMAIN chunks :
                     /\ chunks[k] \in Seq(S) /\ (Once(s) => Once(chunks[k]))
                     /\ \A i \in DOMAIN chunks[k] :
                           \E p \in DOMAIN s : /\ chunks[k][i] = s[p]
                                               /\ (k - 1) * size < p /\ p <= k * size
               /\ Once(s) => \A j, k \in DOMAIN chunks : j # k => ~Shares(chunks[j], chunks[k])
<1> DEFINE chunks == ChunkArray(s, size)
           n == (Len(s) + size - 1) \div size
           last(k) == Min({k * size, Len(s)})
<1>1. n \in Nat /\ \A k \in 1 .. n : k * size \in Nat /\ (k - 1) * size \in Nat /\ k * size = (k - 1) * size + size
  OBVIOUS
<1>2. chunks = [k \in 1 .. n |-> SubSeq(s, (k - 1) * size + 1, last(k))]
  BY DEF ChunkArray
<1>3. ASSUME NEW k \in 1 .. n
      PROVE  last(k) \in Nat /\ last(k) <= Len(s) /\ last(k) <= k * size
  <2>1. k * size \in Int /\ Len(s) \in Nat
    BY <1>1
  <2>2. last(k) = IF k * size <= Len(s) THEN k * size ELSE Len(s)
    BY <2>1, MinOfTwo
  <2> QED
    BY <1>1, <2>1, <2>2
<1>4. ASSUME NEW k \in 1 .. n
      PROVE  /\ chunks[k] \in Seq(S) /\ (Once(s) => Once(chunks[k]))
             /\ \A i \in DOMAIN chunks[k] :
                   \E p \in DOMAIN s : chunks[k][i] = s[p] /\ (k - 1) * size < p /\ p <= k * size
  <2> DEFINE first == (k - 1) * size + 1
             part == SubSeq(s, first, last(k))
  <2>1. first \in Nat /\ 1 <= first /\ last(k) \in Nat /\ last(k) <= Len(s) /\ chunks[k] = part
    BY <1>1, <1>2, <1>3
  <2>2. /\ part \in Seq(S)
        /\ \A i \in DOMAIN part : /\ first + i - 1 \in DOMAIN s /\ first + i - 1 <= last(k)
                                  /\ part[i] = s[first + i - 1]
        /\ Once(s) => Once(part)
    <3> HIDE DEF last, first
    <3> QED BY <2>1, PartOfOnce DEF part
  <2>3. \A i \in DOMAIN part : i \in Nat \ {0}
    BY <2>2
  <2>4. ASSUME NEW i \in DOMAIN part
        PROVE  (k - 1) * size < first + i - 1 /\ first + i - 1 <= k * size
    <3> DEFINE base == (k - 1) * size
    <3>1. base \in Nat /\ first = base + 1 /\ k * size \in Nat /\ last(k) <= k * size
      BY <1>1, <1>3
    <3>2. first + i - 1 <= last(k) /\ i \in Nat \ {0}
      BY <2>2, <2>3
    <3> HIDE DEF base, first, last, part
    <3>3. base < first + i - 1
      BY <3>1, <3>2
    <3>4. first + i - 1 <= k * size
      BY <2>1, <3>1, <3>2
    <3> QED BY <3>3, <3>4 DEF base
  <2> HIDE DEF part, last, first, chunks
  <2> QED BY <2>1, <2>2, <2>4
<1>5. ASSUME Once(s), NEW j \in 1 .. n, NEW k \in 1 .. n, j < k, Shares(chunks[j], chunks[k])
      PROVE  FALSE
  <2>1. PICK a \in DOMAIN chunks[j], b \in DOMAIN chunks[k] : chunks[j][a] = chunks[k][b]
    BY <1>5 DEF Shares
  <2>2. PICK p \in DOMAIN s : chunks[j][a] = s[p] /\ p <= j * size
    BY <1>4
  <2>3. PICK q \in DOMAIN s : chunks[k][b] = s[q] /\ (k - 1) * size < q
    BY <1>4
  <2>4. p = q
    BY <1>5, <2>1, <2>2, <2>3 DEF Once
  <2>5. j * size <= (k - 1) * size
    BY <1>5
  <2>6. p \in Nat /\ j * size \in Nat /\ (k - 1) * size \in Nat
    BY <1>1
  <2> QED BY <2>2, <2>3, <2>4, <2>5, <2>6
<1>6. DOMAIN chunks = 1 .. n
  BY <1>2
<1>7. Once(s) => \A j, k \in DOMAIN chunks : j # k => ~Shares(chunks[j], chunks[k])
  <2> SUFFICES ASSUME Once(s), NEW j \in 1 .. n, NEW k \in 1 .. n, j # k, Shares(chunks[j], chunks[k])
               PROVE  FALSE
    BY <1>6
  <2>1. Shares(chunks[k], chunks[j])
    BY DEF Shares
  <2>2. j < k \/ k < j
    BY <1>1
  <2> HIDE DEF chunks, n
  <2> QED BY <1>5, <2>1, <2>2
<1> HIDE DEF chunks, n
<1> QED
  BY <1>1, <1>4, <1>6, <1>7 DEF chunks

\* The halves of a chunk without doubles have none, and share nothing.
LEMMA HalvesOfOnce ==
    ASSUME NEW S, NEW s \in Seq(S)
    PROVE  /\ Halves(s) \in Seq(Seq(S)) /\ Len(Halves(s)) = 2
           /\ \A h \in 1 .. 2 : \A i \in DOMAIN Halves(s)[h] : \E p \in DOMAIN s : Halves(s)[h][i] = s[p]
           /\ Once(s) => /\ \A h \in 1 .. 2 : Once(Halves(s)[h])
                         /\ ~Shares(Halves(s)[1], Halves(s)[2])
<1> DEFINE mid == Len(s) \div 2
           low == SubSeq(s, 1, mid)
           high == SubSeq(s, mid + 1, Len(s))
<1>1. mid \in Nat /\ mid <= Len(s) /\ Len(s) \in Nat
  OBVIOUS
<1>2. Halves(s) = <<low, high>>
  BY DEF Halves
<1> HIDE DEF mid
<1>3. /\ low \in Seq(S) /\ (Once(s) => Once(low))
      /\ \A i \in DOMAIN low : 1 + i - 1 \in DOMAIN s /\ 1 + i - 1 <= mid /\ low[i] = s[1 + i - 1]
  BY <1>1, PartOfOnce
<1>4. /\ high \in Seq(S) /\ (Once(s) => Once(high))
      /\ \A i \in DOMAIN high : mid + 1 + i - 1 \in DOMAIN s /\ high[i] = s[mid + 1 + i - 1]
  <2>1. mid + 1 \in Nat /\ 1 <= mid + 1
    BY <1>1
  <2> QED BY <1>1, <2>1, PartOfOnce
<1>5. (\A i \in DOMAIN low : i \in Nat) /\ (\A i \in DOMAIN high : i \in Nat \ {0})
  BY <1>3, <1>4
<1> HIDE DEF low, high
<1>6. ASSUME Once(s), Shares(low, high) PROVE FALSE
  <2>1. PICK a \in DOMAIN low, b \in DOMAIN high : low[a] = high[b]
    BY <1>6 DEF Shares
  <2>2. 1 + a - 1 = mid + 1 + b - 1
    BY <1>3, <1>4, <1>6, <2>1 DEF Once
  <2> QED BY <1>1, <1>3, <1>5, <2>2
<1>7. Halves(s)[1] = low /\ Halves(s)[2] = high /\ Len(Halves(s)) = 2 /\ Halves(s) \in Seq(Seq(S))
  <2>1. Halves(s)[1] = low /\ Halves(s)[2] = high /\ Len(Halves(s)) = 2
    BY <1>2
  <2>2. low \in Seq(S) /\ high \in Seq(S)
    BY <1>3, <1>4
  <2>3. <<low, high>> \in Seq(Seq(S))
    BY <2>2
  <2> QED BY <1>2, <2>1, <2>3
<1>8. ASSUME NEW h \in 1 .. 2, NEW i \in DOMAIN Halves(s)[h]
      PROVE  \E p \in DOMAIN s : Halves(s)[h][i] = s[p]
  <2>1. h = 1 \/ h = 2
    OBVIOUS
  <2> QED BY <1>3, <1>4, <1>7, <2>1
<1>9. Once(s) => (\A h \in 1 .. 2 : Once(Halves(s)[h])) /\ ~Shares(Halves(s)[1], Halves(s)[2])
  <2>1. \A h \in 1 .. 2 : h = 1 \/ h = 2
    OBVIOUS
  <2> QED BY <1>3, <1>4, <1>6, <1>7, <2>1
<1> QED
  BY <1>7, <1>8, <1>9

\* What a row finds has its identity or is no other row's; and it finds what has
\* its identity before anything else.
LEMMA MatchIsFree ==
    ASSUME NEW ix, DOMAIN ix \subseteq Nat, NEW row
    PROVE  /\ Match(ix, row).id # 0 =>
                 /\ Match(ix, row).id \in DOMAIN ix
                 /\ \/ row["idsap"] # "" /\ ix[Match(ix, row).id]["idsap"] = row["idsap"]
                    \/ ~BelongsToAnother(ix[Match(ix, row).id], row)
           /\ Match(ix, row).via # 1 => Same(ix, "idsap", row) = {}
<1> DEFINE hits == {t \in DOMAIN Tiers : Adoptable(ix, t, row) # {}}
<1>1. DOMAIN Tiers \subseteq Nat /\ 1 \in DOMAIN Tiers /\ Tiers[1] = "idsap" /\ \A t \in DOMAIN Tiers : 1 <= t
  BY PartnerTiers
<1>2. \A t \in DOMAIN Tiers : Adoptable(ix, t, row) \subseteq DOMAIN ix
  BY DEF Adoptable, Same
<1>3. Adoptable(ix, 1, row) = Same(ix, "idsap", row)
  BY <1>1 DEF Adoptable
<1>4. CASE hits = {}
  <2>1. Match(ix, row) = NoMatch
    BY <1>4 DEF Match
  <2>2. 1 \notin hits
    BY <1>4
  <2> QED
    BY <1>1, <1>3, <2>1, <2>2 DEF NoMatch
<1>5. CASE hits # {}
  <2> DEFINE t == Min(hits)
             id == Min(Adoptable(ix, t, row))
  <2>1. t \in hits /\ \A u \in hits : t <= u
    <3>1. hits \subseteq Nat
      BY <1>1
    <3> HIDE DEF hits
    <3> QED BY <1>5, <3>1, MinIsLeast
  <2>2. id \in Adoptable(ix, t, row)
    <3>1. Adoptable(ix, t, row) \subseteq Nat /\ Adoptable(ix, t, row) # {}
      BY <1>2, <2>1
    <3> HIDE DEF t
    <3> QED BY <3>1, MinIsLeast
  <2>3. Match(ix, row).id = id /\ Match(ix, row).via = t
    BY <1>5 DEF Match
  <2>4. t # 1 => 1 \notin hits
    <3>1. \A u \in hits : u \in Nat /\ 1 <= u
      BY <1>1
    <3> HIDE DEF hits, t
    <3> QED BY <2>1, <3>1
  <2>5. t # 1 => Same(ix, "idsap", row) = {}
    BY <1>1, <1>3, <2>4
  <2>6. id \in DOMAIN ix /\ (\/ row["idsap"] # "" /\ ix[id]["idsap"] = row["idsap"]
                             \/ ~BelongsToAnother(ix[id], row))
    <3> HIDE DEF t, id, hits
    <3>1. CASE t = 1
      BY <1>1, <2>2, <3>1 DEF Adoptable, Same
    <3>2. CASE t # 1
      BY <2>2, <3>2 DEF Adoptable, Same
    <3> QED BY <3>1, <3>2
  <2> HIDE DEF t, id
  <2> QED BY <2>3, <2>5, <2>6
<1> QED BY <1>4, <1>5

LEMMA ChildMinIsLeast == ASSUME NEW T, T \subseteq Nat, T # {}
                         PROVE  Child!Min(T) \in T /\ \A y \in T : Child!Min(T) <= y
<1>1. \E x \in T : \A y \in T : x <= y
  BY Least
<1> QED
  BY <1>1 DEF Child!Min

\* The same of the index the employees are looked for in.
LEMMA ChildMatchIsFree ==
    ASSUME NEW ix, DOMAIN ix \subseteq Nat, NEW row, Child!Match(ix, row).id # 0
    PROVE  /\ Child!Match(ix, row).id \in DOMAIN ix
           /\ \/ row["code"] # "" /\ ix[Child!Match(ix, row).id]["code"] = row["code"]
              \/ ~Child!BelongsToAnother(ix[Child!Match(ix, row).id], row)
<1> DEFINE hits == {t \in DOMAIN ChildTiers : Child!Adoptable(ix, t, row) # {}}
           t == Child!Min(hits)
           id == Child!Min(Child!Adoptable(ix, t, row))
<1>1. DOMAIN ChildTiers \subseteq Nat /\ ChildTiers[1] = "code"
  BY EmployeeTiers
<1>2. \A u \in DOMAIN ChildTiers : Child!Adoptable(ix, u, row) \subseteq DOMAIN ix
  BY DEF Child!Adoptable, Child!Same
<1>3. hits # {} /\ Child!Match(ix, row).id = id
  <2>1. Child!Match(ix, row) = IF hits = {} THEN Child!NoMatch ELSE [id |-> id, via |-> t]
    BY DEF Child!Match
  <2>2. Child!NoMatch.id = 0
    BY DEF Child!NoMatch
  <2> HIDE DEF hits, id, t
  <2> QED BY <2>1, <2>2
<1>4. t \in hits
  <2>1. hits \subseteq Nat
    BY <1>1
  <2> HIDE DEF hits
  <2> QED BY <1>3, <2>1, ChildMinIsLeast
<1>5. id \in Child!Adoptable(ix, t, row)
  <2>1. Child!Adoptable(ix, t, row) \subseteq Nat /\ Child!Adoptable(ix, t, row) # {}
    BY <1>2, <1>4
  <2> HIDE DEF t
  <2> QED BY <2>1, ChildMinIsLeast
<1> HIDE DEF t, id, hits
<1>6. CASE t = 1
  BY <1>1, <1>3, <1>5, <1>6 DEF Child!Adoptable, Child!Same
<1>7. CASE t # 1
  BY <1>3, <1>5, <1>7 DEF Child!Adoptable, Child!Same
<1> QED BY <1>6, <1>7

LEMMA RowsAreNumbered == ASSUME DataShaped PROVE Len(rows) \in Nat /\ Row = 1 .. Len(rows)
<1>1. \A s : s \in Seq(ToSet(s)) => Len(s) \in Nat /\ DOMAIN s = 1 .. Len(s)
  OBVIOUS
<1> QED BY <1>1 DEF DataShaped, Row

LEMMA TiersAreNumbered ==
    DOMAIN Tiers \subseteq Nat /\ 1 \in DOMAIN Tiers /\ Tiers[1] = "idsap" /\ \A t \in DOMAIN Tiers : 1 <= t
BY PartnerTiers

LEMMA UnmatchedAreRows == Unmatched \subseteq Row
BY DEF Unmatched, Syncable

\* What the run creates: the rows that double none of those it creates.
LEMMA CreatesAreTheUndoubled ==
    ASSUME DataShaped
    PROVE  /\ Creates \subseteq Unmatched
           /\ \A r \in Unmatched : r \in Creates <=> ~\E q \in Creates : Double(r, q)
<1> DEFINE Good(n, C) == /\ C \subseteq {r \in Unmatched : r <= n}
                         /\ \A r \in Unmatched : r <= n => (r \in C <=> ~\E q \in C : Double(r, q))
           Bad == {n \in Nat : ~\E C : Good(n, C)}
<1>1. Unmatched \subseteq Nat /\ \A r \in Unmatched : r <= Len(rows) /\ 1 <= r
  BY RowsAreNumbered, UnmatchedAreRows
<1>2. \A r, q : Double(r, q) => q < r
  BY DEF Double
<1>3. Bad = {}
  <2> SUFFICES ASSUME Bad # {} PROVE FALSE
    OBVIOUS
  <2>1. PICK n \in Bad : \A m \in Bad : n <= m
    <3>1. Bad \subseteq Nat
      OBVIOUS
    <3> HIDE DEF Bad
    <3> QED BY <3>1, Least
  <2>2. Good(0, {})
    BY <1>1
  <2>3. n \in Nat /\ n # 0 /\ n - 1 \in Nat /\ n - 1 \notin Bad
    <3>1. n \in Nat /\ n # 0
      <4> HIDE DEF Good
      <4> QED BY <2>1, <2>2
    <3>2. n - 1 \in Nat /\ n - 1 < n
      BY <3>1
    <3> HIDE DEF Bad
    <3> QED BY <2>1, <3>1, <3>2
  <2>4. PICK C : Good(n - 1, C)
    <3> HIDE DEF Good
    <3> QED BY <2>3
  <2>9. ~\E D : Good(n, D)
    <3> HIDE DEF Good
    <3> QED BY <2>1
  <2>5. \A q \in C : q \in Nat /\ q <= n - 1 /\ q \in Unmatched
    BY <1>1, <2>4
  <2>6. \A r \in Unmatched : r <= n <=> (r <= n - 1 \/ r = n)
    BY <1>1, <2>3
  <2>7. CASE n \in Unmatched /\ ~\E q \in C : Double(n, q)
    <3> DEFINE D == C \cup {n}
    <3>1. D \subseteq {r \in Unmatched : r <= n}
      BY <2>3, <2>5, <2>7
    <3>2. ASSUME NEW r \in Unmatched, r <= n - 1
          PROVE  r \in D <=> ~\E q \in D : Double(r, q)
      <4>1. ~Double(r, n) /\ r # n
        BY <1>1, <1>2, <2>3, <3>2
      <4> QED BY <2>4, <3>2, <4>1
    <3>3. n \in D /\ ~\E q \in D : Double(n, q)
      BY <1>2, <2>3, <2>7
    <3>4. Good(n, D)
      BY <2>6, <3>1, <3>2, <3>3
    <3> QED BY <2>9, <3>4
  <2>8. CASE ~(n \in Unmatched /\ ~\E q \in C : Double(n, q))
    <3>1. C \subseteq {r \in Unmatched : r <= n}
      BY <2>3, <2>5
    <3>2. n \notin C
      BY <2>3, <2>5
    <3>3. Good(n, C)
      BY <2>4, <2>6, <2>8, <3>1, <3>2
    <3> QED BY <2>9, <3>3
  <2> QED BY <2>7, <2>8
<1>4. PICK C : Good(Len(rows), C)
  <2>1. Len(rows) \in Nat
    BY RowsAreNumbered
  <2> HIDE DEF Good
  <2> QED BY <1>3, <2>1
<1>5. C \in SUBSET Unmatched /\ \A r \in Unmatched : r \in C <=> ~\E q \in C : Double(r, q)
  BY <1>1, <1>4
<1> QED
  BY <1>5 DEF Creates

\* Of the rows of one key the run creates one.
LEMMA CreatesHaveOnePerKey ==
    DataShaped => \A r, q \in Creates : rows[r].idsap # "" /\ rows[r].idsap = rows[q].idsap => r = q
<1>0. SUFFICES ASSUME DataShaped, NEW r \in Creates, NEW q \in Creates,
                      rows[r].idsap # "" /\ rows[r].idsap = rows[q].idsap
               PROVE  r = q
  OBVIOUS
<1>1. Creates \subseteq Unmatched /\ Unmatched \subseteq Nat
  <2>1. DataShaped
    BY <1>0
  <2> QED BY <2>1, CreatesAreTheUndoubled, RowsAreNumbered, UnmatchedAreRows
<1>2. DOMAIN Tiers \subseteq Nat /\ 1 \in DOMAIN Tiers /\ Tiers[1] = "idsap" /\ \A t \in DOMAIN Tiers : 1 <= t
  BY TiersAreNumbered
<1>3. ASSUME NEW x \in {r, q} PROVE 1 \in KeyTiers(rows[x]) /\ OwnKey(rows[x]) = KeyOf(rows[x], 1)
  <2>1. 1 \in KeyTiers(rows[x])
    BY <1>0, <1>2 DEF KeyTiers
  <2>2. KeyTiers(rows[x]) \subseteq Nat /\ \A t \in KeyTiers(rows[x]) : 1 <= t
    BY <1>2 DEF KeyTiers
  <2>3. Min(KeyTiers(rows[x])) \in KeyTiers(rows[x]) /\ Min(KeyTiers(rows[x])) <= 1
    BY <2>1, <2>2, MinIsLeast
  <2>4. Min(KeyTiers(rows[x])) = 1
    <3>1. \A m \in Nat : 1 <= m /\ m <= 1 => m = 1
      OBVIOUS
    <3> QED BY <2>2, <2>3, <3>1
  <2> QED BY <2>1, <2>4 DEF OwnKey
<1>4. KeyOf(rows[r], 1) = KeyOf(rows[q], 1)
  BY <1>0, <1>2 DEF KeyOf
<1>5. ASSUME NEW x \in {r, q}, NEW y \in {r, q}, x < y PROVE FALSE
  <2>1. OwnKey(rows[y]) \in DedupeKeys(rows[x])
    BY <1>3, <1>4 DEF DedupeKeys
  <2>2. Double(y, x)
    BY <1>3, <1>5, <2>1 DEF Double
  <2> QED BY <1>0, <1>1, <2>2, CreatesAreTheUndoubled
<1>6. r < q \/ q < r \/ r = q
  <2>1. r \in Nat /\ q \in Nat
    BY <1>1
  <2> QED BY <2>1
<1> QED
  BY <1>5, <1>6

\* A list is a list of its elements, and so is one with others behind it.
LEMMA Listed == ASSUME NEW S, NEW s \in Seq(S) PROVE s \in Seq(ToSet(s))
<1>1. s = [i \in 1 .. Len(s) |-> s[i]] /\ Len(s) \in Nat /\ DOMAIN s = 1 .. Len(s)
  OBVIOUS
<1>2. \A i \in 1 .. Len(s) : s[i] \in ToSet(s)
  BY <1>1 DEF ToSet
<1> HIDE DEF ToSet
<1> QED
  BY <1>1, <1>2

\* One listed sequence before another.
LEMMA ListedBefore ==
    ASSUME NEW s, s \in Seq(ToSet(s)), NEW t, t \in Seq(ToSet(t))
    PROVE  /\ s \o t \in Seq(ToSet(s \o t)) /\ DOMAIN (s \o t) = 1 .. Len(s) + Len(t)
           /\ Len(s) \in Nat /\ Len(t) \in Nat /\ DOMAIN s = 1 .. Len(s) /\ DOMAIN t = 1 .. Len(t)
           /\ \A i \in DOMAIN s : (s \o t)[i] = s[i]
           /\ \A i \in DOMAIN (s \o t) \ DOMAIN s : i - Len(s) \in DOMAIN t /\ (s \o t)[i] = t[i - Len(s)]
<1> DEFINE S == ToSet(s) \cup ToSet(t)
<1>1. s \in Seq(S) /\ t \in Seq(S)
  OBVIOUS
<1> HIDE DEF S
<1>2. /\ s \o t \in Seq(S) /\ Len(s \o t) = Len(s) + Len(t)
      /\ Len(s) \in Nat /\ Len(t) \in Nat /\ DOMAIN s = 1 .. Len(s) /\ DOMAIN t = 1 .. Len(t)
  BY <1>1
<1>3. \A i \in 1 .. Len(s) + Len(t) : (s \o t)[i] = IF i <= Len(s) THEN s[i] ELSE t[i - Len(s)]
  BY <1>1, ConcatProperties
<1>4. s \o t \in Seq(ToSet(s \o t))
  BY <1>2, Listed
<1>5. DOMAIN (s \o t) = 1 .. Len(s) + Len(t)
  BY <1>2
<1>6. \A i \in DOMAIN s : (s \o t)[i] = s[i]
  BY <1>2, <1>3
<1>7. \A i \in DOMAIN (s \o t) \ DOMAIN s : i - Len(s) \in DOMAIN t /\ (s \o t)[i] = t[i - Len(s)]
  BY <1>2, <1>3, <1>5
<1> QED
  BY <1>2, <1>4, <1>5, <1>6, <1>7

\* What a record has of its properties and of its ghosts.
LEMMA RecordFields ==
    ASSUME NEW f, DOMAIN f = Property, NEW b, NEW n, NEW h
    PROVE  LET record == Marked(f, [by |-> b, run |-> n, how |-> h])
           IN  /\ DOMAIN record = Fields /\ record.by = b /\ record.run = n /\ record.how = h
               /\ \A name \in Property : record[name] = f[name]
<1> DEFINE ghosts == [by |-> b, run |-> n, how |-> h]
           record == Marked(f, ghosts)
<1>1. DOMAIN ghosts = {"by", "run", "how"} /\ ghosts["by"] = b /\ ghosts["run"] = n /\ ghosts["how"] = h
  OBVIOUS
<1>2. Property \cap {"by", "run", "how"} = {}
  BY DEF Property, Ownership
<1> HIDE DEF ghosts
<1>3. record = [x \in Fields |-> IF x \in Property THEN f[x] ELSE ghosts[x]]
  BY <1>1 DEF Marked, Fields
<1> HIDE DEF record
<1>4. DOMAIN record = Fields /\ \A name \in Property : record[name] = f[name]
  BY <1>3 DEF Fields
<1>5. {"by", "run", "how"} \subseteq Fields
  BY DEF Fields
<1>6. record["by"] = b /\ record["run"] = n /\ record["how"] = h
  BY <1>1, <1>2, <1>3, <1>5
<1> QED
  BY <1>4, <1>6 DEF record, ghosts

LEMMA PortalIsListed == ASSUME PortalShaped PROVE Len(portal) \in Nat /\ DOMAIN portal = 1 .. Len(portal)
<1>1. \A s : s \in Seq(ToSet(s)) => Len(s) \in Nat /\ DOMAIN s = 1 .. Len(s)
  OBVIOUS
<1> QED BY <1>1 DEF PortalShaped
-----------------------------------------------------------------------------
(* CrmBatches: what the steps of a run have in common, and each of them.     *)

\* A step that leaves what the records are and were made for.
Steady ==
    /\ DOMAIN portal \subseteq DOMAIN portal' /\ adopted \subseteq adopted'
    /\ \A i \in DOMAIN portal :
          /\ portal'[i].by = portal[i].by
          /\ i \notin adopted' => portal'[i].idsap = portal[i].idsap /\ portal'[i].code = portal[i].code

\* Steady steps leave a list of updates what it is.
LEMMA UpdatesStay ==
    ASSUME Planned(updates), UNCHANGED <<rows, updates>>, Steady
    PROVE  Planned(updates)'
<1>1. /\ updates \in Seq(Row \X Nat)
      /\ \A i, j \in DOMAIN updates : updates[i][1] = updates[j][1] \/ updates[i][2] = updates[j][2] => i = j
      /\ \A i \in DOMAIN updates : WritesItsOwn(updates[i][1], updates[i][2])
  BY DEF Planned
<1>2. updates' = updates /\ Row' = Row
  BY DEF Row
<1>3. ASSUME NEW i \in DOMAIN updates PROVE WritesItsOwn(updates[i][1], updates[i][2])'
  <2>1. WritesItsOwn(updates[i][1], updates[i][2])
    BY <1>1
  <2> QED BY <1>2, <2>1 DEF WritesItsOwn, Steady, Row
<1> QED
  BY <1>1, <1>2, <1>3 DEF Planned

LEMMA ChunkStays ==
    ASSUME NEW k, Planned(tasks[k].chunk), UNCHANGED rows, tasks'[k].chunk = tasks[k].chunk, Steady
    PROVE  Planned(tasks[k].chunk)'
<1>1. /\ tasks[k].chunk \in Seq(Row \X Nat)
      /\ \A i, j \in DOMAIN tasks[k].chunk : tasks[k].chunk[i][1] = tasks[k].chunk[j][1] \/ tasks[k].chunk[i][2] = tasks[k].chunk[j][2] => i = j
      /\ \A i \in DOMAIN tasks[k].chunk : WritesItsOwn(tasks[k].chunk[i][1], tasks[k].chunk[i][2])
  BY DEF Planned
<1>2. tasks'[k].chunk = tasks[k].chunk /\ Row' = Row
  BY DEF Row
<1>3. ASSUME NEW i \in DOMAIN tasks[k].chunk PROVE WritesItsOwn(tasks[k].chunk[i][1], tasks[k].chunk[i][2])'
  <2>1. WritesItsOwn(tasks[k].chunk[i][1], tasks[k].chunk[i][2])
    BY <1>1
  <2> QED BY <1>2, <2>1 DEF WritesItsOwn, Steady, Row
<1> QED
  BY <1>1, <1>2, <1>3 DEF Planned

\* What waits is a row.
LEMMA WaitingAreRows == ASSUME NEW t, TidyQueue(t) PROVE Waiting(t) \subseteq Row
<1>1. ASSUME NEW q \in DOMAIN t.queue PROVE ToSet(t.queue[q]) \subseteq Row
  <2>1. t.queue[q] \in Seq(Row)
    BY DEF TidyQueue
  <2> QED BY <2>1 DEF ToSet
<1>2. ToSet(t.items) \subseteq Row
  <2>1. t.items \in Seq(Row)
    BY DEF TidyQueue
  <2> QED BY <2>1 DEF ToSet
<1> QED
  BY <1>1, <1>2 DEF Waiting, Queued

\* One task goes on: what it has left it had before, and what was made it has no more.
LEMMA OneTaskMoves ==
    ASSUME MakingTidy, pc \in {"create", "items"}, UNCHANGED <<rows, pc>>,
           NEW k \in DOMAIN tasks, NEW t, tasks' = [tasks EXCEPT ![k] = t],
           DOMAIN t = TaskFields, TidyQueue(t), Waiting(t) \subseteq Waiting(tasks[k]),
           \A r \in Row : MadeNow(r)' => MadeNow(r) \/ r \in Waiting(tasks[k]) \ Waiting(t)
    PROVE  MakingTidy'
<1>1. DOMAIN tasks' = DOMAIN tasks /\ \A j \in DOMAIN tasks : tasks'[j] = IF j = k THEN t ELSE tasks[j]
  OBVIOUS
<1>2. \A j \in DOMAIN tasks : Waiting(tasks[j])' = IF j = k THEN Waiting(t) ELSE Waiting(tasks[j])
  BY <1>1 DEF Waiting, Queued
<1>3. ASSUME NEW j \in DOMAIN tasks'
      PROVE  /\ DOMAIN tasks'[j] = TaskFields /\ TidyQueue(tasks[j])'
             /\ \A r \in Waiting(tasks[j])' : ~MadeNow(r)'
  <2>1. DOMAIN tasks'[j] = TaskFields /\ TidyQueue(tasks[j])'
    BY <1>1 DEF MakingTidy, TidyQueue, Row
  <2>2. ASSUME NEW r \in Waiting(tasks[j])' PROVE ~MadeNow(r)'
    <3>1. r \in Row
      <4>1. TidyQueue(t) /\ TidyQueue(tasks[j])
        BY <1>1 DEF MakingTidy
      <4> QED BY <1>1, <1>2, <2>2, <4>1, WaitingAreRows
    <3> QED BY <1>1, <1>2, <2>2, <3>1 DEF MakingTidy
  <2> QED BY <2>1, <2>2
<1>4. \A i, j \in DOMAIN tasks' : i # j => Waiting(tasks[i])' \cap Waiting(tasks[j])' = {}
  BY <1>1, <1>2 DEF MakingTidy
<1> QED
  BY <1>1, <1>3, <1>4 DEF MakingTidy

\* The invariant holds to begin with, and each step keeps it.
LEMMA CrmStarts == ASSUME SyncInit PROVE CrmInv
<1>1. PICK d \in Data : rows = d.rows /\ children = d.children
  BY DEF SyncInit, Init
<1>2. PICK p \in Portals : portal = [i \in DOMAIN p |-> Marked(p[i], Lead)]
  BY DEF SyncInit, Init
<1>3. DataShaped
  <2>1. /\ d.rows \in Seq(ToSet(d.rows)) /\ DOMAIN d.children = DOMAIN d.rows
        /\ \A r \in DOMAIN d.rows :
              /\ DOMAIN d.rows[r] = Property /\ d.rows[r].code = ""
              /\ d.children[r] \in Seq(ToSet(d.children[r]))
              /\ \A j \in DOMAIN d.children[r] : DOMAIN d.children[r][j] = Property
    BY DataAssumption
  <2> QED BY <1>1, <2>1 DEF DataShaped, Row
<1>4. ASSUME NEW i \in DOMAIN portal PROVE DOMAIN portal[i] = Fields /\ portal[i].by = 0
  <2>1. DOMAIN p[i] = Property
    BY <1>2, PortalsAssumption
  <2> QED BY <1>2, <2>1, RecordFields DEF Lead
<1>5. portal \in Seq(ToSet(portal))
  <2>1. p \in Seq(ToSet(p))
    BY PortalsAssumption
  <2>2. Len(p) \in Nat /\ DOMAIN p = 1 .. Len(p)
    BY <2>1
  <2>3. portal = [i \in 1 .. Len(p) |-> portal[i]]
    BY <1>2, <2>2
  <2>4. \A i \in 1 .. Len(p) : portal[i] \in ToSet(portal)
    BY <1>2, <2>2 DEF ToSet
  <2> HIDE DEF ToSet
  <2> QED BY <2>2, <2>3, <2>4
<1>6. run = 0 /\ pc = "idle"
  BY DEF SyncInit, Init
<1>7. PortalShaped
  BY <1>4, <1>5, <1>6 DEF PortalShaped, MadeForPartner
<1>8. OneRecordPerPartner
  BY <1>4 DEF OneRecordPerPartner
<1>9. SweptIsThere /\ MakingTidy /\ UpdatingTidy /\ UpdatesTidy /\ CreatesTidy /\ EmployeesTidy
  <2>1. \A r \in Row : ~MadeNow(r)
    BY <1>3, <1>4, RowsAreNumbered DEF MadeNow
  <2> QED BY <1>6, <2>1 DEF SweptIsThere, MakingTidy, UpdatingTidy, UpdatesTidy, CreatesTidy,
              EmployeesTidy, EntriesShaped, GroupsKept, EntryTasks
<1> QED
  BY <1>3, <1>7, <1>8, <1>9 DEF CrmInv, PartnersTidy

\* What a step that makes and writes no record keeps.
LEMMA SameRecordsKeep ==
    ASSUME DataShaped, PortalShaped, OneRecordPerPartner, UNCHANGED <<rows, children, portal>>,
           run' \in {run, run + 1}
    PROVE  DataShaped' /\ PortalShaped' /\ OneRecordPerPartner'
<1>1. DataShaped' /\ OneRecordPerPartner'
  BY ZenonT(60) DEF DataShaped, OneRecordPerPartner, Row
<1>2. run' \in Nat /\ \A n \in 1 .. run : n \in 1 .. run'
  BY DEF PortalShaped
<1>3. PortalShaped'
  BY <1>2 DEF PortalShaped, MadeForPartner, Row
<1> QED BY <1>1, <1>3

LEMMA BeginRunKeeps == ASSUME CrmInv, BeginRun PROVE CrmInv'
<1>1. /\ DataShaped /\ PortalShaped /\ OneRecordPerPartner
      /\ UNCHANGED <<rows, children, portal>> /\ run' = run + 1 /\ pc' \in {"idle", "sweep"}
  BY DEF CrmInv, PartnersTidy, BeginRun, config
<1>2. DataShaped' /\ PortalShaped' /\ OneRecordPerPartner'
  BY <1>1, SameRecordsKeep
<1>3. ASSUME NEW r \in Row PROVE ~MadeNow(r)'
  <2>1. r # 0
    BY <1>1, RowsAreNumbered
  <2>2. ASSUME NEW i \in DOMAIN portal, portal[i].by = r PROVE portal[i].run # run + 1
    <3>1. portal[i].run \in 1 .. run /\ run \in Nat
      BY <1>1, <2>1, <2>2 DEF PortalShaped, MadeForPartner
    <3> QED BY <3>1
  <2> QED BY <1>1, <2>2 DEF MadeNow
<1>4. SweptIsThere' /\ MakingTidy' /\ UpdatingTidy' /\ UpdatesTidy' /\ CreatesTidy' /\ EmployeesTidy'
  <2>1. run' # 0
    BY <1>1 DEF PortalShaped
  <2> QED BY <1>1, <1>3, <2>1 DEF SweptIsThere, MakingTidy, UpdatingTidy, UpdatesTidy, CreatesTidy,
         EmployeesTidy, EntriesShaped, GroupsKept, EntryTasks, Row
<1> QED
  BY <1>2, <1>4 DEF CrmInv, PartnersTidy

LEMMA SyncableAreRows == Syncable \subseteq Row
BY DEF Syncable

\* All the rows one by one.
LEMMA DegradingKeeps ==
    ASSUME DataShaped, Degrade(Ordered(Syncable)), UNCHANGED <<rows, portal, run>>, \A r \in Row : ~MadeNow(r)
    PROVE  MakingTidy'
<1> DEFINE those == Ordered(Syncable)
           task == [Task(those) EXCEPT !.queue = <<>>, !.items = those]
<1>1. those \in Seq(Row) /\ Once(those)
  <2>1. Len(rows) \in Nat /\ Syncable \subseteq 1 .. Len(rows)
    BY RowsAreNumbered, SyncableAreRows
  <2>2. Ordered(Syncable) \in Seq(Syncable) /\ Once(Ordered(Syncable))
    BY <2>1, OrderedIsOfSet
  <2> QED BY <2>2, SyncableAreRows
<1>2. DOMAIN task = TaskFields /\ task.queue = <<>> /\ task.items = those
  BY DEF Task, TaskFields
<1>3. tasks' = <<task>> /\ pc' = "items"
  BY DEF Degrade
<1> HIDE DEF task, those
<1>4. TidyQueue(task) /\ Waiting(task) = ToSet(those) /\ ToSet(those) \subseteq Row
  <2>1. <<>> \in Seq(Seq(Row)) /\ DOMAIN <<>> = {}
    OBVIOUS
  <2>2. ToSet(those) \subseteq Row
    BY <1>1 DEF ToSet
  <2> QED BY <1>1, <1>2, <2>1, <2>2 DEF TidyQueue, Waiting, Queued
<1>5. DOMAIN tasks' = {1} /\ tasks'[1] = task
  BY <1>3
<1>6. TidyQueue(tasks[1])' /\ Waiting(tasks[1])' = ToSet(those)
  <2>1. TidyQueue(tasks[1])'
    BY <1>4, <1>5 DEF TidyQueue, Row
  <2>2. Waiting(tasks[1])' = ToSet(those)
    BY <1>4, <1>5 DEF Waiting, Queued
  <2> QED BY <2>1, <2>2
<1>7. \A r \in Row : ~MadeNow(r)'
  BY DEF MadeNow
<1> QED
  BY <1>2, <1>4, <1>5, <1>6, <1>7 DEF MakingTidy

LEMMA SweepKeeps == ASSUME CrmInv, Sweep PROVE CrmInv'
<1>1. /\ DataShaped /\ PortalShaped /\ OneRecordPerPartner /\ SweptIsThere
      /\ UNCHANGED <<rows, children, portal, run>> /\ pc = "sweep"
  BY DEF CrmInv, PartnersTidy, Sweep, config
<1>2. DataShaped' /\ PortalShaped' /\ OneRecordPerPartner'
  BY <1>1, SameRecordsKeep
<1>3. \A r \in Row : ~MadeNow(r)
  BY <1>1 DEF SweptIsThere
<1>4. CASE index' = portal /\ pc' = "properties"
  BY <1>1, <1>2, <1>3, <1>4 DEF CrmInv, PartnersTidy, SweptIsThere, MakingTidy, UpdatingTidy, UpdatesTidy,
         CreatesTidy, EmployeesTidy, EntriesShaped, GroupsKept, EntryTasks, Row, MadeNow
<1>5. CASE Degrade(Ordered(Syncable))
  <2>1. MakingTidy' /\ pc' = "items"
    BY <1>1, <1>3, <1>5, DegradingKeeps DEF Degrade
  <2> QED BY <1>1, <1>2, <2>1 DEF CrmInv, PartnersTidy, SweptIsThere, UpdatingTidy, UpdatesTidy, CreatesTidy,
         EmployeesTidy, EntriesShaped, GroupsKept, EntryTasks
<1> QED
  BY <1>2, <1>4, <1>5 DEF Sweep, CrmInv, PartnersTidy

LEMMA ReadPropertiesKeeps == ASSUME CrmInv, ReadProperties PROVE CrmInv'
<1>1. /\ DataShaped /\ PortalShaped /\ OneRecordPerPartner /\ SweptIsThere
      /\ UNCHANGED <<rows, children, portal, run, index>> /\ pc = "properties"
  BY DEF CrmInv, PartnersTidy, ReadProperties, config
<1>2. DataShaped' /\ PortalShaped' /\ OneRecordPerPartner'
  BY <1>1, SameRecordsKeep
<1>3. \A r \in Row : ~MadeNow(r)
  BY <1>1 DEF SweptIsThere
<1>4. CASE pc' = "plan" /\ known' # "no"
  BY <1>1, <1>2, <1>3, <1>4 DEF CrmInv, PartnersTidy, SweptIsThere, MakingTidy, UpdatingTidy, UpdatesTidy,
         CreatesTidy, EmployeesTidy, EntriesShaped, GroupsKept, EntryTasks, Row, MadeNow
<1>5. CASE Degrade(Ordered(Syncable))
  <2>1. MakingTidy' /\ pc' = "items"
    BY <1>1, <1>3, <1>5, DegradingKeeps DEF Degrade
  <2> QED BY <1>1, <1>2, <2>1 DEF CrmInv, PartnersTidy, SweptIsThere, UpdatingTidy, UpdatesTidy, CreatesTidy,
         EmployeesTidy, EntriesShaped, GroupsKept, EntryTasks
<1> QED
  BY <1>4, <1>5 DEF ReadProperties, RefusesPortal

\* A task as it begins.
LEMMA TaskHas ==
    ASSUME NEW c
    PROVE  /\ DOMAIN Task(c) = TaskFields /\ Task(c).queue = <<c>> /\ Task(c).items = <<>> /\ Task(c).chunk = c
           /\ Queued(Task(c)) = ToSet(c) /\ Waiting(Task(c)) = ToSet(c)
<1>1. DOMAIN Task(c) = TaskFields /\ Task(c).queue = <<c>> /\ Task(c).items = <<>> /\ Task(c).chunk = c
  BY DEF Task, TaskFields
<1>2. DOMAIN <<c>> = {1} /\ <<c>>[1] = c /\ ToSet(<<>>) = {}
  BY DEF ToSet
<1>3. Queued(Task(c)) = ToSet(c)
  BY <1>1, <1>2 DEF Queued
<1> QED
  BY <1>1, <1>2, <1>3 DEF Waiting

LEMMA TaskIsTidy ==
    ASSUME NEW c \in Seq(Row), Once(c) PROVE TidyQueue(Task(c)) /\ Waiting(Task(c)) \subseteq Row
<1>1. <<c>> \in Seq(Seq(Row)) /\ <<>> \in Seq(Row) /\ DOMAIN <<c>> = {1} /\ <<c>>[1] = c /\ DOMAIN <<>> = {}
  OBVIOUS
<1>2. PICK t : t = Task(c)
  OBVIOUS
<1>3. t.queue \in Seq(Seq(Row)) /\ DOMAIN t.queue = {1} /\ t.queue[1] = c /\ t.items \in Seq(Row) /\ DOMAIN t.items = {}
  BY <1>1, <1>2, TaskHas
<1>4. TidyQueue(t)
  BY <1>3 DEF TidyQueue, Once, Shares
<1> QED
  BY <1>2, <1>4, WaitingAreRows

\* What a row finds in the sweep it may write.
LEMMA HitIsItsOwn ==
    ASSUME DataShaped, PortalShaped, SweptIsThere, pc = "plan", NEW r \in Row, Hit(r).id # 0
    PROVE  WritesItsOwn(r, Hit(r).id)
<1> DEFINE id == Hit(r).id
<1>1. /\ DOMAIN index \subseteq DOMAIN portal /\ \A i \in DOMAIN index : index[i] = portal[i]
      /\ DOMAIN index \subseteq Nat
  BY PortalIsListed DEF SweptIsThere
<1>2. /\ id \in DOMAIN index
      /\ \/ rows[r]["idsap"] # "" /\ index[id]["idsap"] = rows[r]["idsap"]
         \/ ~BelongsToAnother(index[id], rows[r])
  BY <1>1, MatchIsFree DEF Hit
<1> HIDE DEF id
<1>3. id \in DOMAIN portal /\ index[id] = portal[id]
  BY <1>1, <1>2
<1>4. rows[r].code = ""
  BY DEF DataShaped
<1>5. portal[id].idsap = rows[r].idsap \/ (portal[id].idsap = "" /\ portal[id].code = "")
                                       \/ (portal[id].idsap = rows[r].idsap /\ portal[id].code = "")
  BY <1>2, <1>3, <1>4 DEF BelongsToAnother, Ownership
<1>6. portal[id].by # 0 /\ rows[portal[id].by].idsap # "" => portal[id].idsap = rows[portal[id].by].idsap
  BY <1>3 DEF PortalShaped, MadeForPartner
<1> QED
  BY <1>3, <1>5, <1>6 DEF WritesItsOwn, id

LEMMA PlanKeeps == ASSUME CrmInv, Plan PROVE CrmInv'
<1>1. /\ DataShaped /\ PortalShaped /\ OneRecordPerPartner /\ SweptIsThere
      /\ UNCHANGED <<rows, children, portal, run, index, known, adopted>> /\ pc = "plan" /\ pc' \in {"sap", "create"}
  BY DEF CrmInv, PartnersTidy, Plan, config
<1>2. DataShaped' /\ PortalShaped' /\ OneRecordPerPartner'
  BY <1>1, SameRecordsKeep
<1>3. \A r \in Row : ~MadeNow(r)
  BY <1>1 DEF SweptIsThere
<1>4. Len(rows) \in Nat /\ Row = 1 .. Len(rows)
  BY <1>1, RowsAreNumbered
<1> DEFINE wanted == {r \in Recognised : mode = "SAP" \/ NeedsUpdate(r, Hit(r).id)}
           those == Ordered(wanted)
           chunks == ChunkArray(Ordered(Creates), ChunkSize)
<1>5. wanted \subseteq Recognised /\ Recognised \subseteq Row /\ Creates \subseteq Row /\ Creates \cap Recognised = {}
  BY <1>1, CreatesAreTheUndoubled DEF Unmatched, Recognised, Syncable
<1>6. those \in Seq(wanted) /\ Once(those)
  <2>1. wanted \subseteq 1 .. Len(rows)
    BY <1>4, <1>5
  <2> HIDE DEF wanted
  <2> QED BY <1>4, <2>1, OrderedIsOfSet
<1>7. Ordered(Creates) \in Seq(Creates) /\ Once(Ordered(Creates))
  BY <1>4, <1>5, OrderedIsOfSet
<1>8. /\ \A k \in DOMAIN chunks : chunks[k] \in Seq(Creates) /\ Once(chunks[k])
      /\ \A j, k \in DOMAIN chunks : j # k => ~Shares(chunks[j], chunks[k])
  BY <1>7, CrmBounds, ChunksOfOnce
<1>9. /\ updates' = [i \in DOMAIN those |-> <<those[i], Hit(those[i]).id>>]
      /\ tasks' = [k \in DOMAIN chunks |-> Task(chunks[k])]
  BY DEF Plan
<1> HIDE DEF those, chunks
<1>10. \A r \in Recognised : Hit(r).id # 0 /\ \A q \in Recognised : Hit(q).id = Hit(r).id => q = r
  <2>1. ASSUME NEW r \in Recognised, NEW q \in Recognised, Hit(q).id = Hit(r).id, q < r PROVE FALSE
    BY <2>1 DEF Recognised
  <2>2. \A r, q \in Recognised : q < r \/ r < q \/ q = r
    BY <1>4, <1>5
  <2>3. \A r \in Recognised : Hit(r).id # 0
    BY DEF Recognised
  <2> QED BY <2>1, <2>2, <2>3
<1>11. \A i \in DOMAIN those : those[i] \in wanted /\ those[i] \in Recognised /\ those[i] \in Row
  <2>1. \A i \in DOMAIN those : those[i] \in wanted
    <3> HIDE DEF wanted
    <3> QED BY <1>6
  <2> QED BY <1>5, <2>1
<1>12. \A i \in DOMAIN those : WritesItsOwn(those[i], Hit(those[i]).id) /\ Hit(those[i]).id \in Nat
  <2> SUFFICES ASSUME NEW i \in DOMAIN those
               PROVE  WritesItsOwn(those[i], Hit(those[i]).id) /\ Hit(those[i]).id \in Nat
    OBVIOUS
  <2>1. WritesItsOwn(those[i], Hit(those[i]).id)
    BY <1>1, <1>10, <1>11, HitIsItsOwn
  <2>2. DOMAIN portal \subseteq Nat
    BY <1>1, PortalIsListed
  <2> QED BY <2>1, <2>2 DEF WritesItsOwn
<1>13. DOMAIN those = 1 .. Len(those) /\ Len(those) \in Nat
  <2> HIDE DEF wanted
  <2> QED BY <1>6
<1>14. Planned(updates)'
  <2>1. updates' \in Seq(Row \X Nat)
    <3>1. \A i \in 1 .. Len(those) : <<those[i], Hit(those[i]).id>> \in Row \X Nat
      BY <1>11, <1>12, <1>13
    <3> QED BY <1>9, <1>13, <3>1
  <2>2. DOMAIN updates' = DOMAIN those /\ \A i \in DOMAIN those : updates'[i][1] = those[i] /\ updates'[i][2] = Hit(those[i]).id
    BY <1>9
  <2>3. \A i, j \in DOMAIN those : those[i] = those[j] \/ Hit(those[i]).id = Hit(those[j]).id => i = j
    BY <1>6, <1>10, <1>11 DEF Once
  <2>4. \A i \in DOMAIN those : WritesItsOwn(updates[i][1], updates[i][2])'
    BY <1>1, <1>12, <2>2, ZenonT(60) DEF WritesItsOwn, Row
  <2>5. Row' = Row
    BY <1>1 DEF Row
  <2> QED BY <2>1, <2>2, <2>3, <2>4, <2>5 DEF Planned
<1>15. DOMAIN tasks' = DOMAIN chunks
  BY <1>9
<1>16. ASSUME NEW k \in DOMAIN chunks
       PROVE  /\ DOMAIN tasks'[k] = TaskFields /\ TidyQueue(tasks[k])'
              /\ Waiting(tasks[k])' = ToSet(chunks[k]) /\ Queued(tasks[k])' = ToSet(chunks[k])
              /\ ToSet(chunks[k]) \subseteq Creates
  <2>1. chunks[k] \in Seq(Creates) /\ Once(chunks[k])
    BY <1>8
  <2>2. chunks[k] \in Seq(Row) /\ ToSet(chunks[k]) \subseteq Creates
    BY <1>5, <2>1 DEF ToSet
  <2>3. TidyQueue(Task(chunks[k]))
    BY <2>1, <2>2, TaskIsTidy
  <2>4. tasks'[k] = Task(chunks[k]) /\ Row' = Row
    BY <1>1, <1>9 DEF Row
  <2>5. TidyQueue(tasks[k])'
    BY <2>3, <2>4 DEF TidyQueue
  <2>6. Waiting(tasks[k])' = ToSet(chunks[k]) /\ Queued(tasks[k])' = ToSet(chunks[k])
    BY <2>4, TaskHas DEF Waiting, Queued
  <2> QED BY <2>2, <2>4, <2>5, <2>6, TaskHas
<1>17. \A r \in Row : ~MadeNow(r)'
  BY <1>1, <1>3 DEF MadeNow
<1>18. MakingTidy'
  <2>1. ASSUME NEW j \in DOMAIN chunks, NEW k \in DOMAIN chunks, j # k
        PROVE  Waiting(tasks[j])' \cap Waiting(tasks[k])' = {}
    <3>1. ToSet(chunks[j]) \cap ToSet(chunks[k]) = {}
      BY <1>8, <2>1 DEF Shares, ToSet
    <3>2. Waiting(tasks[j])' = ToSet(chunks[j]) /\ Waiting(tasks[k])' = ToSet(chunks[k])
      BY <1>16
    <3> QED BY <3>1, <3>2
  <2> QED BY <1>5, <1>15, <1>16, <1>17, <2>1 DEF MakingTidy
<1>19. UpdatesTidy'
  <2>1. ASSUME NEW r \in UpdatedRows(updates)' PROVE r \in Recognised
    BY <1>9, <1>11, <2>1 DEF UpdatedRows
  <2> QED BY <1>5, <1>14, <1>15, <1>16, <1>17, <2>1 DEF UpdatesTidy
<1>20. ASSUME NEW i \in DOMAIN portal, portal[i].by # 0, NEW r \in Creates, rows[r].idsap # "",
              rows[portal[i].by].idsap = rows[r].idsap
       PROVE  FALSE
  <2>1. portal[i].idsap = rows[r].idsap /\ portal[i].by \in Row
    BY <1>1, <1>20 DEF PortalShaped, MadeForPartner
  <2>2. i \in DOMAIN index /\ index[i] = portal[i] /\ DOMAIN index \subseteq Nat
    <3>1. DOMAIN index \subseteq Nat
      BY <1>1, PortalIsListed DEF SweptIsThere
    <3>2. i \in DOMAIN index
      <4>1. portal[i].by # 0
        BY <1>20
      <4> QED BY <1>1, <4>1 DEF SweptIsThere
    <3> QED BY <1>1, <3>1, <3>2 DEF SweptIsThere
  <2>3. i \in Same(index, "idsap", rows[r])
    BY <1>20, <2>1, <2>2 DEF Same
  <2>4. Hit(r).via = 1
    BY <2>2, <2>3, MatchIsFree DEF Hit
  <2> QED BY <1>1, <2>4, CreatesAreTheUndoubled DEF Unmatched
<1>21. CreatesTidy'
  <2>1. \A r, q \in Creates : rows[r].idsap # "" /\ rows[r].idsap = rows[q].idsap => r = q
    BY <1>1, CreatesHaveOnePerKey
  <2>2. ASSUME NEW i \in DOMAIN portal, portal[i].by # 0 PROVE portal[i].run # run
    <3>1. portal[i].by \in Row
      BY <1>1, <2>2 DEF PortalShaped, MadeForPartner
    <3> QED BY <1>3, <3>1 DEF MadeNow
  <2>3. PICK C \in SUBSET Row : C = Creates
    BY <1>5
  <2>4. CreatedOnce(C)'
    <3>1. \A r, q \in C : rows'[r].idsap # "" /\ rows'[r].idsap = rows'[q].idsap => r = q
      BY <1>1, <2>1, <2>3
    <3>2. \A k \in DOMAIN tasks' : Queued(tasks[k])' \subseteq C
      BY <1>15, <1>16, <2>3
    <3>3. \A i \in DOMAIN portal' : portal'[i].by # 0 =>
             /\ portal'[i].run = run' /\ portal'[i].how = "batch" => portal'[i].by \in C
             /\ \A r \in C : rows'[r].idsap # "" /\ rows'[portal'[i].by].idsap = rows'[r].idsap
                     => portal'[i].run = run'
      BY <1>1, <1>20, <2>2, <2>3
    <3> QED BY <3>1, <3>2, <3>3 DEF CreatedOnce
  <2>5. C \in SUBSET Row'
    BY <1>1 DEF Row
  <2> QED BY <2>4, <2>5 DEF CreatesTidy
<1> QED
  BY <1>1, <1>2, <1>17, <1>18, <1>19, <1>21 DEF CrmInv, PartnersTidy, SweptIsThere, UpdatingTidy,
         EmployeesTidy, EntriesShaped, GroupsKept, EntryTasks, Row

LEMMA ListedThen ==
    ASSUME NEW s, s \in Seq(ToSet(s)), NEW x
    PROVE  /\ Append(s, x) \in Seq(ToSet(Append(s, x))) /\ DOMAIN Append(s, x) = DOMAIN s \cup {Len(s) + 1}
           /\ Len(s) + 1 \notin DOMAIN s /\ Append(s, x)[Len(s) + 1] = x
           /\ \A i \in DOMAIN s : Append(s, x)[i] = s[i]
<1> DEFINE S == ToSet(s) \cup {x}
<1>1. s \in Seq(S) /\ x \in S
  OBVIOUS
<1> HIDE DEF S
<1>2. Len(s) \in Nat /\ DOMAIN s = 1 .. Len(s)
  BY <1>1
<1>3. Append(s, x) \in Seq(S) /\ Len(Append(s, x)) = Len(s) + 1
  BY <1>1, AppendProperties
<1>4. /\ \A i \in 1 .. Len(s) : Append(s, x)[i] = s[i]
      /\ Append(s, x)[Len(s) + 1] = x
  BY <1>1, AppendProperties
<1>5. DOMAIN Append(s, x) = 1 .. Len(s) + 1
  BY <1>3
<1>6. 1 .. Len(s) + 1 = 1 .. Len(s) \cup {Len(s) + 1} /\ Len(s) + 1 \notin 1 .. Len(s)
  BY <1>2
<1>7. Append(s, x) \in Seq(ToSet(Append(s, x)))
  BY <1>3, Listed
<1> QED
  BY <1>2, <1>4, <1>5, <1>6, <1>7

\* Two records of a partner may be.
MayBoth(i, j) ==
    rows[portal[i].by].idsap # "" /\ rows[portal[i].by].idsap = rows[portal[j].by].idsap =>
        /\ "item" \in {portal[i].how, portal[j].how}
        /\ portal[i].by # portal[j].by /\ portal[i].run = portal[j].run

\* The property, two records at a time.
LEMMA OneRecordMeans ==
    OneRecordPerPartner <=>
        \A i, j \in DOMAIN portal : i # j /\ portal[i].by # 0 /\ portal[j].by # 0 => MayBoth(i, j)
BY DEF OneRecordPerPartner, MayBoth

\* It goes on when each new record may be beside those there are.
LEMMA OneRecordGoesOn ==
    ASSUME OneRecordPerPartner, UNCHANGED rows,
           \A i \in DOMAIN portal' : portal'[i].by # 0 =>
               \/ /\ i \in DOMAIN portal /\ portal'[i].by = portal[i].by
                  /\ portal'[i].run = portal[i].run /\ portal'[i].how = portal[i].how
               \/ \A j \in DOMAIN portal' : j # i /\ portal'[j].by # 0 => MayBoth(i, j)'
    PROVE  OneRecordPerPartner'
<1> SUFFICES ASSUME NEW i \in DOMAIN portal', NEW j \in DOMAIN portal',
                    i # j, portal'[i].by # 0, portal'[j].by # 0
             PROVE  MayBoth(i, j)'
  BY DEF OneRecordPerPartner, MayBoth
<1>1. CASE \A l \in DOMAIN portal' : l # i /\ portal'[l].by # 0 => MayBoth(i, l)'
  BY <1>1
<1>2. CASE \A l \in DOMAIN portal' : l # j /\ portal'[l].by # 0 => MayBoth(j, l)'
  <2>1. MayBoth(j, i)'
    BY <1>2
  <2> QED BY <2>1 DEF MayBoth
<1>3. CASE /\ i \in DOMAIN portal /\ portal'[i].by = portal[i].by
           /\ portal'[i].run = portal[i].run /\ portal'[i].how = portal[i].how
           /\ j \in DOMAIN portal /\ portal'[j].by = portal[j].by
           /\ portal'[j].run = portal[j].run /\ portal'[j].how = portal[j].how
  <2>1. MayBoth(i, j)
    BY <1>3, OneRecordMeans
  <2> QED BY <1>3, <2>1 DEF MayBoth
<1> QED
  BY <1>1, <1>2, <1>3

\* More records, those there were being as they were.
Grows ==
    /\ portal' \in Seq(ToSet(portal')) /\ DOMAIN portal \subseteq DOMAIN portal'
    /\ \A i \in DOMAIN portal : portal'[i] = portal[i]

\* A record that somebody owns stays as it is.
OwnedKept ==
    \A i \in DOMAIN portal \ adopted :
        /\ portal[i].idsap # "" => portal'[i].idsap = portal[i].idsap
        /\ portal[i].code # "" => portal'[i].code = portal[i].code /\ portal'[i].idsap = portal[i].idsap

\* What only grows keeps what is owned.
LEMMA GrowingKeepsOwned == ASSUME Grows PROVE OwnedKept
BY DEF Grows, OwnedKept

\* The new records are no partner's.
NobodysAdded == \A i \in DOMAIN portal' \ DOMAIN portal : DOMAIN portal'[i] = Fields /\ portal'[i].by = 0

\* Records that are no partner's change nothing for the partners.
LEMMA NobodysKeep ==
    ASSUME DataShaped, PortalShaped, OneRecordPerPartner, Grows, NobodysAdded, UNCHANGED <<rows, children, run>>
    PROVE  /\ DataShaped' /\ PortalShaped' /\ OneRecordPerPartner'
           /\ \A r \in Row : MadeNow(r)' <=> MadeNow(r)
<1>1. DataShaped'
  BY DEF DataShaped, Row
<1>2. PortalShaped'
  BY DEF PortalShaped, MadeForPartner, Grows, NobodysAdded, Row
<1>3. OneRecordPerPartner'
  <2>1. \A i \in DOMAIN portal' : portal'[i].by # 0 => i \in DOMAIN portal /\ portal'[i] = portal[i]
    BY DEF Grows, NobodysAdded
  <2> QED BY <2>1, OneRecordGoesOn
<1>4. ASSUME NEW r \in Row PROVE MadeNow(r)' <=> MadeNow(r)
  <2>1. r # 0
    BY RowsAreNumbered
  <2> QED BY <2>1 DEF MadeNow, Grows, NobodysAdded
<1> QED
  BY <1>1, <1>2, <1>3, <1>4

\* What goes on while records are made for rows that wait.
LEMMA UpdatesGoOn ==
    ASSUME UpdatesTidy, pc \in {"sap", "create"}, UNCHANGED <<rows, run, updates>>, Steady,
           DOMAIN tasks' = DOMAIN tasks, \A k \in DOMAIN tasks : Waiting(tasks[k])' \subseteq Waiting(tasks[k]),
           \A r \in Row : MadeNow(r)' => MadeNow(r) \/ \E k \in DOMAIN tasks : r \in Waiting(tasks[k])
    PROVE  UpdatesTidy'
<1>1. /\ Planned(updates)
      /\ \A r \in UpdatedRows(updates) : ~MadeNow(r) /\ \A k \in DOMAIN tasks : r \notin Waiting(tasks[k])
  BY DEF UpdatesTidy
<1>2. UpdatedRows(updates)' = UpdatedRows(updates) /\ UpdatedRows(updates) \subseteq Row
  <2>1. updates \in Seq(Row \X Nat)
    BY <1>1 DEF Planned
  <2>2. \A i \in DOMAIN updates : updates[i] \in Row \X Nat
    BY <2>1
  <2> QED BY <2>2 DEF UpdatedRows
<1>3. Planned(updates)'
  BY <1>1, UpdatesStay
<1> QED
  BY <1>1, <1>2, <1>3 DEF UpdatesTidy

LEMMA CreatesGoOn ==
    ASSUME CreatesTidy, pc \in {"sap", "create"}, UNCHANGED <<rows, run>>,
           DOMAIN tasks' = DOMAIN tasks, \A k \in DOMAIN tasks : Queued(tasks[k])' \subseteq Queued(tasks[k]),
           \A i \in DOMAIN portal' : portal'[i].by # 0 =>
               \/ /\ i \in DOMAIN portal /\ portal'[i].by = portal[i].by
                  /\ portal'[i].run = portal[i].run /\ portal'[i].how = portal[i].how
               \/ /\ portal'[i].run = run
                  /\ portal'[i].how = "batch" => \E k \in DOMAIN tasks : portal'[i].by \in Queued(tasks[k])
    PROVE  CreatesTidy'
<1>1. PICK C \in SUBSET Row : CreatedOnce(C)
  BY DEF CreatesTidy
<1>2. C \in SUBSET Row'
  BY DEF Row
<1>3. /\ \A r, q \in C : rows'[r].idsap # "" /\ rows'[r].idsap = rows'[q].idsap => r = q
      /\ \A k \in DOMAIN tasks' : Queued(tasks[k])' \subseteq C
  BY <1>1 DEF CreatedOnce
<1>4. ASSUME NEW i \in DOMAIN portal', portal'[i].by # 0
      PROVE  /\ portal'[i].run = run' /\ portal'[i].how = "batch" => portal'[i].by \in C
             /\ \A r \in C : rows'[r].idsap # "" /\ rows'[portal'[i].by].idsap = rows'[r].idsap
                     => portal'[i].run = run'
  <2>1. CASE /\ i \in DOMAIN portal /\ portal'[i].by = portal[i].by
             /\ portal'[i].run = portal[i].run /\ portal'[i].how = portal[i].how
    BY <1>1, <1>4, <2>1 DEF CreatedOnce
  <2>2. CASE /\ portal'[i].run = run
             /\ portal'[i].how = "batch" => \E k \in DOMAIN tasks : portal'[i].by \in Queued(tasks[k])
    BY <1>1, <2>2 DEF CreatedOnce
  <2> QED BY <1>4, <2>1, <2>2
<1> QED
  BY <1>2, <1>3, <1>4 DEF CreatesTidy, CreatedOnce

LEMMA SameTasksWait ==
    ASSUME UNCHANGED tasks
    PROVE  \A k \in DOMAIN tasks : Waiting(tasks[k])' = Waiting(tasks[k]) /\ Queued(tasks[k])' = Queued(tasks[k])
BY DEF Waiting, Queued

LEMMA MakingStays ==
    ASSUME MakingTidy, pc \in {"sap", "create", "items"}, UNCHANGED <<rows, tasks>>,
           \A r \in Row : MadeNow(r)' <=> MadeNow(r)
    PROVE  MakingTidy'
<1>1. \A k \in DOMAIN tasks : Waiting(tasks[k])' = Waiting(tasks[k])
  BY SameTasksWait
<1>2. ASSUME NEW k \in DOMAIN tasks'
      PROVE  /\ DOMAIN tasks'[k] = TaskFields /\ TidyQueue(tasks[k])'
             /\ \A r \in Waiting(tasks[k])' : ~MadeNow(r)'
  <2>1. DOMAIN tasks[k] = TaskFields /\ TidyQueue(tasks[k]) /\ \A r \in Waiting(tasks[k]) : ~MadeNow(r)
    BY DEF MakingTidy
  <2>2. TidyQueue(tasks[k])'
    BY <2>1 DEF TidyQueue, Row
  <2>3. Waiting(tasks[k]) \subseteq Row
    BY <2>1, WaitingAreRows
  <2> QED BY <1>1, <2>1, <2>2, <2>3
<1>3. \A j, k \in DOMAIN tasks' : j # k => Waiting(tasks[j])' \cap Waiting(tasks[k])' = {}
  BY <1>1 DEF MakingTidy
<1> QED
  BY <1>2, <1>3 DEF MakingTidy

\* One update less is still a list of updates.
LEMMA TailIsPlanned ==
    ASSUME NEW u, Planned(u), u # <<>>
    PROVE  Planned(Tail(u)) /\ UpdatedRows(Tail(u)) \subseteq UpdatedRows(u)
<1>1. u \in Seq(Row \X Nat)
  BY DEF Planned
<1>2. Tail(u) \in Seq(Row \X Nat) /\ \A i \in DOMAIN Tail(u) : i + 1 \in DOMAIN u /\ Tail(u)[i] = u[i + 1] /\ i \in Nat
  <2>1. Tail(u) \in Seq(Row \X Nat) /\ Len(Tail(u)) = Len(u) - 1 /\ Len(u) \in Nat
    BY <1>1, HeadTailProperties
  <2>2. \A i \in 1 .. Len(u) - 1 : Tail(u)[i] = u[i + 1]
    BY <1>1, HeadTailProperties
  <2>3. DOMAIN Tail(u) = 1 .. Len(u) - 1 /\ DOMAIN u = 1 .. Len(u)
    BY <1>1, <2>1
  <2> QED BY <2>1, <2>2, <2>3
<1>3. ASSUME NEW i \in DOMAIN Tail(u), NEW j \in DOMAIN Tail(u),
             Tail(u)[i][1] = Tail(u)[j][1] \/ Tail(u)[i][2] = Tail(u)[j][2]
      PROVE  i = j
  <2>1. i + 1 = j + 1
    BY <1>2, <1>3 DEF Planned
  <2> QED BY <1>2, <2>1
<1>4. \A i \in DOMAIN Tail(u) : WritesItsOwn(Tail(u)[i][1], Tail(u)[i][2])
  BY <1>2 DEF Planned
<1>5. UpdatedRows(Tail(u)) \subseteq UpdatedRows(u)
  BY <1>2 DEF UpdatedRows
<1> QED
  BY <1>2, <1>3, <1>4, <1>5 DEF Planned

LEMMA UpdateSapKeeps == ASSUME CrmInv, UpdateSap PROVE CrmInv'
<1>1. /\ DataShaped /\ PortalShaped /\ OneRecordPerPartner /\ SweptIsThere /\ MakingTidy /\ UpdatesTidy /\ CreatesTidy
      /\ UNCHANGED <<rows, children, portal, run, index, known, adopted, tasks>>
      /\ pc = "sap" /\ pc' \in {"sap", "create"}
      /\ (updates # <<>> /\ updates' = Tail(updates)) \/ updates' = updates
  BY DEF CrmInv, PartnersTidy, UpdateSap, config
<1>2. DataShaped' /\ PortalShaped' /\ OneRecordPerPartner'
  BY <1>1, SameRecordsKeep
<1>3. \A r \in Row : ~MadeNow(r) /\ ~MadeNow(r)'
  BY <1>1 DEF SweptIsThere, MadeNow
<1>4. MakingTidy'
  BY <1>1, <1>3, MakingStays
<1>5. \A k \in DOMAIN tasks : Waiting(tasks[k])' = Waiting(tasks[k]) /\ Queued(tasks[k])' = Queued(tasks[k])
  BY <1>1, SameTasksWait
<1>6. CreatesTidy'
  BY <1>1, <1>5, CreatesGoOn
<1>7. UpdatesTidy'
  <2>1. Steady
    BY <1>1 DEF Steady
  <2>2. CASE updates' = updates
    BY <1>1, <1>3, <1>5, <2>1, <2>2, UpdatesGoOn
  <2>3. CASE updates # <<>> /\ updates' = Tail(updates)
    <3>1. Planned(updates)
      BY <1>1 DEF UpdatesTidy
    <3>2. PICK u : u = Tail(updates)
      OBVIOUS
    <3>3. Planned(u) /\ UpdatedRows(u) \subseteq UpdatedRows(updates)
      BY <2>3, <3>1, <3>2, TailIsPlanned
    <3>4. updates' = u /\ Row' = Row
      BY <1>1, <2>3, <3>2 DEF Row
    <3>5. Planned(updates)'
      BY <1>1, <3>3, <3>4 DEF Planned, WritesItsOwn
    <3>6. UpdatedRows(updates)' \subseteq UpdatedRows(updates)
      BY <3>3, <3>4 DEF UpdatedRows
    <3>7. UpdatedRows(updates) \subseteq Row
      <4>1. \A i \in DOMAIN updates : updates[i] \in Row \X Nat
        BY <3>1 DEF Planned
      <4> QED BY <4>1 DEF UpdatedRows
    <3> QED BY <1>1, <1>3, <1>5, <3>5, <3>6, <3>7 DEF UpdatesTidy
  <2> QED BY <1>1, <2>2, <2>3
<1> QED
  BY <1>1, <1>2, <1>3, <1>4, <1>6, <1>7 DEF CrmInv, PartnersTidy, SweptIsThere, UpdatingTidy,
         EmployeesTidy, EntriesShaped, GroupsKept, EntryTasks, Row

LEMMA SettleKeeps == ASSUME CrmInv, NEW k \in DOMAIN tasks, Settle(k) PROVE CrmInv'
<1>1. /\ DataShaped /\ PortalShaped /\ OneRecordPerPartner /\ SweptIsThere /\ MakingTidy /\ UpdatesTidy /\ CreatesTidy
      /\ UNCHANGED <<rows, children, portal, run, index, known, adopted, updates, pc>>
      /\ pc = "create" /\ tasks' = [tasks EXCEPT ![k].chunk = <<>>]
  BY DEF CrmInv, PartnersTidy, Settle, config
<1>2. DataShaped' /\ PortalShaped' /\ OneRecordPerPartner'
  BY <1>1, SameRecordsKeep
<1>3. PICK t : t = [tasks[k] EXCEPT !.chunk = <<>>]
  OBVIOUS
<1>4. DOMAIN tasks[k] = TaskFields /\ TidyQueue(tasks[k])
  BY <1>1 DEF MakingTidy
<1>5. tasks' = [tasks EXCEPT ![k] = t] /\ DOMAIN t = TaskFields /\ t.queue = tasks[k].queue /\ t.items = tasks[k].items
  BY <1>1, <1>3, <1>4 DEF TaskFields
<1>6. TidyQueue(t) /\ Waiting(t) = Waiting(tasks[k]) /\ Queued(t) = Queued(tasks[k])
  BY <1>4, <1>5 DEF TidyQueue, Waiting, Queued
<1>7. \A r \in Row : MadeNow(r)' <=> MadeNow(r)
  BY <1>1 DEF MadeNow
<1>8. MakingTidy'
  BY <1>1, <1>5, <1>6, <1>7, OneTaskMoves
<1>9. /\ DOMAIN tasks' = DOMAIN tasks
      /\ \A j \in DOMAIN tasks : Waiting(tasks[j])' \subseteq Waiting(tasks[j]) /\ Queued(tasks[j])' \subseteq Queued(tasks[j])
  BY <1>5 DEF Waiting, Queued
<1>10. Steady
  BY <1>1 DEF Steady
<1>11. UpdatesTidy' /\ CreatesTidy'
  BY <1>1, <1>7, <1>9, <1>10, UpdatesGoOn, CreatesGoOn
<1> QED
  BY <1>1, <1>2, <1>8, <1>11 DEF CrmInv, PartnersTidy, SweptIsThere, UpdatingTidy,
         EmployeesTidy, EntriesShaped, GroupsKept, EntryTasks, Row

LEMMA EndRunKeeps == ASSUME CrmInv, EndRun PROVE CrmInv'
<1>1. /\ DataShaped /\ PortalShaped /\ OneRecordPerPartner /\ SweptIsThere /\ pc # "idle"
      /\ UNCHANGED <<rows, children, portal, run>> /\ pc' \in {"children", "idle"}
  BY DEF CrmInv, PartnersTidy, EndRun, config
<1>2. DataShaped' /\ PortalShaped' /\ OneRecordPerPartner'
  BY <1>1, SameRecordsKeep
<1> QED
  BY <1>1, <1>2 DEF CrmInv, PartnersTidy, SweptIsThere, MakingTidy, UpdatingTidy, UpdatesTidy, CreatesTidy,
         EmployeesTidy, EntriesShaped, GroupsKept, EntryTasks

LEMMA SomeoneCreatesKeeps == ASSUME CrmInv, SomeoneCreates PROVE CrmInv' /\ OwnedKept
<1>1. /\ DataShaped /\ PortalShaped /\ OneRecordPerPartner /\ SweptIsThere /\ MakingTidy /\ UpdatesTidy /\ CreatesTidy
      /\ UNCHANGED <<rows, children, run, index, known, adopted, updates, pc, tasks>>
      /\ pc \in {"properties", "plan", "create"}
  BY DEF CrmInv, PartnersTidy, SomeoneCreates, config
<1>2. PICK r \in Row : portal' = Append(portal, Marked([rows[r] EXCEPT !.idsap = "", !.phone = ""], Lead))
  BY DEF SomeoneCreates
<1>3. PICK x : x = Marked([rows[r] EXCEPT !.idsap = "", !.phone = ""], Lead)
  OBVIOUS
<1>4. DOMAIN x = Fields /\ x.by = 0
  <2>1. PICK f : f = [rows[r] EXCEPT !.idsap = "", !.phone = ""]
    OBVIOUS
  <2>2. DOMAIN f = Property
    BY <1>1, <2>1 DEF DataShaped
  <2>3. x = Marked(f, [by |-> 0, run |-> 0, how |-> "user"])
    BY <1>3, <2>1 DEF Lead
  <2> QED BY <2>2, <2>3, RecordFields
<1>5. Grows /\ NobodysAdded
  <2>1. portal \in Seq(ToSet(portal)) /\ portal' = Append(portal, x)
    BY <1>1, <1>2, <1>3 DEF PortalShaped
  <2>2. /\ portal' \in Seq(ToSet(portal')) /\ DOMAIN portal' = DOMAIN portal \cup {Len(portal) + 1}
        /\ portal'[Len(portal) + 1] = x /\ \A i \in DOMAIN portal : portal'[i] = portal[i]
    BY <2>1, ListedThen
  <2> QED BY <1>4, <2>2 DEF Grows, NobodysAdded
<1>6. DataShaped' /\ PortalShaped' /\ OneRecordPerPartner' /\ \A q \in Row : MadeNow(q)' <=> MadeNow(q)
  BY <1>1, <1>5, NobodysKeep
<1>7. Steady
  BY <1>1, <1>5 DEF Steady, Grows
<1>8. \A k \in DOMAIN tasks : Waiting(tasks[k])' = Waiting(tasks[k]) /\ Queued(tasks[k])' = Queued(tasks[k])
  BY <1>1, SameTasksWait
<1>9. SweptIsThere'
  BY <1>1, <1>5, <1>6 DEF SweptIsThere, Grows, NobodysAdded, Row
<1>10. ASSUME pc = "create" PROVE CrmInv'
  <2>1. MakingTidy' /\ UpdatesTidy'
    BY <1>1, <1>6, <1>7, <1>8, <1>10, MakingStays, UpdatesGoOn
  <2>2. CreatesTidy'
    BY <1>1, <1>5, <1>8, <1>10, CreatesGoOn DEF Grows, NobodysAdded
  <2> QED BY <1>1, <1>6, <1>9, <1>10, <2>1, <2>2 DEF CrmInv, PartnersTidy, UpdatingTidy,
         EmployeesTidy, EntriesShaped, GroupsKept, EntryTasks
<1>11. ASSUME pc \in {"properties", "plan"} PROVE CrmInv'
  BY <1>1, <1>6, <1>9, <1>11 DEF CrmInv, PartnersTidy, MakingTidy, UpdatingTidy, UpdatesTidy, CreatesTidy,
         EmployeesTidy, EntriesShaped, GroupsKept, EntryTasks
<1>12. OwnedKept
  BY <1>5, GrowingKeepsOwned
<1> QED
  BY <1>1, <1>10, <1>11, <1>12

\* An order of HubSpot's has each input once.
LEMMA OrderIsOnce ==
    ASSUME DataShaped, NEW S, S \subseteq Row, NEW order \in SetToSeqs(S)
    PROVE  order \in Seq(S) /\ Once(order)
<1>1. Cardinality(S) \in Nat
  <2>1. IsFiniteSet(Row)
    BY RowsAreNumbered, FS_Interval
  <2>2. IsFiniteSet(S)
    BY <2>1, FS_Subset
  <2> QED BY <2>2, FS_CardinalityType
<1>2. /\ order \in [1 .. Cardinality(S) -> S]
      /\ \A i, j \in 1 .. Cardinality(S) : i # j => order[i] # order[j]
  BY DEF SetToSeqs
<1> QED
  BY <1>1, <1>2 DEF Once

\* What a batch of creates leaves in HubSpot.
LEMMA BatchIsMade ==
    ASSUME DataShaped, PortalShaped, known # "no", NEW order \in Seq(Row), portal' = Created(order)
    PROVE  /\ portal' \in Seq(ToSet(portal')) /\ DOMAIN portal \subseteq DOMAIN portal'
           /\ \A i \in DOMAIN portal : portal'[i] = portal[i]
           /\ \A i \in DOMAIN portal' \ DOMAIN portal :
                 /\ i - Len(portal) \in DOMAIN order /\ i \in Nat /\ Len(portal) \in Nat
                 /\ DOMAIN portal'[i] = Fields /\ portal'[i].by = order[i - Len(portal)]
                 /\ portal'[i].run = run /\ portal'[i].how = "batch"
                 /\ portal'[i].idsap = rows[order[i - Len(portal)]].idsap
<1> DEFINE added == [i \in DOMAIN order |-> Record(order[i], "batch")]
<1>1. DOMAIN order = 1 .. Len(order) /\ Len(order) \in Nat /\ \A i \in DOMAIN order : order[i] \in Row
  OBVIOUS
<1>2. DOMAIN added = DOMAIN order /\ \A i \in DOMAIN order : added[i] = Record(order[i], "batch")
  OBVIOUS
<1>3. added \in Seq(ToSet(added))
  <2>1. added = [i \in 1 .. Len(order) |-> added[i]]
    BY <1>1
  <2>2. \A i \in 1 .. Len(order) : added[i] \in ToSet(added)
    BY <1>1, <1>2 DEF ToSet
  <2> HIDE DEF added, ToSet
  <2> QED BY <1>1, <2>1, <2>2
<1>4. portal \in Seq(ToSet(portal)) /\ portal' = portal \o added
  BY DEF PortalShaped, Created
<1>5. ASSUME NEW r \in Row
      PROVE  LET record == Record(r, "batch")
             IN  /\ DOMAIN record = Fields /\ record.by = r /\ record.run = run /\ record.how = "batch"
                 /\ record.idsap = rows[r].idsap
  <2>1. DOMAIN rows[r] = Property /\ "idsap" \in Property
    BY DEF DataShaped, Property, Ownership
  <2>2. PICK f : f = rows[r]
    OBVIOUS
  <2>3. PICK record : record = Marked(f, [by |-> r, run |-> run, how |-> "batch"])
    OBVIOUS
  <2>4. Record(r, "batch") = record
    BY <2>2, <2>3 DEF Record, Payload
  <2>5. /\ DOMAIN record = Fields /\ record.by = r /\ record.run = run /\ record.how = "batch"
        /\ \A name \in Property : record[name] = f[name]
    BY <2>1, <2>2, <2>3, RecordFields
  <2> QED BY <2>1, <2>2, <2>4, <2>5
<1> HIDE DEF added
<1>6. /\ portal \o added \in Seq(ToSet(portal \o added)) /\ DOMAIN (portal \o added) = 1 .. Len(portal) + Len(added)
      /\ Len(portal) \in Nat /\ Len(added) \in Nat /\ DOMAIN portal = 1 .. Len(portal)
      /\ \A i \in DOMAIN portal : (portal \o added)[i] = portal[i]
      /\ \A i \in DOMAIN (portal \o added) \ DOMAIN portal :
            i - Len(portal) \in DOMAIN added /\ (portal \o added)[i] = added[i - Len(portal)]
  BY <1>3, <1>4, ListedBefore
<1>7. DOMAIN portal \subseteq DOMAIN portal' /\ \A i \in DOMAIN portal' : i \in Nat
  BY <1>4, <1>6
<1>8. ASSUME NEW i \in DOMAIN portal' \ DOMAIN portal
      PROVE  i - Len(portal) \in DOMAIN order /\ portal'[i] = Record(order[i - Len(portal)], "batch")
  BY <1>2, <1>4, <1>6
<1>9. ASSUME NEW i \in DOMAIN portal' \ DOMAIN portal
      PROVE  /\ i - Len(portal) \in DOMAIN order /\ i \in Nat /\ Len(portal) \in Nat
             /\ DOMAIN portal'[i] = Fields /\ portal'[i].by = order[i - Len(portal)]
             /\ portal'[i].run = run /\ portal'[i].how = "batch"
             /\ portal'[i].idsap = rows[order[i - Len(portal)]].idsap
  <2>1. PICK r \in Row : r = order[i - Len(portal)]
    BY <1>1, <1>8
  <2>2. portal'[i] = Record(r, "batch")
    BY <1>8, <2>1
  <2> QED BY <1>5, <1>6, <1>7, <1>8, <2>1, <2>2
<1> QED
  BY <1>4, <1>6, <1>7, <1>9

\* A task gets an answer: records have been made of some of the rows it lets go.
LEMMA AnswerKeeps ==
    ASSUME CrmInv, pc = "create", UNCHANGED <<rows, children, run, index, known, adopted, updates, pc>>,
           NEW k \in DOMAIN tasks, NEW t, tasks' = [tasks EXCEPT ![k] = t],
           DOMAIN t = TaskFields, TidyQueue(t), Waiting(t) \subseteq Waiting(tasks[k]), Queued(t) \subseteq Queued(tasks[k]),
           NEW order \in Seq(Row), Once(order), portal' = Created(order),
           ToSet(order) \subseteq Queued(tasks[k]), ToSet(order) \cap Waiting(t) = {}
    PROVE  CrmInv' /\ OwnedKept
<1>1. /\ DataShaped /\ PortalShaped /\ OneRecordPerPartner /\ SweptIsThere /\ MakingTidy /\ UpdatesTidy /\ CreatesTidy
      /\ known # "no"
  BY DEF CrmInv, PartnersTidy, SweptIsThere
<1>2. Grows
  BY <1>1, BatchIsMade DEF Grows
<1>3. ASSUME NEW i \in DOMAIN portal' \ DOMAIN portal
      PROVE  /\ DOMAIN portal'[i] = Fields /\ portal'[i].by \in ToSet(order)
             /\ portal'[i].run = run /\ portal'[i].how = "batch"
             /\ portal'[i].idsap = rows[portal'[i].by].idsap
  BY <1>1, BatchIsMade, ZenonT(60) DEF ToSet
<1>4. ASSUME NEW i \in DOMAIN portal' \ DOMAIN portal, NEW j \in DOMAIN portal' \ DOMAIN portal, i # j
      PROVE  portal'[i].by # portal'[j].by
  <2>1. PICK n : n = Len(portal)
    OBVIOUS
  <2>2. /\ i - n \in DOMAIN order /\ j - n \in DOMAIN order /\ i \in Nat /\ j \in Nat /\ n \in Nat
        /\ portal'[i].by = order[i - n] /\ portal'[j].by = order[j - n]
    BY <1>1, <2>1, BatchIsMade
  <2>3. i - n # j - n
    BY <1>4, <2>2
  <2> QED BY <2>2, <2>3 DEF Once
<1>5. TidyQueue(tasks[k]) /\ Queued(tasks[k]) \subseteq Row /\ Queued(tasks[k]) \subseteq Waiting(tasks[k])
      /\ \A r \in Waiting(tasks[k]) : ~MadeNow(r)
  <2>1. TidyQueue(tasks[k]) /\ \A r \in Waiting(tasks[k]) : ~MadeNow(r)
    BY <1>1 DEF MakingTidy
  <2> QED BY <2>1, WaitingAreRows DEF Waiting
<1>6. DataShaped'
  BY <1>1 DEF DataShaped, Row
<1>7. PortalShaped'
  <2>1. run \in 1 .. run
    BY <1>1 DEF PortalShaped, SweptIsThere
  <2>2. ASSUME NEW i \in DOMAIN portal' PROVE DOMAIN portal'[i] = Fields /\ MadeForPartner(portal[i])'
    <3>1. CASE i \in DOMAIN portal
      BY <1>1, <1>2, <3>1 DEF PortalShaped, MadeForPartner, Grows, Row
    <3>2. CASE i \notin DOMAIN portal
      <4>1. portal'[i].by \in Row
        BY <1>3, <1>5, <3>2
      <4> QED BY <1>3, <2>1, <3>2, <4>1 DEF MadeForPartner, Row
    <3> QED BY <3>1, <3>2
  <2> QED BY <1>1, <1>2, <2>2 DEF PortalShaped, Grows
<1>8. PICK C \in SUBSET Row : CreatedOnce(C)
  BY <1>1 DEF CreatesTidy
<1>9. ASSUME NEW i \in DOMAIN portal' \ DOMAIN portal, NEW j \in DOMAIN portal', j # i, portal'[j].by # 0
      PROVE  MayBoth(i, j)'
  <2>1. portal'[i].by \in C /\ portal'[i].by \in Waiting(tasks[k])
    BY <1>3, <1>5, <1>8 DEF CreatedOnce
  <2>2. CASE j \in DOMAIN portal
    <3>1. portal'[j] = portal[j] /\ portal[j].by \in Row
      BY <1>1, <1>2, <1>9, <2>2 DEF Grows, PortalShaped, MadeForPartner
    <3>2. SUFFICES ASSUME rows[portal'[i].by].idsap # "", rows[portal'[i].by].idsap = rows[portal[j].by].idsap
                   PROVE  "item" = portal[j].how /\ portal'[i].by # portal[j].by /\ portal[j].run = run
      BY <1>3, <3>1 DEF MayBoth
    <3>3. portal[j].run = run
      BY <1>8, <1>9, <2>1, <2>2, <3>1, <3>2 DEF CreatedOnce
    <3>4. portal'[i].by # portal[j].by
      BY <1>5, <2>1, <2>2, <3>3 DEF MadeNow
    <3>5. portal[j].how \in {"batch", "item"}
      BY <1>1, <1>9, <2>2, <3>1 DEF PortalShaped, MadeForPartner
    <3>6. portal[j].how # "batch"
      BY <1>8, <1>9, <2>1, <2>2, <3>1, <3>2, <3>3, <3>4 DEF CreatedOnce
    <3> QED BY <3>3, <3>4, <3>5, <3>6
  <2>3. CASE j \notin DOMAIN portal
    <3>1. portal'[j].by \in C /\ portal'[i].by # portal'[j].by
      BY <1>3, <1>4, <1>5, <1>8, <1>9, <2>3 DEF CreatedOnce
    <3>2. ~(rows[portal'[i].by].idsap # "" /\ rows[portal'[i].by].idsap = rows[portal'[j].by].idsap)
      BY <1>8, <2>1, <3>1 DEF CreatedOnce
    <3> QED BY <3>2 DEF MayBoth
  <2> QED BY <2>2, <2>3
<1>10. OneRecordPerPartner'
  <2>1. \A i \in DOMAIN portal' : portal'[i].by # 0 =>
               \/ /\ i \in DOMAIN portal /\ portal'[i].by = portal[i].by
                  /\ portal'[i].run = portal[i].run /\ portal'[i].how = portal[i].how
               \/ \A j \in DOMAIN portal' : j # i /\ portal'[j].by # 0 => MayBoth(i, j)'
    BY <1>2, <1>9 DEF Grows
  <2> QED BY <1>1, <2>1, OneRecordGoesOn
<1>11. \A r \in Row : MadeNow(r)' => MadeNow(r) \/ r \in Waiting(tasks[k]) \ Waiting(t)
  <2> SUFFICES ASSUME NEW r \in Row, MadeNow(r)' PROVE MadeNow(r) \/ r \in Waiting(tasks[k]) \ Waiting(t)
    OBVIOUS
  <2>1. PICK i \in DOMAIN portal' : portal'[i].by = r /\ portal'[i].run = run
    BY DEF MadeNow
  <2>2. CASE i \in DOMAIN portal
    BY <1>2, <2>1, <2>2 DEF MadeNow, Grows
  <2>3. CASE i \notin DOMAIN portal
    BY <1>3, <1>5, <2>1, <2>3
  <2> QED BY <2>2, <2>3
<1>12. MakingTidy'
  BY <1>1, <1>11, OneTaskMoves
<1>13. /\ DOMAIN tasks' = DOMAIN tasks
       /\ \A j \in DOMAIN tasks : Waiting(tasks[j])' \subseteq Waiting(tasks[j]) /\ Queued(tasks[j])' \subseteq Queued(tasks[j])
  BY DEF Waiting, Queued
<1>14. Steady
  BY <1>2 DEF Steady, Grows
<1>15. UpdatesTidy'
  BY <1>1, <1>11, <1>13, <1>14, UpdatesGoOn
<1>16. CreatesTidy'
  <2>1. \A i \in DOMAIN portal' : portal'[i].by # 0 =>
               \/ /\ i \in DOMAIN portal /\ portal'[i].by = portal[i].by
                  /\ portal'[i].run = portal[i].run /\ portal'[i].how = portal[i].how
               \/ /\ portal'[i].run = run
                  /\ portal'[i].how = "batch" => \E j \in DOMAIN tasks : portal'[i].by \in Queued(tasks[j])
    BY <1>2, <1>3 DEF Grows
  <2> QED BY <1>1, <1>13, <2>1, CreatesGoOn
<1>17. OwnedKept
  BY <1>2, GrowingKeepsOwned
<1> QED
  BY <1>1, <1>6, <1>7, <1>10, <1>12, <1>15, <1>16, <1>17 DEF CrmInv, PartnersTidy, SweptIsThere, UpdatingTidy,
         EmployeesTidy, EntriesShaped, GroupsKept, EntryTasks

\* The next chunk of a task.
LEMMA ChunkOfQueue ==
    ASSUME NEW task, TidyQueue(task), task.queue # <<>>
    PROVE  /\ Head(task.queue) \in Seq(Row) /\ Once(Head(task.queue)) /\ ~Shares(Head(task.queue), task.items)
           /\ ToSet(Head(task.queue)) \subseteq Queued(task) /\ ToSet(Head(task.queue)) \subseteq Row
           /\ 1 \in DOMAIN task.queue /\ Head(task.queue) = task.queue[1]
           /\ Tail(task.queue) \in Seq(Seq(Row))
           /\ \A q \in DOMAIN Tail(task.queue) :
                 q \in Nat /\ q + 1 # 1 /\ q + 1 \in DOMAIN task.queue /\ Tail(task.queue)[q] = task.queue[q + 1]
<1>1. task.queue \in Seq(Seq(Row))
  BY DEF TidyQueue
<1> PICK s : s = task.queue
  OBVIOUS
<1>2. s \in Seq(Seq(Row)) /\ s # <<>>
  BY <1>1
<1>3. Len(s) \in Nat \ {0} /\ DOMAIN s = 1 .. Len(s) /\ Head(s) = s[1]
  BY <1>2
<1>4. Tail(s) \in Seq(Seq(Row)) /\ Len(Tail(s)) = Len(s) - 1 /\ \A i \in 1 .. Len(s) - 1 : Tail(s)[i] = s[i + 1]
  BY <1>2, HeadTailProperties
<1>5. DOMAIN Tail(s) = 1 .. Len(s) - 1
  BY <1>4
<1>6. \A q \in 1 .. Len(s) - 1 : q \in Nat /\ q + 1 # 1 /\ q + 1 \in 1 .. Len(s)
  BY <1>3
<1>7. \A q \in DOMAIN Tail(s) : q \in Nat /\ q + 1 # 1 /\ q + 1 \in DOMAIN s /\ Tail(s)[q] = s[q + 1]
  BY <1>3, <1>4, <1>5, <1>6
<1>8. 1 \in DOMAIN s /\ s[1] \in Seq(Row)
  BY <1>2, <1>3
<1>9. ToSet(s[1]) \subseteq Row
  BY <1>8 DEF ToSet
<1>10. ToSet(s[1]) \subseteq Queued(task)
  BY <1>8 DEF Queued
<1>11. Once(s[1]) /\ ~Shares(s[1], task.items)
  BY <1>8 DEF TidyQueue
<1> QED
  BY <1>3, <1>4, <1>7, <1>8, <1>9, <1>10, <1>11

\* It has been answered.
LEMMA TurnDone ==
    ASSUME NEW task, TidyQueue(task), task.queue # <<>>,
           NEW t, t.queue = Tail(task.queue), t.items = task.items
    PROVE  /\ TidyQueue(t) /\ Waiting(t) \subseteq Waiting(task) /\ Queued(t) \subseteq Queued(task)
           /\ ToSet(Head(task.queue)) \cap Waiting(t) = {}
<1>1. /\ t.queue \in Seq(Seq(Row))
      /\ \A q \in DOMAIN t.queue :
            q \in Nat /\ q + 1 # 1 /\ q + 1 \in DOMAIN task.queue /\ t.queue[q] = task.queue[q + 1]
      /\ 1 \in DOMAIN task.queue /\ Head(task.queue) = task.queue[1]
  BY ChunkOfQueue
<1>2. TidyQueue(t)
  <2>1. \A p, q \in DOMAIN t.queue : p # q => p + 1 # q + 1
    BY <1>1
  <2>2. \A p, q \in DOMAIN t.queue : p # q => ~Shares(t.queue[p], t.queue[q])
    BY <1>1, <2>1 DEF TidyQueue
  <2>3. \A q \in DOMAIN t.queue : Once(t.queue[q]) /\ ~Shares(t.queue[q], t.items)
    BY <1>1 DEF TidyQueue
  <2>4. t.items \in Seq(Row) /\ Once(t.items)
    BY DEF TidyQueue
  <2> QED BY <1>1, <2>2, <2>3, <2>4 DEF TidyQueue
<1>3. Queued(t) \subseteq Queued(task)
  BY <1>1 DEF Queued
<1>4. ASSUME NEW r \in ToSet(Head(task.queue)), r \in Waiting(t) PROVE FALSE
  <2>1. PICK i \in DOMAIN task.queue[1] : r = task.queue[1][i]
    BY <1>1, <1>4 DEF ToSet
  <2>2. CASE r \in ToSet(t.items)
    <3>1. Shares(task.queue[1], task.items)
      BY <2>1, <2>2 DEF Shares, ToSet
    <3> QED BY <1>1, <3>1 DEF TidyQueue
  <2>3. CASE r \in Queued(t)
    <3>1. PICK q \in DOMAIN t.queue : r \in ToSet(t.queue[q])
      BY <2>3 DEF Queued
    <3>2. Shares(task.queue[1], task.queue[q + 1])
      BY <1>1, <2>1, <3>1 DEF Shares, ToSet
    <3>3. ~Shares(task.queue[1], task.queue[q + 1])
      BY <1>1, <3>1 DEF TidyQueue
    <3> QED BY <3>2, <3>3
  <2> QED BY <1>4, <2>2, <2>3 DEF Waiting
<1> QED
  BY <1>2, <1>3, <1>4 DEF Waiting

\* Two lists that share nothing, one after the other.
LEMMA JoinOfOnce ==
    ASSUME NEW S, NEW s \in Seq(S), NEW u \in Seq(S), Once(s), Once(u), ~Shares(s, u)
    PROVE  /\ s \o u \in Seq(S) /\ Once(s \o u) /\ ToSet(s \o u) = ToSet(s) \cup ToSet(u)
<1>1. /\ s \o u \in Seq(S) /\ Len(s) \in Nat /\ Len(u) \in Nat
      /\ DOMAIN s = 1 .. Len(s) /\ DOMAIN u = 1 .. Len(u) /\ DOMAIN (s \o u) = 1 .. Len(s) + Len(u)
  OBVIOUS
<1>2. \A i \in 1 .. Len(s) + Len(u) : (s \o u)[i] = IF i <= Len(s) THEN s[i] ELSE u[i - Len(s)]
  BY ConcatProperties
<1>3. \A i \in DOMAIN (s \o u) :
         \/ i \in DOMAIN s /\ (s \o u)[i] = s[i]
         \/ i - Len(s) \in DOMAIN u /\ (s \o u)[i] = u[i - Len(s)] /\ i \in Nat
  BY <1>1, <1>2
<1>4. Once(s \o u)
  <2> SUFFICES ASSUME NEW i \in DOMAIN (s \o u), NEW j \in DOMAIN (s \o u), (s \o u)[i] = (s \o u)[j]
               PROVE  i = j
    BY DEF Once
  <2>1. CASE i \in DOMAIN s /\ (s \o u)[i] = s[i] /\ j \in DOMAIN s /\ (s \o u)[j] = s[j]
    BY <2>1 DEF Once
  <2>2. CASE /\ i - Len(s) \in DOMAIN u /\ (s \o u)[i] = u[i - Len(s)] /\ i \in Nat
             /\ j - Len(s) \in DOMAIN u /\ (s \o u)[j] = u[j - Len(s)] /\ j \in Nat
    <3>1. i - Len(s) = j - Len(s)
      BY <2>2 DEF Once
    <3> QED BY <1>1, <2>2, <3>1
  <2>3. CASE /\ i \in DOMAIN s /\ (s \o u)[i] = s[i]
             /\ j - Len(s) \in DOMAIN u /\ (s \o u)[j] = u[j - Len(s)]
    BY <2>3 DEF Shares
  <2>4. CASE /\ j \in DOMAIN s /\ (s \o u)[j] = s[j]
             /\ i - Len(s) \in DOMAIN u /\ (s \o u)[i] = u[i - Len(s)]
    BY <2>4 DEF Shares
  <2> QED BY <1>3, <2>1, <2>2, <2>3, <2>4
<1>5. ToSet(s \o u) = ToSet(s) \cup ToSet(u)
  <2>1. \A i \in DOMAIN s : i \in DOMAIN (s \o u) /\ (s \o u)[i] = s[i]
    BY <1>1, <1>2
  <2>2. \A i \in DOMAIN u : Len(s) + i \in DOMAIN (s \o u) /\ (s \o u)[Len(s) + i] = u[i]
    BY <1>1, <1>2
  <2>3. \A x : x \in ToSet(s) => x \in ToSet(s \o u)
    BY <2>1 DEF ToSet
  <2>4. \A x : x \in ToSet(u) => x \in ToSet(s \o u)
    BY <2>2 DEF ToSet
  <2>5. ASSUME NEW i \in DOMAIN (s \o u) PROVE (s \o u)[i] \in ToSet(s) \cup ToSet(u)
    BY <1>3 DEF ToSet
  <2>6. \A x : x \in ToSet(s \o u) => \E i \in DOMAIN (s \o u) : x = (s \o u)[i]
    BY DEF ToSet
  <2> QED BY <2>3, <2>4, <2>5, <2>6
<1> QED
  BY <1>1, <1>4, <1>5

\* It goes to the one-by-one path.
LEMMA TurnGivenUp ==
    ASSUME NEW task, TidyQueue(task), task.queue # <<>>,
           NEW t, t.queue = Tail(task.queue), t.items = task.items \o Head(task.queue)
    PROVE  TidyQueue(t) /\ Waiting(t) \subseteq Waiting(task) /\ Queued(t) \subseteq Queued(task)
<1>1. PICK c : c = Head(task.queue)
  OBVIOUS
<1>2. c \in Seq(Row) /\ Once(c) /\ ~Shares(c, task.items) /\ ToSet(c) \subseteq Queued(task)
  BY <1>1, ChunkOfQueue
<1>4. PICK e : e = [queue |-> t.queue, items |-> task.items]
  OBVIOUS
<1>5. e.queue = Tail(task.queue) /\ e.items = task.items
  BY <1>4
<1>6. TidyQueue(e) /\ Queued(e) \subseteq Queued(task) /\ ToSet(c) \cap Waiting(e) = {}
  BY <1>1, <1>5, TurnDone
<1>7. task.items \in Seq(Row) /\ Once(task.items) /\ ~Shares(task.items, c)
  BY <1>2 DEF TidyQueue, Shares
<1>8. t.items \in Seq(Row) /\ Once(t.items) /\ ToSet(t.items) = ToSet(task.items) \cup ToSet(c)
  BY <1>1, <1>2, <1>7, JoinOfOnce
<1>9. \A q \in DOMAIN t.queue : ~Shares(t.queue[q], t.items)
  <2> SUFFICES ASSUME NEW q \in DOMAIN t.queue, Shares(t.queue[q], t.items) PROVE FALSE
    OBVIOUS
  <2>1. PICK i \in DOMAIN t.queue[q] : t.queue[q][i] \in ToSet(t.items)
    BY DEF Shares, ToSet
  <2>2. q \in DOMAIN e.queue /\ e.queue[q] = t.queue[q]
    BY <1>5
  <2>3. CASE t.queue[q][i] \in ToSet(task.items)
    <3>1. Shares(e.queue[q], e.items)
      BY <1>5, <2>1, <2>2, <2>3 DEF Shares, ToSet
    <3> QED BY <1>6, <2>2, <3>1 DEF TidyQueue
  <2>4. CASE t.queue[q][i] \in ToSet(c)
    <3>1. t.queue[q][i] \in ToSet(e.queue[q])
      BY <2>1, <2>2 DEF ToSet
    <3>2. t.queue[q][i] \in Waiting(e)
      BY <2>2, <3>1 DEF Waiting, Queued
    <3> QED BY <1>6, <2>4, <3>2
  <2> QED BY <1>8, <2>1, <2>3, <2>4
<1>10. TidyQueue(t)
  BY <1>5, <1>6, <1>8, <1>9 DEF TidyQueue
<1>11. Queued(t) = Queued(e)
  BY <1>5 DEF Queued
<1> QED
  BY <1>2, <1>6, <1>8, <1>10, <1>11 DEF Waiting

\* It is taken apart.
LEMMA TurnHalved ==
    ASSUME NEW task, TidyQueue(task), task.queue # <<>>,
           NEW t, t.queue = Tail(task.queue \o Halves(Head(task.queue))), t.items = task.items
    PROVE  TidyQueue(t) /\ Waiting(t) \subseteq Waiting(task) /\ Queued(t) \subseteq Queued(task)
<1>1. PICK c : c = Head(task.queue)
  OBVIOUS
<1>2. c \in Seq(Row) /\ Once(c) /\ ToSet(c) \subseteq Queued(task) /\ ~Shares(c, task.items)
  BY <1>1, ChunkOfQueue
<1>3. PICK h : h = Halves(c)
  OBVIOUS
<1>4. /\ h \in Seq(Seq(Row)) /\ Len(h) = 2
      /\ \A x \in 1 .. 2 : \A i \in DOMAIN h[x] : \E p \in DOMAIN c : h[x][i] = c[p]
      /\ \A x \in 1 .. 2 : Once(h[x])
      /\ ~Shares(h[1], h[2])
  BY <1>2, <1>3, HalvesOfOnce
<1>5. PICK s : s = task.queue
  OBVIOUS
<1>6. s \in Seq(Seq(Row)) /\ s # <<>>
  BY <1>5 DEF TidyQueue
<1>7. /\ Tail(s) \in Seq(Seq(Row)) /\ t.queue = Tail(s \o h) /\ Len(s) \in Nat \ {0} /\ Len(Tail(s)) = Len(s) - 1
      /\ \A i \in 1 .. Len(s) - 1 : Tail(s)[i] = s[i + 1]
  BY <1>1, <1>3, <1>5, <1>6, HeadTailProperties
<1>8. /\ s \o h \in Seq(Seq(Row)) /\ Len(s \o h) = Len(s) + 2
      /\ \A i \in 1 .. Len(s) + 2 : (s \o h)[i] = IF i <= Len(s) THEN s[i] ELSE h[i - Len(s)]
  <2>1. \A i \in 1 .. Len(s) + Len(h) : (s \o h)[i] = IF i <= Len(s) THEN s[i] ELSE h[i - Len(s)]
    BY <1>4, <1>6, ConcatProperties
  <2>2. s \o h \in Seq(Seq(Row)) /\ Len(s \o h) = Len(s) + Len(h)
    BY <1>4, <1>6, ConcatProperties
  <2> QED BY <1>4, <2>1, <2>2
<1>9. /\ t.queue \in Seq(Seq(Row)) /\ DOMAIN t.queue = 1 .. Len(s) + 1
      /\ \A i \in 1 .. Len(s) + 1 : t.queue[i] = (s \o h)[i + 1]
  <2>1. s \o h # <<>>
    BY <1>7, <1>8
  <2>2. Tail(s \o h) \in Seq(Seq(Row)) /\ Len(Tail(s \o h)) = Len(s \o h) - 1
        /\ \A i \in 1 .. Len(s \o h) - 1 : Tail(s \o h)[i] = (s \o h)[i + 1]
    BY <1>8, <2>1, HeadTailProperties
  <2>3. Len(s \o h) - 1 = Len(s) + 1 /\ Len(s) + 1 \in Nat
    BY <1>7, <1>8
  <2>4. DOMAIN Tail(s \o h) = 1 .. Len(s) + 1
    BY <2>2, <2>3
  <2> QED BY <1>7, <2>2, <2>3, <2>4
<1>10. \A q \in DOMAIN t.queue :
          \/ q \in Nat /\ q + 1 # 1 /\ q + 1 \in DOMAIN s /\ t.queue[q] = s[q + 1]
          \/ q \in Nat /\ q + 1 - Len(s) \in 1 .. 2 /\ t.queue[q] = h[q + 1 - Len(s)]
  <2>1. DOMAIN s = 1 .. Len(s)
    BY <1>6
  <2>2. \A q \in 1 .. Len(s) + 1 : q + 1 \in 1 .. Len(s) + 2 /\ q \in Nat /\ q + 1 # 1
    BY <1>7
  <2>3. ASSUME NEW q \in 1 .. Len(s) + 1, q + 1 <= Len(s)
        PROVE  q \in Nat /\ q + 1 # 1 /\ q + 1 \in DOMAIN s /\ t.queue[q] = s[q + 1]
    <3>1. q + 1 \in 1 .. Len(s)
      BY <1>7, <2>3
    <3> QED BY <1>8, <1>9, <2>1, <2>2, <2>3, <3>1
  <2>4. ASSUME NEW q \in 1 .. Len(s) + 1, ~(q + 1 <= Len(s))
        PROVE  q \in Nat /\ q + 1 - Len(s) \in 1 .. 2 /\ t.queue[q] = h[q + 1 - Len(s)]
    <3>1. q + 1 - Len(s) \in 1 .. 2
      BY <1>7, <2>4
    <3>2. t.queue[q] = (s \o h)[q + 1] /\ q + 1 \in 1 .. Len(s) + 2
      BY <1>9, <2>2
    <3>3. (s \o h)[q + 1] = h[q + 1 - Len(s)]
      BY <1>8, <2>4, <3>2
    <3> QED BY <2>2, <3>1, <3>2, <3>3
  <2> QED BY <1>9, <2>3, <2>4
<1>11. \A x \in 1 .. 2 : ToSet(h[x]) \subseteq ToSet(c)
  BY <1>4 DEF ToSet
<1>12. \A p, q : Shares(p, q) <=> ToSet(p) \cap ToSet(q) # {}
  BY DEF Shares, ToSet
<1>13. ASSUME NEW q \in DOMAIN s, q # 1 PROVE ToSet(s[q]) \cap ToSet(c) = {}
  <2>1. ~Shares(s[q], s[1]) /\ s[1] = c
    BY <1>1, <1>5, <1>13, ChunkOfQueue DEF TidyQueue
  <2> QED BY <1>12, <2>1
<1>14. ASSUME NEW q \in DOMAIN t.queue PROVE Once(t.queue[q]) /\ ~Shares(t.queue[q], t.items)
  <2>1. CASE q + 1 \in DOMAIN s /\ t.queue[q] = s[q + 1]
    BY <1>5, <2>1 DEF TidyQueue
  <2>2. CASE q + 1 - Len(s) \in 1 .. 2 /\ t.queue[q] = h[q + 1 - Len(s)]
    BY <1>2, <1>4, <1>11, <1>12, <2>2
  <2> QED BY <1>10, <2>1, <2>2
<1>15. ASSUME NEW p \in DOMAIN t.queue, NEW q \in DOMAIN t.queue, p # q PROVE ~Shares(t.queue[p], t.queue[q])
  <2>1. CASE /\ p \in Nat /\ p + 1 \in DOMAIN s /\ t.queue[p] = s[p + 1]
             /\ q \in Nat /\ q + 1 \in DOMAIN s /\ t.queue[q] = s[q + 1]
    <3>1. p + 1 # q + 1
      BY <1>15, <2>1
    <3> QED BY <1>5, <2>1, <3>1 DEF TidyQueue
  <2>2. CASE /\ p + 1 # 1 /\ p + 1 \in DOMAIN s /\ t.queue[p] = s[p + 1]
             /\ q + 1 - Len(s) \in 1 .. 2 /\ t.queue[q] = h[q + 1 - Len(s)]
    BY <1>11, <1>12, <1>13, <2>2
  <2>3. CASE /\ q + 1 # 1 /\ q + 1 \in DOMAIN s /\ t.queue[q] = s[q + 1]
             /\ p + 1 - Len(s) \in 1 .. 2 /\ t.queue[p] = h[p + 1 - Len(s)]
    BY <1>11, <1>12, <1>13, <2>3
  <2>4. CASE /\ p \in Nat /\ p + 1 - Len(s) \in 1 .. 2 /\ t.queue[p] = h[p + 1 - Len(s)]
             /\ q \in Nat /\ q + 1 - Len(s) \in 1 .. 2 /\ t.queue[q] = h[q + 1 - Len(s)]
    <3>1. p + 1 - Len(s) # q + 1 - Len(s)
      BY <1>7, <1>15, <2>4
    <3>2. \A x, y \in 1 .. 2 : x # y => (x = 1 /\ y = 2) \/ (x = 2 /\ y = 1)
      OBVIOUS
    <3>3. ToSet(h[1]) \cap ToSet(h[2]) = {}
      BY <1>4, <1>12
    <3> QED BY <1>12, <2>4, <3>1, <3>2, <3>3
  <2> QED BY <1>10, <2>1, <2>2, <2>3, <2>4
<1>16. TidyQueue(t)
  BY <1>9, <1>14, <1>15 DEF TidyQueue
<1>17. Queued(t) \subseteq Queued(task)
  <2> SUFFICES ASSUME NEW q \in DOMAIN t.queue PROVE ToSet(t.queue[q]) \subseteq Queued(task)
    BY DEF Queued
  <2>1. CASE q + 1 \in DOMAIN s /\ t.queue[q] = s[q + 1]
    BY <1>5, <2>1 DEF Queued
  <2>2. CASE q + 1 - Len(s) \in 1 .. 2 /\ t.queue[q] = h[q + 1 - Len(s)]
    BY <1>2, <1>11, <2>2
  <2> QED BY <1>10, <2>1, <2>2
<1> QED
  BY <1>16, <1>17 DEF Waiting

LEMMA NothingMade == ASSUME PortalShaped PROVE Created(<<>>) = portal
<1>1. portal \in Seq(ToSet(portal)) /\ [i \in DOMAIN <<>> |-> Record(<<>>[i], "batch")] = <<>>
  BY DEF PortalShaped
<1>2. PICK s : s = portal
  OBVIOUS
<1>3. s \in Seq(ToSet(s))
  BY <1>1, <1>2
<1>4. s \o <<>> = s
  BY <1>3
<1> QED
  BY <1>1, <1>2, <1>4 DEF Created

LEMMA SendCreateKeeps == ASSUME CrmInv, NEW k \in DOMAIN tasks, SendCreate(k) PROVE CrmInv' /\ OwnedKept
<1>1. /\ pc = "create" /\ tasks[k].queue # <<>> /\ DataShaped /\ PortalShaped
      /\ UNCHANGED <<rows, children, run, index, known, adopted, updates, pc>>
  BY DEF CrmInv, PartnersTidy, SendCreate, config
<1>2. DOMAIN tasks[k] = TaskFields /\ TidyQueue(tasks[k])
  BY <1>1 DEF CrmInv, PartnersTidy, MakingTidy
<1>3. PICK task : task = tasks[k]
  OBVIOUS
<1>4. PICK chunk : chunk = Head(task.queue)
  OBVIOUS
<1>5. /\ DOMAIN task = TaskFields /\ TidyQueue(task) /\ task.queue # <<>> /\ chunk \in Seq(Row) /\ Once(chunk)
      /\ ToSet(chunk) \subseteq Queued(task) /\ ToSet(chunk) \subseteq Row
  BY <1>1, <1>2, <1>3, <1>4, ChunkOfQueue
\* What becomes of the task.
<1>6. ASSUME NEW t, DOMAIN t = TaskFields, t.queue = Tail(task.queue), t.items = task.items,
             tasks' = [tasks EXCEPT ![k] = t],
             NEW order \in Seq(Row), Once(order), ToSet(order) \subseteq ToSet(chunk), portal' = Created(order)
      PROVE  CrmInv' /\ OwnedKept
  <2>1. /\ TidyQueue(t) /\ Waiting(t) \subseteq Waiting(task) /\ Queued(t) \subseteq Queued(task)
        /\ ToSet(chunk) \cap Waiting(t) = {}
    BY <1>4, <1>5, <1>6, TurnDone
  <2>2. ToSet(order) \subseteq Queued(task) /\ ToSet(order) \cap Waiting(t) = {}
    BY <1>5, <1>6, <2>1
  <2> QED BY <1>1, <1>3, <1>6, <2>1, <2>2, AnswerKeeps
<1>7. /\ <<>> \in Seq(Row) /\ Once(<<>>) /\ ToSet(<<>>) = {}
  BY DEF Once, ToSet
<1>8. ASSUME NEW t, DOMAIN t = TaskFields, tasks' = [tasks EXCEPT ![k] = t], portal' = portal,
             \/ t.queue = Tail(task.queue) /\ t.items = task.items
             \/ t.queue = Tail(task.queue) /\ t.items = task.items \o chunk
             \/ t.queue = Tail(task.queue \o Halves(chunk)) /\ t.items = task.items
      PROVE  CrmInv' /\ OwnedKept
  <2>1. portal' = Created(<<>>)
    BY <1>1, <1>8, NothingMade
  <2>2. CASE t.queue = Tail(task.queue) /\ t.items = task.items
    BY <1>6, <1>7, <1>8, <2>1, <2>2
  <2>3. CASE t.queue = Tail(task.queue) /\ t.items = task.items \o chunk
    <3>1. TidyQueue(t) /\ Waiting(t) \subseteq Waiting(task) /\ Queued(t) \subseteq Queued(task)
      BY <1>4, <1>5, <2>3, TurnGivenUp
    <3> QED BY <1>1, <1>3, <1>7, <1>8, <2>1, <3>1, AnswerKeeps
  <2>4. CASE t.queue = Tail(task.queue \o Halves(chunk)) /\ t.items = task.items
    <3>1. TidyQueue(t) /\ Waiting(t) \subseteq Waiting(task) /\ Queued(t) \subseteq Queued(task)
      BY <1>4, <1>5, <2>4, TurnHalved
    <3> QED BY <1>1, <1>3, <1>7, <1>8, <2>1, <3>1, AnswerKeeps
  <2> QED BY <1>8, <2>2, <2>3, <2>4
\* Answered turns a task that has kept its queue, or put the halves behind it.
<1>9. ASSUME NEW u, DOMAIN u = TaskFields, Answered(k, u)
      PROVE  \E t : /\ tasks' = [tasks EXCEPT ![k] = t] /\ DOMAIN t = TaskFields
                    /\ t.queue = Tail(u.queue) /\ t.items = u.items
  <2>1. PICK t : t = [u EXCEPT !.queue = Tail(@)]
    OBVIOUS
  <2>2. tasks' = [tasks EXCEPT ![k] = t]
    BY <1>9, <2>1 DEF Answered
  <2>3. DOMAIN t = TaskFields /\ t.queue = Tail(u.queue) /\ t.items = u.items
    BY <1>9, <2>1 DEF TaskFields
  <2> QED BY <2>2, <2>3
<1>10. ASSUME NEW u, DOMAIN u = TaskFields, Answered(k, u), portal' = portal,
              \/ u.queue = task.queue /\ u.items = task.items
              \/ u.queue = task.queue /\ u.items = task.items \o chunk
              \/ u.queue = task.queue \o Halves(chunk) /\ u.items = task.items
       PROVE  CrmInv' /\ OwnedKept
  <2>1. PICK t : /\ tasks' = [tasks EXCEPT ![k] = t] /\ DOMAIN t = TaskFields
                 /\ t.queue = Tail(u.queue) /\ t.items = u.items
    BY <1>9, <1>10
  <2>2. \/ t.queue = Tail(task.queue) /\ t.items = task.items
        \/ t.queue = Tail(task.queue) /\ t.items = task.items \o chunk
        \/ t.queue = Tail(task.queue \o Halves(chunk)) /\ t.items = task.items
    BY <1>10, <2>1
  <2> QED BY <1>8, <1>10, <2>1, <2>2
<1>11. ASSUME NEW u, DOMAIN u = TaskFields, Answered(k, u), u.queue = task.queue, u.items = task.items,
              NEW order \in Seq(Row), Once(order), ToSet(order) \subseteq ToSet(chunk), portal' = Created(order)
       PROVE  CrmInv' /\ OwnedKept
  <2>1. PICK t : /\ tasks' = [tasks EXCEPT ![k] = t] /\ DOMAIN t = TaskFields
                 /\ t.queue = Tail(u.queue) /\ t.items = u.items
    BY <1>9, <1>11
  <2> QED BY <1>6, <1>11, <2>1
<1>12. ASSUME NEW failure
       PROVE  LET u == GiveUp(task, chunk, failure)
              IN  /\ DOMAIN u = TaskFields /\ u.queue = task.queue
                  /\ u.items = IF failure = "payload" THEN task.items \o chunk ELSE task.items
  <2>1. "items" \in DOMAIN task /\ "failedRows" \in DOMAIN task
    BY <1>5 DEF TaskFields
  <2> QED BY <1>5, <2>1 DEF GiveUp, OneByOne
\* HubSpot's answers.
<1>13. CASE Answered(k, GiveUp(task, chunk, "payload")) /\ portal' = portal
  BY <1>10, <1>12, <1>13
<1>14. CASE Answered(k, [task EXCEPT !.queue = @ \o Halves(chunk)]) /\ portal' = portal
  <2>1. PICK u : u = [task EXCEPT !.queue = @ \o Halves(chunk)]
    OBVIOUS
  <2>2. DOMAIN u = TaskFields /\ u.queue = task.queue \o Halves(chunk) /\ u.items = task.items
    BY <1>5, <2>1 DEF TaskFields
  <2> QED BY <1>10, <1>14, <2>1, <2>2
<1>15. CASE portal' = portal /\ \E c, f : Answered(k, [task EXCEPT !.conflicts = c, !.failedRows = f])
  <2>1. PICK c, f : Answered(k, [task EXCEPT !.conflicts = c, !.failedRows = f])
    BY <1>15
  <2>2. PICK u : u = [task EXCEPT !.conflicts = c, !.failedRows = f]
    OBVIOUS
  <2>3. DOMAIN u = TaskFields /\ u.queue = task.queue /\ u.items = task.items
    BY <1>5, <2>2 DEF TaskFields
  <2> QED BY <1>10, <1>15, <2>1, <2>2, <2>3
<1>16. CASE \E order \in Seq(Row) : \E c, e :
               /\ Once(order) /\ ToSet(order) \subseteq ToSet(chunk) /\ portal' = Created(order)
               /\ Answered(k, [task EXCEPT !.created = c, !.errors = e])
  <2>1. PICK order \in Seq(Row) : \E c, e :
               /\ Once(order) /\ ToSet(order) \subseteq ToSet(chunk) /\ portal' = Created(order)
               /\ Answered(k, [task EXCEPT !.created = c, !.errors = e])
    BY <1>16
  <2>4. PICK c, e : Answered(k, [task EXCEPT !.created = c, !.errors = e])
    BY <2>1
  <2>2. PICK u : u = [task EXCEPT !.created = c, !.errors = e]
    OBVIOUS
  <2>3. DOMAIN u = TaskFields /\ u.queue = task.queue /\ u.items = task.items
    BY <1>5, <2>2 DEF TaskFields
  <2> QED BY <1>11, <2>1, <2>2, <2>3, <2>4
<1>17. CASE portal' = Created(chunk) /\ Answered(k, GiveUp(task, chunk, "unknown"))
  BY <1>5, <1>11, <1>12, <1>17
<1>18. CASE portal' = portal /\ \E failure \in {"fatal", "unknown"} : Answered(k, GiveUp(task, chunk, failure))
  BY <1>10, <1>12, <1>18
<1>19. ASSUME NEW S, S \subseteq ToSet(chunk), NEW order \in SetToSeqs(S)
       PROVE  order \in Seq(Row) /\ Once(order) /\ ToSet(order) \subseteq ToSet(chunk)
  <2>1. S \subseteq Row
    BY <1>5, <1>19
  <2>2. order \in Seq(S) /\ Once(order)
    BY <1>1, <1>19, <2>1, OrderIsOnce
  <2>3. order \in Seq(Row) /\ ToSet(order) \subseteq S
    BY <2>1, <2>2 DEF ToSet
  <2> QED BY <1>19, <2>2, <2>3
<1>20. task = tasks[k] /\ chunk = Head(tasks[k].queue)
  BY <1>3, <1>4
<1>21. /\ [task EXCEPT !.conflicts = task.conflicts, !.failedRows = task.failedRows + 1] = [task EXCEPT !.failedRows = @ + 1]
       /\ \A c : [task EXCEPT !.conflicts = c, !.failedRows = task.failedRows] = [task EXCEPT !.conflicts = c]
       /\ \A c : [task EXCEPT !.created = c, !.errors = task.errors] = [task EXCEPT !.created = c]
  BY <1>5 DEF TaskFields
<1>22. \/ Answered(k, GiveUp(task, chunk, "payload")) /\ portal' = portal
       \/ Answered(k, [task EXCEPT !.queue = @ \o Halves(chunk)]) /\ portal' = portal
       \/ portal' = portal /\ \E c : Answered(k, [task EXCEPT !.conflicts = c])
       \/ portal' = portal /\ Answered(k, [task EXCEPT !.failedRows = @ + 1])
       \/ \E order \in SetToSeqs(ToSet(chunk)) : \E c :
             portal' = Created(order) /\ Answered(k, [task EXCEPT !.created = c])
       \/ \E some \in SUBSET ToSet(chunk) : \E order \in SetToSeqs(some) : \E c, e :
             portal' = Created(order) /\ Answered(k, [task EXCEPT !.created = c, !.errors = e])
       \/ portal' = portal /\ \E failure \in {"fatal", "unknown"} : Answered(k, GiveUp(task, chunk, failure))
       \/ portal' = Created(chunk) /\ Answered(k, GiveUp(task, chunk, "unknown"))
  BY <1>20, Zenon DEF SendCreate
<1>23. CASE portal' = portal /\ \E c : Answered(k, [task EXCEPT !.conflicts = c])
  <2>1. PICK c : Answered(k, [task EXCEPT !.conflicts = c])
    BY <1>23
  <2>2. Answered(k, [task EXCEPT !.conflicts = c, !.failedRows = task.failedRows])
    BY <1>21, <2>1
  <2> QED BY <1>15, <1>23, <2>2
<1>24. CASE portal' = portal /\ Answered(k, [task EXCEPT !.failedRows = @ + 1])
  <2>1. Answered(k, [task EXCEPT !.conflicts = task.conflicts, !.failedRows = task.failedRows + 1])
    BY <1>21, <1>24
  <2> QED BY <1>15, <1>24, <2>1
<1>25. CASE \E order \in SetToSeqs(ToSet(chunk)) : \E c :
             portal' = Created(order) /\ Answered(k, [task EXCEPT !.created = c])
  <2>1. PICK order \in SetToSeqs(ToSet(chunk)) : \E c : portal' = Created(order) /\ Answered(k, [task EXCEPT !.created = c])
    BY <1>25
  <2>2. \E c : Answered(k, [task EXCEPT !.created = c, !.errors = task.errors])
    BY <1>21, <2>1
  <2> QED BY <1>16, <1>19, <2>1, <2>2
<1>26. CASE \E some \in SUBSET ToSet(chunk) : \E order \in SetToSeqs(some) : \E c, e :
             portal' = Created(order) /\ Answered(k, [task EXCEPT !.created = c, !.errors = e])
  <2>1. PICK some \in SUBSET ToSet(chunk) : \E order \in SetToSeqs(some) : \E c, e :
             portal' = Created(order) /\ Answered(k, [task EXCEPT !.created = c, !.errors = e])
    BY <1>26
  <2>2. PICK order \in SetToSeqs(some) : \E c, e :
             portal' = Created(order) /\ Answered(k, [task EXCEPT !.created = c, !.errors = e])
    BY <2>1
  <2> QED BY <1>16, <1>19, <2>1, <2>2
<1> QED
  BY <1>13, <1>14, <1>17, <1>18, <1>22, <1>23, <1>24, <1>25, <1>26

\* What the one-by-one path does to HubSpot for a row: it writes the row's identity
\* over a record's that has none, or makes a record when it finds none that is the
\* row's and was there before the run.
OneByOneStep(r) ==
    /\ portal' \in Seq(ToSet(portal')) /\ DOMAIN portal \subseteq DOMAIN portal' /\ adopted \subseteq adopted'
    /\ \A i \in DOMAIN portal :
          /\ DOMAIN portal'[i] = Fields /\ portal'[i].code = portal[i].code
          /\ portal'[i].by = portal[i].by /\ portal'[i].run = portal[i].run /\ portal'[i].how = portal[i].how
          /\ \/ portal'[i].idsap = portal[i].idsap
             \/ portal[i].idsap = "" /\ portal[i].code = "" /\ i \in adopted'
    /\ \A i \in DOMAIN portal' \ DOMAIN portal :
          /\ DOMAIN portal'[i] = Fields /\ portal'[i].by = r /\ portal'[i].run = run /\ portal'[i].how = "item"
          /\ portal'[i].idsap = rows[r].idsap
          /\ \A j \in DOMAIN portal' : j # i => j \in DOMAIN portal
          /\ \A j \in DOMAIN portal : portal[j].by # 0 /\ rows[r].idsap # "" /\ rows[portal[j].by].idsap = rows[r].idsap
                 => portal[j].run = run

\* What the one-by-one path finds is the row's, or nobody's.
LEMMA FindIsItsOwn ==
    ASSUME PortalShaped, NEW r \in Row, NEW seen \in SUBSET DOMAIN portal, Find(r, seen) # 0
    PROVE  /\ Find(r, seen) \in DOMAIN portal
           /\ \/ portal[Find(r, seen)].idsap = rows[r].idsap
              \/ portal[Find(r, seen)].idsap = "" /\ portal[Find(r, seen)].code = ""
<1> DEFINE own == SearchHits(r, Tiers[1], seen)
           second == SearchHits(r, Tiers[2], seen)
<1>1. own \subseteq DOMAIN portal /\ second \subseteq DOMAIN portal /\ DOMAIN portal \subseteq Nat
  <2>1. own \subseteq seen /\ second \subseteq seen
    BY DEF SearchHits
  <2>2. DOMAIN portal \subseteq Nat
    <3>1. Len(portal) \in Nat /\ DOMAIN portal = 1 .. Len(portal)
      BY PortalIsListed
    <3> QED BY <3>1
  <2> QED BY <2>1, <2>2
<1>2. \A i \in own : portal[i].idsap = rows[r].idsap
  BY TiersAreNumbered DEF SearchHits, Same
<1>3. \A i \in second : Tiers[2] = Tiers[1] \/ (portal[i].idsap = "" /\ portal[i].code = "")
  BY DEF SearchHits, Ownership
<1>4. Tiers[2] = Tiers[1] => second = own
  OBVIOUS
<1>5. Find(r, seen) = IF own # {} THEN Min(own) ELSE IF second # {} THEN Min(second) ELSE 0
  BY DEF Find
<1> HIDE DEF own, second
<1>6. CASE own # {}
  <2>1. Min(own) \in own
    BY <1>1, <1>6, MinIsLeast
  <2> QED BY <1>1, <1>2, <1>5, <1>6, <2>1
<1>7. CASE own = {} /\ second # {}
  <2>1. Min(second) \in second
    BY <1>1, <1>7, MinIsLeast
  <2> QED BY <1>1, <1>3, <1>4, <1>5, <1>7, <2>1
<1> QED
  BY <1>5, <1>6, <1>7

\* When it finds nothing, no record of the partner was there before the run.
LEMMA FindsWhatThereWas ==
    ASSUME PortalShaped, NEW r \in Row, NEW seen \in Visible, NEW j \in DOMAIN portal
    PROVE  /\ Find(r, seen) = 0
           /\ portal[j].by # 0 /\ rows[r].idsap # "" /\ rows[portal[j].by].idsap = rows[r].idsap
           => portal[j].run = run
<1>0. SUFFICES ASSUME /\ Find(r, seen) = 0
                      /\ portal[j].by # 0 /\ rows[r].idsap # "" /\ rows[portal[j].by].idsap = rows[r].idsap
               PROVE  portal[j].run = run
  OBVIOUS
<1> DEFINE own == SearchHits(r, Tiers[1], seen)
           second == SearchHits(r, Tiers[2], seen)
<1>1. portal[j].idsap = rows[r].idsap /\ portal[j].run \in 1 .. run /\ run \in Nat
  BY <1>0 DEF PortalShaped, MadeForPartner
<1>2. DOMAIN portal \subseteq Nat \ {0}
  <2>1. Len(portal) \in Nat /\ DOMAIN portal = 1 .. Len(portal)
    BY PortalIsListed
  <2> QED BY <2>1
<1>3. own \subseteq DOMAIN portal
  BY DEF SearchHits, Visible
<1>4. Find(r, seen) = IF own # {} THEN Min(own) ELSE IF second # {} THEN Min(second) ELSE 0
  BY DEF Find
<1>5. own = {}
  <2>0. Find(r, seen) = 0
    BY <1>0
  <2> HIDE DEF own, second
  <2>1. own # {} => Min(own) \in own
    BY <1>2, <1>3, MinIsLeast
  <2> QED BY <1>2, <1>3, <1>4, <2>0, <2>1
<1>6. j \notin seen
  BY <1>0, <1>1, <1>5, TiersAreNumbered DEF SearchHits, Same
<1>7. ~(portal[j].run < run)
  BY <1>6 DEF Visible
<1>8. PICK n : n = portal[j].run
  OBVIOUS
<1>9. n = run
  BY <1>1, <1>7, <1>8
<1> QED
  BY <1>8, <1>9

\* One record written over.
LEMMA ListIsListed == ASSUME NEW n \in Nat, NEW u, u = [j \in 1 .. n |-> u[j]] PROVE u \in Seq(ToSet(u))
<1>1. \A j \in 1 .. n : u[j] \in ToSet(u)
  BY DEF ToSet
<1> HIDE DEF ToSet
<1> QED
  BY <1>1

LEMMA ListedStill ==
    ASSUME NEW s, s \in Seq(ToSet(s)), NEW i \in DOMAIN s, NEW x
    PROVE  [s EXCEPT ![i] = x] \in Seq(ToSet([s EXCEPT ![i] = x]))
<1> PICK u : u = [s EXCEPT ![i] = x]
  OBVIOUS
<1>1. Len(s) \in Nat /\ DOMAIN s = 1 .. Len(s)
  OBVIOUS
<1>2. u = [j \in 1 .. Len(s) |-> u[j]]
  BY <1>1
<1>3. u \in Seq(ToSet(u))
  BY <1>1, <1>2, ListIsListed
<1> QED
  BY <1>3

\* What is made for a row.
LEMMA RecordOfRow ==
    ASSUME DataShaped, NEW r \in Row, NEW how, how = "item" \/ known # "no"
    PROVE  LET record == Record(r, how)
           IN  /\ DOMAIN record = Fields /\ record.by = r /\ record.run = run /\ record.how = how
               /\ record.idsap = rows[r].idsap
<1>1. DOMAIN rows[r] = Property /\ "idsap" \in Property
  BY DEF DataShaped, Property, Ownership
<1>2. PICK f : f = rows[r]
  OBVIOUS
<1>3. PICK record : record = Marked(f, [by |-> r, run |-> run, how |-> how])
  OBVIOUS
<1>4. Record(r, how) = record
  BY <1>2, <1>3 DEF Record, Payload
<1>5. /\ DOMAIN record = Fields /\ record.by = r /\ record.run = run /\ record.how = how
      /\ \A name \in Property : record[name] = f[name]
  BY <1>1, <1>2, <1>3, RecordFields
<1> QED
  BY <1>1, <1>2, <1>4, <1>5

\* The one-by-one path does that, whatever its search has seen.
LEMMA ItemIsOneByOne ==
    ASSUME DataShaped, PortalShaped, NEW r \in Row, NEW seen \in Visible, NEW id, id = Find(r, seen)
    PROVE  /\ IF id = 0 THEN CreateItem(r) ELSE UpdateItem(r, id)
           /\ adopted' = IF id # 0 /\ portal[id].idsap = "" THEN adopted \cup {id} ELSE adopted
           => OneByOneStep(r)
<1>0. SUFFICES ASSUME /\ IF id = 0 THEN CreateItem(r) ELSE UpdateItem(r, id)
                      /\ adopted' = IF id # 0 /\ portal[id].idsap = "" THEN adopted \cup {id} ELSE adopted
               PROVE  OneByOneStep(r)
  OBVIOUS
<1>1. /\ portal \in Seq(ToSet(portal)) /\ \A i \in DOMAIN portal : DOMAIN portal[i] = Fields
  BY DEF PortalShaped
<1>2. adopted \subseteq adopted'
  BY <1>0
<1>3. CASE portal' = portal
  BY <1>1, <1>2, <1>3 DEF OneByOneStep
<1>4. CASE id = 0 /\ portal' = Append(portal, Record(r, "item"))
  <2>1. PICK x : x = Record(r, "item")
    OBVIOUS
  <2>2. DOMAIN x = Fields /\ x.by = r /\ x.run = run /\ x.how = "item" /\ x.idsap = rows[r].idsap
    BY <2>1, RecordOfRow
  <2>3. PICK n : n = Len(portal) + 1
    OBVIOUS
  <2>4. /\ portal' \in Seq(ToSet(portal')) /\ DOMAIN portal' = DOMAIN portal \cup {n} /\ n \notin DOMAIN portal
        /\ portal'[n] = x /\ \A i \in DOMAIN portal : portal'[i] = portal[i]
    <3>1. PICK s : s = portal
      OBVIOUS
    <3>2. s \in Seq(ToSet(s)) /\ portal' = Append(s, x) /\ n = Len(s) + 1
      BY <1>1, <1>4, <2>1, <2>3, <3>1
    <3>3. /\ Append(s, x) \in Seq(ToSet(Append(s, x))) /\ DOMAIN Append(s, x) = DOMAIN s \cup {n}
          /\ n \notin DOMAIN s /\ Append(s, x)[n] = x /\ \A i \in DOMAIN s : Append(s, x)[i] = s[i]
      BY <3>2, ListedThen
    <3> QED BY <3>1, <3>2, <3>3
  <2>5. \A j \in DOMAIN portal : portal[j].by # 0 /\ rows[r].idsap # "" /\ rows[portal[j].by].idsap = rows[r].idsap
                 => portal[j].run = run
    BY <1>4, FindsWhatThereWas
  <2> QED BY <1>1, <1>2, <2>2, <2>4, <2>5 DEF OneByOneStep
<1>5. CASE id # 0 /\ portal' = IdentityOnly(r, id)
  <2>1. /\ id \in DOMAIN portal
        /\ portal[id].idsap = rows[r].idsap \/ (portal[id].idsap = "" /\ portal[id].code = "")
    <3>1. seen \in SUBSET DOMAIN portal
      BY DEF Visible
    <3> QED BY <1>5, <3>1, FindIsItsOwn
  <2>2. PICK x : x = [portal[id] EXCEPT !.idsap = rows[r].idsap]
    OBVIOUS
  <2>3. /\ DOMAIN x = Fields /\ x.idsap = rows[r].idsap /\ x.code = portal[id].code
        /\ x.by = portal[id].by /\ x.run = portal[id].run /\ x.how = portal[id].how
  <3>1. {"idsap", "code", "by", "run", "how"} \subseteq Fields
      BY DEF Fields, Property, Ownership
    <3> QED BY <1>1, <2>1, <2>2, <3>1
  <2>4. /\ portal' = [portal EXCEPT ![id] = x] /\ DOMAIN portal' = DOMAIN portal
        /\ \A i \in DOMAIN portal : portal'[i] = IF i = id THEN x ELSE portal[i]
    BY <1>5, <2>2 DEF IdentityOnly
  <2>5. portal' \in Seq(ToSet(portal'))
    <3>1. PICK s : s = portal
      OBVIOUS
    <3>2. s \in Seq(ToSet(s)) /\ id \in DOMAIN s /\ portal' = [s EXCEPT ![id] = x]
      BY <1>1, <2>1, <2>4, <3>1
    <3> QED BY <3>2, ListedStill
  <2>6. portal[id].idsap = "" => id \in adopted'
    BY <1>0, <1>5
  <2> QED BY <1>1, <1>2, <2>1, <2>3, <2>4, <2>5, <2>6 DEF OneByOneStep
<1>6. CASE id = 0
  <2>1. CreateItem(r)
    BY <1>0, <1>6
  <2>2. portal' = portal \/ portal' = Append(portal, Record(r, "item"))
    BY <2>1 DEF CreateItem
  <2> QED BY <1>3, <1>4, <1>6, <2>2
<1>7. CASE id # 0
  <2>1. UpdateItem(r, id)
    BY <1>0, <1>7
  <2>2. portal' = portal \/ portal' = IdentityOnly(r, id)
    BY <2>1 DEF UpdateItem
  <2> QED BY <1>3, <1>5, <1>7, <2>2
<1> QED
  BY <1>6, <1>7

\* What it keeps.
LEMMA OneByOneKeeps ==
    ASSUME DataShaped, PortalShaped, OneRecordPerPartner, run # 0, UNCHANGED <<rows, children, run>>,
           NEW r \in Row, ~MadeNow(r), OneByOneStep(r)
    PROVE  /\ DataShaped' /\ PortalShaped' /\ OneRecordPerPartner' /\ Steady
           /\ \A q \in Row : MadeNow(q)' => MadeNow(q) \/ q = r
<1>1. DataShaped'
  BY DEF DataShaped, Row
<1>2. run \in 1 .. run
  BY DEF PortalShaped
<1>3. ASSUME NEW i \in DOMAIN portal' PROVE DOMAIN portal'[i] = Fields /\ MadeForPartner(portal[i])'
  <2>1. CASE i \in DOMAIN portal
    BY <2>1 DEF PortalShaped, MadeForPartner, OneByOneStep, Row
  <2>2. CASE i \notin DOMAIN portal
    BY <1>2, <2>2 DEF MadeForPartner, OneByOneStep, Row
  <2> QED BY <2>1, <2>2
<1>4. PortalShaped'
  BY <1>3 DEF PortalShaped, OneByOneStep
<1>5. ASSUME NEW i \in DOMAIN portal' \ DOMAIN portal, NEW j \in DOMAIN portal', j # i, portal'[j].by # 0
      PROVE  MayBoth(i, j)'
  <2>1. /\ portal'[i].by = r /\ portal'[i].run = run /\ portal'[i].how = "item" /\ j \in DOMAIN portal
        /\ portal'[j].by = portal[j].by /\ portal'[j].run = portal[j].run /\ portal'[j].how = portal[j].how
    BY <1>5 DEF OneByOneStep
  <2>2. portal[j].by # r \/ portal[j].run # run
    BY <2>1 DEF MadeNow
  <2>3. rows[r].idsap # "" /\ rows[portal[j].by].idsap = rows[r].idsap => portal[j].run = run
    BY <1>5, <2>1 DEF OneByOneStep
  <2> QED BY <2>1, <2>2, <2>3 DEF MayBoth
<1>6. OneRecordPerPartner'
  <2>1. \A i \in DOMAIN portal' : portal'[i].by # 0 =>
               \/ /\ i \in DOMAIN portal /\ portal'[i].by = portal[i].by
                  /\ portal'[i].run = portal[i].run /\ portal'[i].how = portal[i].how
               \/ \A j \in DOMAIN portal' : j # i /\ portal'[j].by # 0 => MayBoth(i, j)'
    BY <1>5 DEF OneByOneStep
  <2> QED BY <2>1, OneRecordGoesOn
<1>7. Steady
  BY DEF Steady, OneByOneStep
<1>8. \A q \in Row : MadeNow(q)' => MadeNow(q) \/ q = r
  BY DEF MadeNow, OneByOneStep
<1> QED
  BY <1>1, <1>4, <1>6, <1>7, <1>8

\* The next of a task's items, and what it has left.
LEMMA ItemTaken ==
    ASSUME NEW items \in Seq(Row), Once(items), items # <<>>
    PROVE  /\ Head(items) \in Row /\ Head(items) \in ToSet(items) /\ Tail(items) \in Seq(Row) /\ Once(Tail(items))
           /\ ToSet(Tail(items)) \subseteq ToSet(items) \ {Head(items)}
<1>1. /\ Tail(items) \in Seq(Row) /\ Len(Tail(items)) = Len(items) - 1 /\ Len(items) \in Nat \ {0}
      /\ \A i \in 1 .. Len(items) - 1 : Tail(items)[i] = items[i + 1]
      /\ Head(items) = items[1] /\ DOMAIN items = 1 .. Len(items)
  BY HeadTailProperties
<1>2. DOMAIN Tail(items) = 1 .. Len(items) - 1
  BY <1>1
<1>3. \A i \in DOMAIN Tail(items) : i \in Nat /\ i + 1 # 1 /\ i + 1 \in DOMAIN items /\ Tail(items)[i] = items[i + 1]
  BY <1>1, <1>2
<1>4. 1 \in DOMAIN items
  BY <1>1
<1>5. Once(Tail(items))
  <2> SUFFICES ASSUME NEW i \in DOMAIN Tail(items), NEW j \in DOMAIN Tail(items), Tail(items)[i] = Tail(items)[j]
               PROVE  i = j
    BY DEF Once
  <2>1. i + 1 = j + 1
    BY <1>3 DEF Once
  <2> QED BY <1>3, <2>1
<1>6. ASSUME NEW i \in DOMAIN Tail(items) PROVE Tail(items)[i] \in ToSet(items) \ {Head(items)}
  <2>1. Tail(items)[i] = items[i + 1] /\ i + 1 \in DOMAIN items /\ i + 1 # 1
    BY <1>3
  <2>2. items[i + 1] # items[1]
    BY <1>4, <2>1 DEF Once
  <2> QED BY <1>1, <2>1, <2>2 DEF ToSet
<1>7. ToSet(Tail(items)) \subseteq ToSet(items) \ {Head(items)}
  BY <1>6 DEF ToSet
<1>8. Head(items) \in Row /\ Head(items) \in ToSet(items)
  BY <1>1, <1>4 DEF ToSet
<1> QED
  BY <1>1, <1>5, <1>7, <1>8

\* While chunks are updated the one-by-one path takes what HubSpot has refused.
LEMMA UpdatingGoesOn ==
    ASSUME UpdatingTidy, pc = "update", UNCHANGED <<rows, pc>>, Steady, NEW k \in DOMAIN tasks,
           NEW t, tasks' = [tasks EXCEPT ![k] = t],
           DOMAIN t = TaskFields, t.queue = <<>>, t.items \in Seq(Row), Once(t.items),
           ToSet(t.items) \subseteq Unwritten(tasks[k]), Unwritten(tasks[k]) \subseteq Row,
           \A r \in Row : MadeNow(r)' => MadeNow(r) \/ r \in Unwritten(tasks[k]) \ ToSet(t.items),
           \A j \in DOMAIN tasks : Unwritten(tasks[j]) \subseteq Row
    PROVE  UpdatingTidy'
<1>1. DOMAIN tasks' = DOMAIN tasks /\ \A j \in DOMAIN tasks : tasks'[j] = IF j = k THEN t ELSE tasks[j]
  OBVIOUS
<1>2. \A j \in DOMAIN tasks : Unwritten(tasks[j])' = IF j = k THEN ToSet(t.items) ELSE Unwritten(tasks[j])
  BY <1>1 DEF Unwritten, UpdatedRows
<1>3. ASSUME NEW j \in DOMAIN tasks PROVE TidyUpdate(tasks[j])'
  <2>1. TidyUpdate(tasks[j])
    BY DEF UpdatingTidy
  <2>2. CASE j = k
    BY <1>1, <2>2 DEF TidyUpdate, Row
  <2>3. CASE j # k
    <3>1. tasks[j].queue # <<>> => Planned(tasks[j].chunk)'
      <4>1. tasks'[j].chunk = tasks[j].chunk
        BY <1>1, <2>3
      <4> QED BY <2>1, <4>1, ChunkStays DEF TidyUpdate
    <3> QED BY <1>1, <2>1, <2>3, <3>1 DEF TidyUpdate, Row
  <2> QED BY <2>2, <2>3
<1>4. ASSUME NEW j \in DOMAIN tasks, NEW r \in Unwritten(tasks[j])' PROVE ~MadeNow(r)'
  <2>1. r \in Row /\ ~MadeNow(r)
    BY <1>2, <1>4 DEF UpdatingTidy
  <2>2. CASE j = k
    BY <1>2, <1>4, <2>1, <2>2
  <2>3. CASE j # k
    BY <1>2, <1>4, <2>1, <2>3 DEF UpdatingTidy
  <2> QED BY <2>2, <2>3
<1>5. ASSUME NEW i \in DOMAIN tasks, NEW j \in DOMAIN tasks, i # j
      PROVE  /\ Unwritten(tasks[i])' \cap Unwritten(tasks[j])' = {}
             /\ tasks'[i].queue # <<>> /\ tasks'[j].queue # <<>> =>
                   UpdatedIds(tasks[i].chunk)' \cap UpdatedIds(tasks[j].chunk)' = {}
  <2>1. /\ Unwritten(tasks[i]) \cap Unwritten(tasks[j]) = {}
        /\ tasks[i].queue # <<>> /\ tasks[j].queue # <<>> =>
              UpdatedIds(tasks[i].chunk) \cap UpdatedIds(tasks[j].chunk) = {}
    BY <1>5 DEF UpdatingTidy
  <2>2. Unwritten(tasks[i])' \cap Unwritten(tasks[j])' = {}
    BY <1>2, <1>5, <2>1
  <2>3. CASE i # k /\ j # k
    <3>1. tasks'[i] = tasks[i] /\ tasks'[j] = tasks[j]
      BY <1>1, <2>3
    <3>2. UpdatedIds(tasks[i].chunk)' = UpdatedIds(tasks[i].chunk) /\ UpdatedIds(tasks[j].chunk)' = UpdatedIds(tasks[j].chunk)
      BY <3>1 DEF UpdatedIds
    <3> QED BY <2>1, <2>2, <3>1, <3>2
  <2>4. CASE i = k \/ j = k
    BY <1>1, <2>2, <2>4
  <2> QED BY <2>3, <2>4
<1> QED
  BY <1>1, <1>3, <1>4, <1>5 DEF UpdatingTidy

LEMMA UnwrittenAreRows == ASSUME NEW t, TidyUpdate(t) PROVE Unwritten(t) \subseteq Row
<1>1. CASE t.queue # <<>>
  <2>1. t.chunk \in Seq(Row \X Nat)
    BY <1>1 DEF TidyUpdate, Planned
  <2>2. \A i \in DOMAIN t.chunk : t.chunk[i] \in Row \X Nat
    BY <2>1
  <2> QED BY <1>1, <2>2 DEF Unwritten, UpdatedRows
<1>2. CASE t.queue = <<>>
  <2>1. t.items \in Seq(Row)
    BY DEF TidyUpdate
  <2> QED BY <1>2, <2>1 DEF Unwritten, ToSet
<1> QED
  BY <1>1, <1>2

LEMMA ItemKeeps == ASSUME CrmInv, NEW k \in DOMAIN tasks, Item(k) PROVE CrmInv' /\ OwnedKept
<1>1. /\ DataShaped /\ PortalShaped /\ OneRecordPerPartner /\ SweptIsThere
      /\ MakingTidy /\ UpdatingTidy /\ UpdatesTidy /\ CreatesTidy
      /\ UNCHANGED <<rows, children, run, pc, index, known, updates>>
      /\ pc \in {"items", "create", "update"} /\ tasks[k].queue = <<>> /\ tasks[k].items # <<>>
      /\ tasks' = [tasks EXCEPT ![k].items = Tail(@)]
  BY DEF CrmInv, PartnersTidy, Item, config
<1>2. PICK items : items = tasks[k].items
  OBVIOUS
<1>3. /\ DOMAIN tasks[k] = TaskFields /\ items \in Seq(Row) /\ Once(items) /\ items # <<>>
      /\ \A r \in ToSet(items) : ~MadeNow(r)
  BY <1>1, <1>2 DEF MakingTidy, UpdatingTidy, TidyQueue, TidyUpdate, Waiting, Unwritten
<1>4. PICK r : r = Head(items)
  OBVIOUS
<1>5. /\ r \in Row /\ ~MadeNow(r) /\ Tail(items) \in Seq(Row) /\ Once(Tail(items))
      /\ ToSet(Tail(items)) \subseteq ToSet(items) \ {r} /\ r \in ToSet(items)
  BY <1>3, <1>4, ItemTaken
<1>6. OneByOneStep(r)
  <2>1. PICK seen \in Visible :
            LET id == Find(r, seen)
            IN  /\ IF id = 0 THEN CreateItem(r) ELSE UpdateItem(r, id)
                /\ adopted' = IF id # 0 /\ portal[id].idsap = "" THEN adopted \cup {id} ELSE adopted
    BY <1>2, <1>4 DEF Item
  <2>2. PICK id : id = Find(r, seen)
    OBVIOUS
  <2> QED BY <1>1, <1>5, <2>1, <2>2, ItemIsOneByOne
<1>7. /\ DataShaped' /\ PortalShaped' /\ OneRecordPerPartner' /\ Steady
      /\ \A q \in Row : MadeNow(q)' => MadeNow(q) \/ q = r
  <2>1. run # 0
    BY <1>1 DEF SweptIsThere
  <2> QED BY <1>1, <1>5, <1>6, <2>1, OneByOneKeeps
<1>8. PICK t : t = [tasks[k] EXCEPT !.items = Tail(items)]
  OBVIOUS
<1>9. tasks' = [tasks EXCEPT ![k] = t] /\ DOMAIN t = TaskFields /\ t.queue = <<>> /\ t.items = Tail(items)
  BY <1>1, <1>2, <1>3, <1>8 DEF TaskFields
<1>10. SweptIsThere'
  BY <1>1 DEF SweptIsThere
<1>11. ASSUME pc \in {"items", "create"} PROVE CrmInv'
  <2>1. TidyQueue(tasks[k])
    BY <1>1, <1>11 DEF MakingTidy
  <2>2. /\ TidyQueue(t) /\ Waiting(t) = ToSet(Tail(items)) /\ Waiting(tasks[k]) = ToSet(items)
        /\ Queued(t) = {} /\ Queued(tasks[k]) = {}
    <3>1. DOMAIN <<>> = {} /\ <<>> \in Seq(Seq(Row))
      OBVIOUS
    <3> QED BY <1>1, <1>2, <1>5, <1>9, <3>1 DEF TidyQueue, Waiting, Queued
  <2>3. \A q \in Row : MadeNow(q)' => MadeNow(q) \/ q \in Waiting(tasks[k]) \ Waiting(t)
    BY <1>5, <1>7, <2>2
  <2>4. MakingTidy'
    BY <1>1, <1>5, <1>9, <1>11, <2>2, <2>3, OneTaskMoves, ZenonT(60)
  <2>5. /\ DOMAIN tasks' = DOMAIN tasks
        /\ \A j \in DOMAIN tasks : Waiting(tasks[j])' \subseteq Waiting(tasks[j]) /\ Queued(tasks[j])' \subseteq Queued(tasks[j])
    <3>1. Waiting(t) \subseteq Waiting(tasks[k]) /\ Queued(t) \subseteq Queued(tasks[k])
      BY <1>5, <2>2
    <3>2. DOMAIN tasks' = DOMAIN tasks /\ \A j \in DOMAIN tasks : tasks'[j] = IF j = k THEN t ELSE tasks[j]
      BY <1>9
    <3>3. \A j \in DOMAIN tasks : Waiting(tasks[j])' = IF j = k THEN Waiting(t) ELSE Waiting(tasks[j])
      BY <3>2 DEF Waiting, Queued
    <3>4. \A j \in DOMAIN tasks : Queued(tasks[j])' = IF j = k THEN Queued(t) ELSE Queued(tasks[j])
      BY <3>2 DEF Queued
    <3> QED BY <3>1, <3>2, <3>3, <3>4
  <2>6. CASE pc = "create"
    <3>1. UpdatesTidy'
      BY <1>1, <1>7, <2>3, <2>5, <2>6, UpdatesGoOn
    <3>2. CreatesTidy'
      <4>1. \A i \in DOMAIN portal' : portal'[i].by # 0 =>
               \/ /\ i \in DOMAIN portal /\ portal'[i].by = portal[i].by
                  /\ portal'[i].run = portal[i].run /\ portal'[i].how = portal[i].how
               \/ portal'[i].run = run /\ portal'[i].how # "batch"
        BY <1>6 DEF OneByOneStep
      <4> QED BY <1>1, <2>5, <2>6, <4>1, CreatesGoOn
    <3> QED BY <1>1, <1>7, <1>10, <2>4, <2>6, <3>1, <3>2 DEF CrmInv, PartnersTidy, UpdatingTidy,
         EmployeesTidy, EntriesShaped, GroupsKept, EntryTasks
  <2>7. CASE pc = "items"
    BY <1>1, <1>7, <1>10, <2>4, <2>7 DEF CrmInv, PartnersTidy, UpdatingTidy, UpdatesTidy, CreatesTidy,
         EmployeesTidy, EntriesShaped, GroupsKept, EntryTasks
  <2> QED BY <1>11, <2>6, <2>7
<1>12. ASSUME pc = "update" PROVE CrmInv'
  <2>1. Unwritten(tasks[k]) = ToSet(items)
    BY <1>1, <1>2 DEF Unwritten
  <2>2. \A j \in DOMAIN tasks : Unwritten(tasks[j]) \subseteq Row
    BY <1>1, <1>12, UnwrittenAreRows DEF UpdatingTidy
  <2>3. /\ ToSet(t.items) \subseteq Unwritten(tasks[k])
        /\ \A q \in Row : MadeNow(q)' => MadeNow(q) \/ q \in Unwritten(tasks[k]) \ ToSet(t.items)
    BY <1>5, <1>7, <1>9, <2>1
  <2>4. t.items \in Seq(Row) /\ Once(t.items)
    BY <1>5, <1>9
  <2>5. UpdatingTidy'
    BY <1>1, <1>7, <1>9, <1>12, <2>2, <2>3, <2>4, UpdatingGoesOn
  <2> QED BY <1>1, <1>7, <1>10, <1>12, <2>5 DEF CrmInv, PartnersTidy, MakingTidy, UpdatesTidy, CreatesTidy,
         EmployeesTidy, EntriesShaped, GroupsKept, EntryTasks
<1>13. OwnedKept
  BY <1>6 DEF OneByOneStep, OwnedKept
<1> QED
  BY <1>1, <1>11, <1>12, <1>13

LEMMA BeginUpdatesKeeps == ASSUME CrmInv, BeginUpdates PROVE CrmInv'
<1>1. /\ DataShaped /\ PortalShaped /\ OneRecordPerPartner /\ SweptIsThere /\ UpdatesTidy
      /\ UNCHANGED <<rows, children, portal, run, index, known, adopted, updates>> /\ pc = "create" /\ pc' = "update"
  BY DEF CrmInv, PartnersTidy, BeginUpdates, config
<1>2. DataShaped' /\ PortalShaped' /\ OneRecordPerPartner'
  BY <1>1, SameRecordsKeep
<1>3. PICK those : those = updates
  OBVIOUS
<1>4. Planned(those) /\ \A r \in UpdatedRows(those) : ~MadeNow(r)
  BY <1>1, <1>3 DEF UpdatesTidy
<1>5. PICK chunks : chunks = ChunkArray(those, ChunkSize)
  OBVIOUS
<1>6. tasks' = [k \in DOMAIN chunks |-> Task(chunks[k])]
  BY <1>3, <1>5 DEF BeginUpdates
<1>7. those \in Seq(Row \X Nat) /\ Once(those)
  BY <1>4 DEF Planned, Once
<1>8. /\ \A k \in DOMAIN chunks :
            /\ chunks[k] \in Seq(Row \X Nat) /\ Once(chunks[k])
            /\ \A i \in DOMAIN chunks[k] : \E p \in DOMAIN those : chunks[k][i] = those[p]
      /\ \A j, k \in DOMAIN chunks : j # k => ~Shares(chunks[j], chunks[k])
  <2>1. /\ \A k \in DOMAIN chunks :
              /\ chunks[k] \in Seq(Row \X Nat) /\ (Once(those) => Once(chunks[k]))
              /\ \A i \in DOMAIN chunks[k] :
                    \E p \in DOMAIN those : chunks[k][i] = those[p] /\ (k - 1) * ChunkSize < p /\ p <= k * ChunkSize
        /\ Once(those) => \A j, k \in DOMAIN chunks : j # k => ~Shares(chunks[j], chunks[k])
    BY <1>5, <1>7, CrmBounds, ChunksOfOnce
  <2> QED BY <1>7, <2>1
<1>9. ASSUME NEW k \in DOMAIN chunks PROVE Planned(chunks[k]) /\ UpdatedRows(chunks[k]) \subseteq UpdatedRows(those)
  <2>1. \A i \in DOMAIN chunks[k] : WritesItsOwn(chunks[k][i][1], chunks[k][i][2])
    BY <1>4, <1>8 DEF Planned
  <2>2. ASSUME NEW i \in DOMAIN chunks[k], NEW j \in DOMAIN chunks[k],
               chunks[k][i][1] = chunks[k][j][1] \/ chunks[k][i][2] = chunks[k][j][2]
        PROVE  i = j
    <3>1. PICK p \in DOMAIN those, q \in DOMAIN those : chunks[k][i] = those[p] /\ chunks[k][j] = those[q]
      BY <1>8
    <3>2. p = q
      BY <1>4, <2>2, <3>1 DEF Planned
    <3> QED BY <1>8, <3>1, <3>2 DEF Once
  <2>3. UpdatedRows(chunks[k]) \subseteq UpdatedRows(those)
    BY <1>8 DEF UpdatedRows
  <2> QED BY <1>8, <2>1, <2>2, <2>3 DEF Planned
<1>10. ASSUME NEW j \in DOMAIN chunks, NEW k \in DOMAIN chunks, j # k,
              NEW a \in DOMAIN chunks[j], NEW b \in DOMAIN chunks[k],
              chunks[j][a][1] = chunks[k][b][1] \/ chunks[j][a][2] = chunks[k][b][2]
       PROVE  FALSE
  <2>1. PICK p \in DOMAIN those, q \in DOMAIN those : chunks[j][a] = those[p] /\ chunks[k][b] = those[q]
    BY <1>8
  <2>2. p = q
    BY <1>4, <1>10, <2>1 DEF Planned
  <2> QED BY <1>8, <1>10, <2>1, <2>2 DEF Shares
<1>11. ASSUME NEW k \in DOMAIN chunks
       PROVE  /\ tasks'[k] = Task(chunks[k]) /\ TidyUpdate(tasks[k])'
              /\ Unwritten(tasks[k])' = UpdatedRows(chunks[k]) /\ UpdatedIds(tasks[k].chunk)' = UpdatedIds(chunks[k])
              /\ \A r \in Unwritten(tasks[k])' : ~MadeNow(r)'
  <2>1. tasks'[k] = Task(chunks[k])
    BY <1>6
  <2>2. DOMAIN tasks'[k] = TaskFields /\ tasks'[k].queue = <<chunks[k]>> /\ tasks'[k].items = <<>> /\ tasks'[k].chunk = chunks[k]
    BY <2>1, TaskHas
  <2>3. <<chunks[k]>> # <<>> /\ <<>> \in Seq(Row') /\ Once(<<>>)
    BY DEF Once
  <2>4. Planned(tasks[k].chunk)'
    <3>1. /\ chunks[k] \in Seq(Row \X Nat)
          /\ \A i, j \in DOMAIN chunks[k] : chunks[k][i][1] = chunks[k][j][1] \/ chunks[k][i][2] = chunks[k][j][2] => i = j
          /\ \A i \in DOMAIN chunks[k] : WritesItsOwn(chunks[k][i][1], chunks[k][i][2])
      BY <1>9 DEF Planned
    <3>2. Row' = Row /\ tasks'[k].chunk = chunks[k]
      BY <1>1, <2>2 DEF Row
    <3>3. ASSUME NEW i \in DOMAIN chunks[k] PROVE WritesItsOwn(tasks[k].chunk[i][1], tasks[k].chunk[i][2])'
      <4>1. WritesItsOwn(chunks[k][i][1], chunks[k][i][2])
        BY <3>1
      <4> QED BY <1>1, <3>2, <4>1 DEF WritesItsOwn, Row
    <3> QED BY <3>1, <3>2, <3>3 DEF Planned
  <2>5. TidyUpdate(tasks[k])'
    BY <2>2, <2>3, <2>4 DEF TidyUpdate
  <2>6. Unwritten(tasks[k])' = UpdatedRows(chunks[k]) /\ UpdatedIds(tasks[k].chunk)' = UpdatedIds(chunks[k])
    BY <2>2, <2>3 DEF Unwritten, UpdatedRows, UpdatedIds
  <2>7. \A r \in UpdatedRows(chunks[k]) : ~MadeNow(r)'
    BY <1>1, <1>4, <1>9 DEF MadeNow
  <2> QED BY <2>1, <2>5, <2>6, <2>7
<1>12. ASSUME NEW j \in DOMAIN chunks, NEW k \in DOMAIN chunks, j # k
       PROVE  /\ Unwritten(tasks[j])' \cap Unwritten(tasks[k])' = {}
              /\ UpdatedIds(tasks[j].chunk)' \cap UpdatedIds(tasks[k].chunk)' = {}
  <2>1. UpdatedRows(chunks[j]) \cap UpdatedRows(chunks[k]) = {}
    BY <1>10, <1>12 DEF UpdatedRows
  <2>2. UpdatedIds(chunks[j]) \cap UpdatedIds(chunks[k]) = {}
    BY <1>10, <1>12 DEF UpdatedIds
  <2> QED BY <1>11, <2>1, <2>2
<1>13. DOMAIN tasks' = DOMAIN chunks
  BY <1>6
<1>14. UpdatingTidy'
  BY <1>11, <1>12, <1>13 DEF UpdatingTidy
<1> QED
  BY <1>1, <1>2, <1>14 DEF CrmInv, PartnersTidy, SweptIsThere, MakingTidy, UpdatesTidy, CreatesTidy,
         EmployeesTidy, EntriesShaped, GroupsKept, EntryTasks

\* What a batch of updates leaves in HubSpot.
LEMMA ChunkIsWritten ==
    ASSUME PortalShaped, NEW chunk, Planned(chunk), NEW done \in SUBSET DOMAIN chunk, portal' = Written(chunk, done)
    PROVE  /\ portal' \in Seq(ToSet(portal')) /\ DOMAIN portal' = DOMAIN portal
           /\ \A i \in DOMAIN portal :
                 /\ DOMAIN portal'[i] = Fields /\ portal'[i].code = portal[i].code
                 /\ portal'[i].by = portal[i].by /\ portal'[i].run = portal[i].run /\ portal'[i].how = portal[i].how
                 /\ \/ portal'[i] = portal[i]
                    \/ \E r \in Row : WritesItsOwn(r, i) /\ portal'[i].idsap = rows[r].idsap /\ i \in UpdatedIds(chunk)
<1>1. /\ Len(portal) \in Nat /\ DOMAIN portal = 1 .. Len(portal)
      /\ \A i \in DOMAIN portal : DOMAIN portal[i] = Fields
  BY PortalIsListed DEF PortalShaped
<1>2. chunk \in Seq(Row \X Nat) /\ \A i \in DOMAIN chunk : WritesItsOwn(chunk[i][1], chunk[i][2])
  BY DEF Planned
<1>3. DOMAIN portal' = DOMAIN portal
  BY DEF Written
<1>4. portal' \in Seq(ToSet(portal'))
  <2>1. PICK u : u = portal'
    OBVIOUS
  <2>2. u = [j \in 1 .. Len(portal) |-> u[j]]
    BY <1>1, <2>1 DEF Written
  <2> QED BY <1>1, <2>1, <2>2, ListIsListed
<1>5. ASSUME NEW i \in DOMAIN portal
      PROVE  \/ portal'[i] = portal[i]
             \/ \E c \in done : chunk[c][2] = i /\ portal'[i] = [portal[i] EXCEPT !.idsap = rows[chunk[c][1]].idsap]
  BY DEF Written
<1>6. {"idsap", "code", "by", "run", "how"} \subseteq Fields
  BY DEF Fields, Property, Ownership
<1>7. ASSUME NEW i \in DOMAIN portal
      PROVE  /\ DOMAIN portal'[i] = Fields /\ portal'[i].code = portal[i].code
             /\ portal'[i].by = portal[i].by /\ portal'[i].run = portal[i].run /\ portal'[i].how = portal[i].how
             /\ \/ portal'[i] = portal[i]
                \/ \E r \in Row : WritesItsOwn(r, i) /\ portal'[i].idsap = rows[r].idsap /\ i \in UpdatedIds(chunk)
  <2>1. CASE portal'[i] = portal[i]
    BY <1>1, <2>1
  <2>2. ASSUME NEW c \in done, chunk[c][2] = i, portal'[i] = [portal[i] EXCEPT !.idsap = rows[chunk[c][1]].idsap]
        PROVE  /\ DOMAIN portal'[i] = Fields /\ portal'[i].code = portal[i].code
               /\ portal'[i].by = portal[i].by /\ portal'[i].run = portal[i].run /\ portal'[i].how = portal[i].how
               /\ \E r \in Row : WritesItsOwn(r, i) /\ portal'[i].idsap = rows[r].idsap /\ i \in UpdatedIds(chunk)
    <3>1. PICK r : r = chunk[c][1]
      OBVIOUS
    <3>2. WritesItsOwn(r, i) /\ i \in UpdatedIds(chunk)
      BY <1>2, <2>2, <3>1 DEF UpdatedIds
    <3>3. r \in Row
      BY <3>2 DEF WritesItsOwn
    <3>4. /\ DOMAIN portal'[i] = Fields /\ portal'[i].code = portal[i].code /\ portal'[i].idsap = rows[r].idsap
          /\ portal'[i].by = portal[i].by /\ portal'[i].run = portal[i].run /\ portal'[i].how = portal[i].how
      BY <1>1, <1>6, <2>2, <3>1
    <3> QED BY <3>2, <3>3, <3>4
  <2> QED BY <1>5, <2>1, <2>2
<1> QED
  BY <1>3, <1>4, <1>7

LEMMA SendUpdateKeeps == ASSUME CrmInv, NEW k \in DOMAIN tasks, SendUpdate(k) PROVE CrmInv' /\ OwnedKept
<1>1. /\ DataShaped /\ PortalShaped /\ OneRecordPerPartner /\ SweptIsThere /\ UpdatingTidy
      /\ UNCHANGED <<rows, children, run, pc, index, known, adopted, updates>> /\ pc = "update" /\ tasks[k].queue # <<>>
  BY DEF CrmInv, PartnersTidy, SendUpdate, config
<1>2. PICK chunk : chunk = tasks[k].chunk
  OBVIOUS
<1>3. DOMAIN tasks[k] = TaskFields /\ Planned(chunk) /\ \A j \in DOMAIN tasks : TidyUpdate(tasks[j])
  BY <1>1, <1>2 DEF UpdatingTidy, TidyUpdate
<1>4. chunk \in Seq(Row \X Nat)
  BY <1>3 DEF Planned
<1>5. PICK items : /\ items \in {<<>>, RowsOf(chunk)} /\ Closed(k, items)
                   /\ portal' = portal \/ \E done \in SUBSET DOMAIN chunk : portal' = Written(chunk, done)
  <2>1. DOMAIN chunk \in SUBSET DOMAIN chunk
    OBVIOUS
  <2>2. \/ Closed(k, RowsOf(chunk)) /\ portal' = portal
        \/ Closed(k, <<>>) /\ \E done \in SUBSET DOMAIN chunk : portal' = Written(chunk, done)
    BY <1>2, <2>1 DEF SendUpdate
  <2> QED BY <2>2
<1>6. items \in Seq(Row) /\ Once(items) /\ ToSet(items) \subseteq UpdatedRows(chunk)
  <2>1. CASE items = <<>>
    BY <2>1 DEF Once, ToSet
  <2>2. CASE items = RowsOf(chunk)
    <3>1. DOMAIN items = DOMAIN chunk /\ \A i \in DOMAIN chunk : items[i] = chunk[i][1] /\ items[i] \in Row
      BY <1>4, <2>2 DEF RowsOf
    <3>2. DOMAIN chunk = 1 .. Len(chunk) /\ Len(chunk) \in Nat
      BY <1>4
    <3>3. items = [i \in 1 .. Len(chunk) |-> items[i]]
      BY <2>2, <3>1, <3>2 DEF RowsOf
    <3>4. items \in Seq(Row)
      BY <3>1, <3>2, <3>3
    <3>5. Once(items)
      BY <1>3, <3>1 DEF Once, Planned
    <3> QED BY <3>1, <3>4, <3>5 DEF ToSet, UpdatedRows
  <2> QED BY <1>5, <2>1, <2>2
<1>7. /\ portal' \in Seq(ToSet(portal')) /\ DOMAIN portal' = DOMAIN portal
      /\ \A i \in DOMAIN portal :
            /\ DOMAIN portal'[i] = Fields /\ portal'[i].code = portal[i].code
            /\ portal'[i].by = portal[i].by /\ portal'[i].run = portal[i].run /\ portal'[i].how = portal[i].how
            /\ \/ portal'[i] = portal[i]
               \/ \E r \in Row : WritesItsOwn(r, i) /\ portal'[i].idsap = rows[r].idsap /\ i \in UpdatedIds(chunk)
  <2>1. CASE portal' = portal
    BY <1>1, <2>1 DEF PortalShaped
  <2>2. ASSUME NEW done \in SUBSET DOMAIN chunk, portal' = Written(chunk, done)
        PROVE  /\ portal' \in Seq(ToSet(portal')) /\ DOMAIN portal' = DOMAIN portal
               /\ \A i \in DOMAIN portal :
                     /\ DOMAIN portal'[i] = Fields /\ portal'[i].code = portal[i].code
                     /\ portal'[i].by = portal[i].by /\ portal'[i].run = portal[i].run /\ portal'[i].how = portal[i].how
                     /\ \/ portal'[i] = portal[i]
                        \/ \E r \in Row : WritesItsOwn(r, i) /\ portal'[i].idsap = rows[r].idsap /\ i \in UpdatedIds(chunk)
    BY <1>1, <1>3, <2>2, ChunkIsWritten
  <2> QED BY <1>5, <2>1, <2>2
<1>8. DataShaped'
  BY <1>1 DEF DataShaped, Row
<1>9. PortalShaped'
  <2>1. ASSUME NEW i \in DOMAIN portal' PROVE MadeForPartner(portal[i])'
    <3>1. MadeForPartner(portal[i])
      BY <1>1, <1>7 DEF PortalShaped
    <3>2. CASE portal'[i] = portal[i]
      BY <1>1, <3>1, <3>2 DEF MadeForPartner, Row
    <3>3. ASSUME NEW r \in Row, WritesItsOwn(r, i), portal'[i].idsap = rows[r].idsap PROVE MadeForPartner(portal[i])'
      BY <1>1, <1>7, <3>1, <3>3 DEF MadeForPartner, WritesItsOwn, Row
    <3> QED BY <1>7, <3>2, <3>3
  <2> QED BY <1>1, <1>7, <2>1 DEF PortalShaped
<1>10. OneRecordPerPartner'
  BY <1>1, <1>7, OneRecordGoesOn
<1>11. \A r \in Row : MadeNow(r)' <=> MadeNow(r)
  BY <1>1, <1>7 DEF MadeNow
<1>12. PICK t : t = [tasks[k] EXCEPT !.queue = <<>>, !.chunk = <<>>, !.items = items]
  OBVIOUS
<1>13. /\ tasks' = [tasks EXCEPT ![k] = t] /\ DOMAIN t = TaskFields /\ t.queue = <<>> /\ t.items = items
  BY <1>3, <1>5, <1>12 DEF Closed, TaskFields
<1>14. DOMAIN tasks' = DOMAIN tasks /\ \A j \in DOMAIN tasks : tasks'[j] = IF j = k THEN t ELSE tasks[j]
  BY <1>13
<1>15. \A j \in DOMAIN tasks : Unwritten(tasks[j])' = IF j = k THEN ToSet(items) ELSE Unwritten(tasks[j])
  BY <1>13, <1>14 DEF Unwritten, UpdatedRows
<1>16. Unwritten(tasks[k]) = UpdatedRows(chunk) /\ \A j \in DOMAIN tasks : Unwritten(tasks[j]) \subseteq Row
  BY <1>1, <1>2, <1>3, UnwrittenAreRows DEF Unwritten
<1>17. ASSUME NEW j \in DOMAIN tasks PROVE TidyUpdate(tasks[j])'
  <2>1. CASE j = k
    BY <1>1, <1>6, <1>13, <1>14, <2>1 DEF TidyUpdate, Row
  <2>2. CASE j # k
    <3>1. tasks'[j] = tasks[j] /\ TidyUpdate(tasks[j])
      BY <1>3, <1>14, <2>2
    <3>2. ASSUME tasks[j].queue # <<>> PROVE Planned(tasks[j].chunk)'
      <4>1. PICK c : c = tasks[j].chunk
        OBVIOUS
      <4>2. Planned(c) /\ tasks'[j].chunk = c
        BY <3>1, <3>2, <4>1 DEF TidyUpdate
      <4>3. /\ c \in Seq(Row \X Nat)
            /\ \A a, b \in DOMAIN c : c[a][1] = c[b][1] \/ c[a][2] = c[b][2] => a = b
            /\ \A a \in DOMAIN c : WritesItsOwn(c[a][1], c[a][2])
        BY <4>2 DEF Planned
      <4>4. UpdatedIds(chunk) \cap UpdatedIds(c) = {}
        BY <1>1, <1>2, <2>2, <3>2, <4>1 DEF UpdatingTidy
      <4>5. ASSUME NEW a \in DOMAIN c PROVE WritesItsOwn(tasks[j].chunk[a][1], tasks[j].chunk[a][2])'
        <5>1. WritesItsOwn(c[a][1], c[a][2]) /\ c[a][2] \notin UpdatedIds(chunk)
          BY <4>3, <4>4 DEF UpdatedIds
        <5>2. c[a][2] \in DOMAIN portal
          BY <5>1 DEF WritesItsOwn
        <5>3. portal'[c[a][2]] = portal[c[a][2]]
          BY <1>7, <5>1, <5>2
        <5> QED BY <1>1, <1>7, <4>2, <5>1, <5>3 DEF WritesItsOwn, Row
      <4>6. Row' = Row
        BY <1>1 DEF Row
      <4> QED BY <4>2, <4>3, <4>5, <4>6 DEF Planned
    <3> QED BY <1>1, <3>1, <3>2 DEF TidyUpdate, Row
  <2> QED BY <2>1, <2>2
<1>18. \A j \in DOMAIN tasks : \A r \in Unwritten(tasks[j])' : ~MadeNow(r)'
  BY <1>1, <1>6, <1>11, <1>15, <1>16 DEF UpdatingTidy
<1>19. ASSUME NEW i \in DOMAIN tasks, NEW j \in DOMAIN tasks, i # j
       PROVE  /\ Unwritten(tasks[i])' \cap Unwritten(tasks[j])' = {}
              /\ tasks'[i].queue # <<>> /\ tasks'[j].queue # <<>> =>
                    UpdatedIds(tasks[i].chunk)' \cap UpdatedIds(tasks[j].chunk)' = {}
  <2>1. /\ Unwritten(tasks[i]) \cap Unwritten(tasks[j]) = {}
        /\ tasks[i].queue # <<>> /\ tasks[j].queue # <<>> =>
              UpdatedIds(tasks[i].chunk) \cap UpdatedIds(tasks[j].chunk) = {}
    BY <1>1, <1>19 DEF UpdatingTidy
  <2>2. Unwritten(tasks[i])' \cap Unwritten(tasks[j])' = {}
    BY <1>6, <1>15, <1>16, <1>19, <2>1
  <2>3. CASE i # k /\ j # k
    <3>1. tasks'[i] = tasks[i] /\ tasks'[j] = tasks[j]
      BY <1>14, <2>3
    <3>2. UpdatedIds(tasks[i].chunk)' = UpdatedIds(tasks[i].chunk) /\ UpdatedIds(tasks[j].chunk)' = UpdatedIds(tasks[j].chunk)
      BY <3>1 DEF UpdatedIds
    <3> QED BY <2>1, <2>2, <3>1, <3>2
  <2>4. CASE i = k \/ j = k
    BY <1>13, <1>14, <2>2, <2>4
  <2> QED BY <2>3, <2>4
<1>20. UpdatingTidy'
  BY <1>14, <1>17, <1>18, <1>19 DEF UpdatingTidy
<1>21. OwnedKept
  <2>1. ASSUME NEW i \in DOMAIN portal \ adopted
        PROVE  /\ portal[i].idsap # "" => portal'[i].idsap = portal[i].idsap
               /\ portal[i].code # "" => portal'[i].code = portal[i].code /\ portal'[i].idsap = portal[i].idsap
    BY <1>7, <2>1 DEF WritesItsOwn
  <2> QED BY <2>1 DEF OwnedKept
<1> QED
  BY <1>1, <1>8, <1>9, <1>10, <1>20, <1>21 DEF CrmInv, PartnersTidy, SweptIsThere, MakingTidy, UpdatesTidy, CreatesTidy,
         EmployeesTidy, EntriesShaped, GroupsKept, EntryTasks
-----------------------------------------------------------------------------
(* ChildContacts: the entries of a run, their groups, and each of its steps. *)

\* What is flattened has the elements of its parts.
LEMMA FlattenIsOfTheSame ==
    ASSUME NEW S, NEW seqs \in Seq(Seq(S))
    PROVE  FlattenSeq(seqs) \in Seq(S)
<1> DEFINE n == Len(seqs)
           Flat(f) == [i \in 1 .. n |-> IF i = 1 THEN seqs[i] ELSE f[i - 1] \o seqs[i]]
           Good(m, f) == /\ \A i \in 1 .. m : f[i] \in Seq(S) /\ f[i] = IF i = 1 THEN seqs[i] ELSE f[i - 1] \o seqs[i]
                         /\ DOMAIN f = 1 .. m /\ f = [i \in 1 .. m |-> f[i]]
           Bad == {m \in 0 .. n : ~\E f : Good(m, f)}
<1>1. n \in Nat /\ \A i \in 1 .. n : seqs[i] \in Seq(S)
  OBVIOUS
<1>2. CASE n = 0
  <2>1. seqs = <<>>
    BY <1>2
  <2> QED BY <1>2, <2>1 DEF FlattenSeq
<1>3. CASE n # 0
  <2>1. Bad = {}
    <3> SUFFICES ASSUME Bad # {} PROVE FALSE
      OBVIOUS
    <3>1. PICK m \in Bad : \A x \in Bad : m <= x
      <4>1. Bad \subseteq Nat
        BY <1>1
      <4> HIDE DEF Bad
      <4> QED BY <4>1, Least
    <3>2. m \in 0 .. n /\ ~\E f : Good(m, f)
      <4> HIDE DEF Good
      <4> QED BY <3>1
    <3>3. m # 0
      <4>1. Good(0, <<>>)
        OBVIOUS
      <4> HIDE DEF Good
      <4> QED BY <3>2, <4>1
    <3>4. m - 1 \in 0 .. n /\ m \in 1 .. n
      BY <1>1, <3>2, <3>3
    <3>5. PICK f : Good(m - 1, f)
      <4>1. m - 1 \notin Bad
        <5>1. ~(m <= m - 1)
          BY <3>4
        <5> HIDE DEF Bad
        <5> QED BY <3>1, <5>1
      <4> HIDE DEF Good
      <4> QED BY <3>4, <4>1
    <3> DEFINE fused(i) == IF i = m THEN (IF m = 1 THEN seqs[m] ELSE f[m - 1] \o seqs[m]) ELSE f[i]
               g == [i \in 1 .. m |-> fused(i)]
    <3>6. DOMAIN g = 1 .. m /\ \A i \in 1 .. m : g[i] = fused(i)
      OBVIOUS
    <3>7. fused(m) \in Seq(S)
      <4>1. CASE m = 1
        BY <1>1, <3>4, <4>1
      <4>2. CASE m # 1
        <5>1. m - 1 \in 1 .. m - 1
          BY <3>4, <4>2
        <5>2. f[m - 1] \in Seq(S) /\ seqs[m] \in Seq(S)
          BY <1>1, <3>4, <3>5, <5>1
        <5> QED BY <4>2, <5>2, ConcatProperties
      <4> QED BY <4>1, <4>2
    <3>8. ASSUME NEW i \in 1 .. m PROVE g[i] \in Seq(S) /\ g[i] = IF i = 1 THEN seqs[i] ELSE g[i - 1] \o seqs[i]
      <4>1. CASE i = m
        <5>1. i # 1 => i - 1 \in 1 .. m /\ i - 1 # m
          BY <3>4, <4>1
        <5>2. i # 1 => g[i - 1] = f[m - 1]
          BY <3>6, <4>1, <5>1
        <5> HIDE DEF g
        <5> QED BY <3>6, <3>7, <4>1, <5>2
      <4>2. CASE i # m
        <5>1. i \in 1 .. m - 1 /\ (i # 1 => i - 1 \in 1 .. m /\ i - 1 # m)
          BY <3>4, <4>2
        <5>2. f[i] \in Seq(S) /\ f[i] = IF i = 1 THEN seqs[i] ELSE f[i - 1] \o seqs[i]
          BY <3>5, <5>1
        <5>3. i # 1 => g[i - 1] = f[i - 1]
          BY <3>6, <5>1
        <5> HIDE DEF g
        <5> QED BY <3>6, <4>2, <5>2, <5>3
      <4> QED BY <4>1, <4>2
    <3>9. g = [i \in 1 .. m |-> g[i]]
      OBVIOUS
    <3> HIDE DEF g
    <3>10. Good(m, g)
      BY <3>6, <3>8, <3>9
    <3> HIDE DEF Good
    <3> QED BY <3>2, <3>10
  <2>2. PICK f : Good(n, f)
    <3>1. n \in 0 .. n /\ n \notin Bad
      <4> HIDE DEF Bad
      <4> QED BY <1>1, <2>1
    <3> HIDE DEF Good
    <3> QED BY <3>1
  <2>3. f = Flat(f)
    BY <2>2
  <2> DEFINE flatten == CHOOSE g : g = Flat(g)
  <2>4. flatten = Flat(flatten)
    <3> HIDE DEF Flat
    <3> QED BY <2>3
  <2>5. FlattenSeq(seqs) = flatten[n]
    <3> HIDE DEF n
    <3>1. FlattenSeq(seqs) = IF Len(seqs) = 0 THEN seqs ELSE flatten[Len(seqs)]
      BY DEF FlattenSeq, n
    <3> QED BY <1>3, <3>1 DEF n
  <2> PICK g : g = flatten
    OBVIOUS
  <2>6. \A i \in 1 .. n : g[i] = IF i = 1 THEN seqs[i] ELSE g[i - 1] \o seqs[i]
    <3>1. g = Flat(g)
      <4> HIDE DEF flatten, Flat
      <4> QED BY <2>4
    <3> HIDE DEF flatten
    <3> QED BY <3>1
  <2> HIDE DEF flatten, Flat, Good
  <2>7. \A i \in 1 .. n : g[i] \in Seq(S)
    <3> DEFINE Wrong == {i \in 1 .. n : g[i] \notin Seq(S)}
    <3> SUFFICES ASSUME Wrong # {} PROVE FALSE
      OBVIOUS
    <3>1. PICK i \in Wrong : \A x \in Wrong : i <= x
      <4>1. Wrong \subseteq Nat
        BY <1>1
      <4> HIDE DEF Wrong
      <4> QED BY <4>1, Least
    <3>2. i \in 1 .. n /\ g[i] \notin Seq(S)
      BY <3>1
    <3>3. CASE i = 1
      BY <1>1, <2>6, <3>2, <3>3
    <3>4. CASE i # 1
      <4>1. i - 1 \in 1 .. n /\ ~(i <= i - 1)
        BY <1>1, <3>2, <3>4
      <4>2. g[i - 1] \in Seq(S)
        BY <3>1, <4>1
      <4>3. g[i] = g[i - 1] \o seqs[i] /\ seqs[i] \in Seq(S)
        BY <1>1, <2>6, <3>2, <3>4
      <4> QED BY <3>2, <4>2, <4>3, ConcatProperties
    <3> QED BY <3>3, <3>4
  <2>8. n \in 1 .. n
    BY <1>1, <1>3
  <2> HIDE DEF n
  <2> QED BY <2>5, <2>7, <2>8
<1> QED
  BY <1>2, <1>3

\* GroupPlan gives every entry the group GroupOf says.
LEMMA GroupsAreAsSaid ==
    ASSUME NEW n \in Nat, DOMAIN entries = 1 .. n
    PROVE  DOMAIN GroupPlan = 1 .. n /\ \A e \in 1 .. n : GroupPlan[e] = GroupOf(GroupPlan, e)
<1> DEFINE Good(m, f) == \A e \in 1 .. m : f[e] = GroupOf(f, e)
           Bad == {m \in 0 .. n : ~\E f : Good(m, f)}
<1>1. ASSUME NEW e \in 1 .. n, NEW f, NEW g, Keepers(e) # {} => f[Min(Keepers(e))] = g[Min(Keepers(e))]
      PROVE  GroupOf(f, e) = GroupOf(g, e)
  <2>1. PICK a, b : a = f[Min(Keepers(e))] /\ b = g[Min(Keepers(e))]
    OBVIOUS
  <2>2. Keepers(e) # {} => a = b
    BY <1>1, <2>1
  <2>3. (IF Keepers(e) = {} THEN Child!OwnKey(Props(e)) ELSE f[Min(Keepers(e))])
        = (IF Keepers(e) = {} THEN Child!OwnKey(Props(e)) ELSE g[Min(Keepers(e))])
    BY <2>1, <2>2
  <2> QED BY <2>3 DEF GroupOf
<1>2. ASSUME NEW e \in 1 .. n, Keepers(e) # {} PROVE Min(Keepers(e)) \in 1 .. n /\ Min(Keepers(e)) < e
  <2>1. Keepers(e) \subseteq Nat /\ \A q \in Keepers(e) : q \in 1 .. n /\ q < e
    BY DEF Keepers
  <2> QED BY <1>2, <2>1, MinIsLeast
<1>3. Bad = {}
  <2> SUFFICES ASSUME Bad # {} PROVE FALSE
    OBVIOUS
  <2>1. PICK m \in Bad : \A x \in Bad : m <= x
    <3>1. Bad \subseteq Nat
      OBVIOUS
    <3> HIDE DEF Bad
    <3> QED BY <3>1, Least
  <2>2. m \in 0 .. n /\ ~\E f : Good(m, f)
    <3> HIDE DEF Good
    <3> QED BY <2>1
  <2>3. m # 0
    <3>1. Good(0, <<>>)
      OBVIOUS
    <3> HIDE DEF Good
    <3> QED BY <2>2, <3>1
  <2>4. m - 1 \in 0 .. n /\ m \in 1 .. n
    BY <2>2, <2>3
  <2>5. PICK f : Good(m - 1, f)
    <3>1. m - 1 \notin Bad
      <4>1. ~(m <= m - 1)
        BY <2>4
      <4> HIDE DEF Bad
      <4> QED BY <2>1, <4>1
    <3> HIDE DEF Good
    <3> QED BY <2>4, <3>1
  <2>6. PICK top : top = GroupOf(f, m)
    OBVIOUS
  <2>7. PICK g : g = [e \in 1 .. m |-> IF e = m THEN top ELSE f[e]]
    OBVIOUS
  <2>8. \A e \in 1 .. m : g[e] = IF e = m THEN top ELSE f[e]
    BY <2>7
  <2>9. ASSUME NEW e \in 1 .. m PROVE GroupOf(g, e) = GroupOf(f, e)
    <3>1. e \in 1 .. n
      BY <2>4
    <3>2. ASSUME Keepers(e) # {} PROVE f[Min(Keepers(e))] = g[Min(Keepers(e))]
      <4>1. PICK q : q = Min(Keepers(e))
        OBVIOUS
      <4>2. q \in 1 .. n /\ q < e
        BY <1>2, <3>1, <3>2, <4>1
      <4>3. q \in 1 .. m /\ q # m
        BY <2>4, <4>2
      <4> QED BY <2>8, <4>1, <4>3
    <3> QED BY <1>1, <3>1, <3>2
  <2>10. ASSUME NEW e \in 1 .. m PROVE g[e] = GroupOf(g, e)
    <3>1. CASE e = m
      BY <2>6, <2>8, <2>9, <3>1
    <3>2. CASE e # m
      <4>1. e \in 1 .. m - 1
        BY <2>4, <3>2
      <4>2. f[e] = GroupOf(f, e)
        BY <2>5, <4>1
      <4> QED BY <2>8, <2>9, <3>2, <4>2
    <3> QED BY <3>1, <3>2
  <2>11. Good(m, g)
    BY <2>10
  <2> HIDE DEF Good
  <2> QED BY <2>2, <2>11
<1>4. PICK f : Good(n, f)
  <2>1. n \in 0 .. n /\ n \notin Bad
    <3> HIDE DEF Bad
    <3> QED BY <1>3
  <2> HIDE DEF Good
  <2> QED BY <2>1
<1>5. PICK g : g = [e \in 1 .. n |-> f[e]]
  OBVIOUS
<1>6. ASSUME NEW e \in 1 .. n PROVE g[e] = GroupOf(g, e)
  <2>1. ASSUME Keepers(e) # {} PROVE f[Min(Keepers(e))] = g[Min(Keepers(e))]
    <3>1. PICK q : q = Min(Keepers(e))
      OBVIOUS
    <3>2. q \in 1 .. n
      BY <1>2, <2>1, <3>1
    <3> QED BY <1>5, <3>1, <3>2
  <2>2. GroupOf(f, e) = GroupOf(g, e)
    BY <1>1, <2>1
  <2> QED BY <1>4, <1>5, <2>2
<1> DEFINE Grouped(h) == [e \in 1 .. n |-> GroupOf(h, e)]
           plan == CHOOSE h : h = Grouped(h)
<1>7. g = Grouped(g)
  BY <1>5, <1>6
<1>8. plan = Grouped(plan)
  <2> HIDE DEF Grouped
  <2> QED BY <1>7
<1>9. GroupPlan = plan
  BY DEF GroupPlan
<1> HIDE DEF plan
<1>10. PICK h : h = plan
  OBVIOUS
<1>11. DOMAIN h = 1 .. n /\ \A e \in 1 .. n : h[e] = GroupOf(h, e)
  BY <1>8, <1>10
<1> QED
  BY <1>9, <1>10, <1>11

\* A group that is a record's is decided by the entry that is written for it: what
\* it finds in the sweep is its own, and no other entry is written to it.
LEMMA DecidersFindTheirOwn ==
    ASSUME NEW n \in Nat, DOMAIN entries = 1 .. n, NEW gs, \A e \in 1 .. n : gs[e] = GroupOf(gs, e),
           NEW e \in 1 .. n, First(gs, e), gs[e][1] = "record"
    PROVE  ChildHit(e).id # 0 /\ gs[e] = <<"record", ChildHit(e).id>>
<1>1. gs[e] = GroupOf(gs, e)
  OBVIOUS
<1>2. CASE ChildHit(e).id # 0
  BY <1>1, <1>2 DEF GroupOf
<1>3. CASE ChildHit(e).id = 0 /\ Child!KeyTiers(Props(e)) = {}
  BY <1>1, <1>3 DEF GroupOf
<1>4. CASE ChildHit(e).id = 0 /\ Child!KeyTiers(Props(e)) # {}
  <2>1. gs[e] = IF Keepers(e) = {} THEN Child!OwnKey(Props(e)) ELSE gs[Min(Keepers(e))]
    BY <1>1, <1>4 DEF GroupOf
  <2>2. CASE Keepers(e) = {}
    <3>1. PICK t : t = Child!Min(Child!KeyTiers(Props(e)))
      OBVIOUS
    <3>2. Child!KeyTiers(Props(e)) \subseteq Nat
      <4>1. DOMAIN ChildTiers \subseteq Nat
        BY EmployeeTiers
      <4> QED BY <4>1 DEF Child!KeyTiers
    <3>3. t \in DOMAIN ChildTiers
      BY <1>4, <3>1, <3>2, ChildMinIsLeast DEF Child!KeyTiers
    <3>4. ChildTiers[t] \in Property
      BY <3>3, EmployeeTiers
    <3>5. gs[e] = <<ChildTiers[t], Props(e)[ChildTiers[t]]>>
      BY <2>1, <2>2, <3>1 DEF Child!OwnKey, Child!KeyOf
    <3>6. gs[e][1] = ChildTiers[t]
      BY <3>5
    <3> QED BY <3>4, <3>6 DEF Property, Ownership
  <2>3. CASE Keepers(e) # {}
    <3>1. PICK q : q = Min(Keepers(e))
      OBVIOUS
    <3>2. Keepers(e) \subseteq Nat /\ \A x \in Keepers(e) : x \in 1 .. n /\ x < e
      BY DEF Keepers
    <3>3. q \in 1 .. n /\ q < e
      BY <2>3, <3>1, <3>2, MinIsLeast
    <3>4. q \in 1 .. e - 1
      BY <3>3
    <3>5. gs[q] = gs[e]
      BY <2>1, <2>3, <3>1
    <3> QED BY <3>4, <3>5 DEF First
  <2> QED BY <2>2, <2>3
<1> QED
  BY <1>2, <1>3, <1>4

\* The phases in which a run is with the contact employees.
ChildPhase == {"children", "childplan", "childcreate", "childupdate"}

\* What a step with the contact employees keeps of the partners.
LEMMA PartnersStay ==
    ASSUME CrmInv, pc \in ChildPhase, pc' \in ChildPhase \cup {"idle"}, Grows, NobodysAdded,
           UNCHANGED <<rows, children, run>>, pc' = "childplan" => index' = portal'
    PROVE  PartnersTidy'
<1>1. /\ DataShaped /\ PortalShaped /\ OneRecordPerPartner /\ SweptIsThere
      /\ pc \notin {"idle"} /\ pc' \in {"children", "childplan", "childcreate", "childupdate", "idle"}
  BY DEF CrmInv, PartnersTidy, ChildPhase
<1>2. DataShaped' /\ PortalShaped' /\ OneRecordPerPartner'
  BY <1>1, NobodysKeep
<1> QED
  BY <1>1, <1>2 DEF PartnersTidy, SweptIsThere, MakingTidy, UpdatingTidy, UpdatesTidy, CreatesTidy

LEMMA SamePortalGrows == ASSUME PortalShaped, portal' = portal PROVE Grows /\ NobodysAdded
BY DEF PortalShaped, Grows, NobodysAdded

\* The entries of a run have the properties of the employees they are.
LEMMA EntriesAreEmployees ==
    ASSUME DataShaped
    PROVE  LET new == FlattenSeq([i \in DOMAIN Placed |-> EntriesOf(Placed[i])])
           IN  new \in Seq(ToSet(new)) /\ \A e \in DOMAIN new : DOMAIN new[e].row = Property
<1> DEFINE S == {entry \in [parent : {processed[r] : r \in Row}, row : UNION {ToSet(children[r]) : r \in Row}] :
                     DOMAIN entry.row = Property}
           lists == [i \in DOMAIN Placed |-> EntriesOf(Placed[i])]
<1>1. Placed \in Seq(Row)
  <2>1. Len(rows) \in Nat /\ Row = 1 .. Len(rows)
    BY RowsAreNumbered
  <2>2. PICK P : P = Row \cap DOMAIN processed
    OBVIOUS
  <2>3. P \subseteq 1 .. Len(rows)
    BY <2>1, <2>2
  <2>4. Ordered(P) \in Seq(P)
    BY <2>1, <2>3, OrderedIsOfSet
  <2>5. Ordered(P) \in Seq(Row)
    BY <2>2, <2>4
  <2> QED BY <2>2, <2>5 DEF Placed
<1>2. ASSUME NEW r \in Row PROVE EntriesOf(r) \in Seq(S)
  <2>1. PICK s : s = children[r]
    OBVIOUS
  <2>2. s \in Seq(ToSet(s)) /\ \A j \in DOMAIN s : DOMAIN s[j] = Property
    BY <2>1 DEF DataShaped
  <2>3. Len(s) \in Nat /\ DOMAIN s = 1 .. Len(s)
    BY <2>2
  <2>4. PICK P : P = {j \in DOMAIN s : bypass \/ s[j].email # ""}
    OBVIOUS
  <2>5. PICK kept : kept = Ordered(P)
    OBVIOUS
  <2>6. kept \in Seq(P)
    <3>1. P \subseteq 1 .. Len(s)
      BY <2>3, <2>4
    <3> QED BY <2>3, <2>5, <3>1, OrderedIsOfSet
  <2>7. DOMAIN kept = 1 .. Len(kept) /\ Len(kept) \in Nat /\ \A i \in DOMAIN kept : kept[i] \in DOMAIN s
    <3>1. DOMAIN kept = 1 .. Len(kept) /\ Len(kept) \in Nat /\ \A i \in DOMAIN kept : kept[i] \in P
      BY <2>6
    <3> QED BY <2>4, <3>1
  <2>8. EntriesOf(r) = [i \in DOMAIN kept |-> [parent |-> processed[r], row |-> s[kept[i]]]]
    BY <2>1, <2>4, <2>5 DEF EntriesOf
  <2>9. ASSUME NEW i \in DOMAIN kept PROVE [parent |-> processed[r], row |-> s[kept[i]]] \in S
    <3>1. s[kept[i]] \in ToSet(s) /\ DOMAIN s[kept[i]] = Property
      BY <2>2, <2>7 DEF ToSet
    <3>2. s[kept[i]] \in UNION {ToSet(children[q]) : q \in Row}
      BY <2>1, <3>1
    <3> QED BY <3>1, <3>2
  <2> HIDE DEF S
  <2> QED BY <2>7, <2>8, <2>9
<1> HIDE DEF S
<1>3. lists \in Seq(Seq(S))
  <2>1. DOMAIN Placed = 1 .. Len(Placed) /\ Len(Placed) \in Nat /\ \A i \in DOMAIN Placed : Placed[i] \in Row
    BY <1>1
  <2>2. \A i \in 1 .. Len(Placed) : EntriesOf(Placed[i]) \in Seq(S)
    BY <1>2, <2>1
  <2> QED BY <2>1, <2>2
<1>4. PICK new : new = FlattenSeq(lists)
  OBVIOUS
<1>5. new \in Seq(S)
  BY <1>3, <1>4, FlattenIsOfTheSame
<1>6. \A e \in DOMAIN new : new[e] \in S
  BY <1>5
<1>7. new \in Seq(ToSet(new)) /\ \A e \in DOMAIN new : DOMAIN new[e].row = Property
  BY <1>5, <1>6, Listed DEF S
<1> QED
  BY <1>4, <1>7

LEMMA BeginChildrenKeeps == ASSUME CrmInv, BeginChildren PROVE CrmInv'
<1>1. /\ DataShaped /\ PortalShaped /\ pc = "children" /\ UNCHANGED <<rows, children, run, portal>>
      /\ pc' = "idle" \/ (pc' = "childplan" /\ index' = portal)
      /\ entries' = FlattenSeq([i \in DOMAIN Placed |-> EntriesOf(Placed[i])])
  BY DEF CrmInv, PartnersTidy, BeginChildren, BpUnchanged, config, Abort
<1>2. PartnersTidy'
  BY <1>1, SamePortalGrows, PartnersStay DEF ChildPhase
<1>3. PICK new : new = FlattenSeq([i \in DOMAIN Placed |-> EntriesOf(Placed[i])])
  OBVIOUS
<1>4. new \in Seq(ToSet(new)) /\ \A e \in DOMAIN new : DOMAIN new[e].row = Property
  BY <1>1, <1>3, EntriesAreEmployees
<1>5. EntriesShaped'
  BY <1>1, <1>3, <1>4 DEF EntriesShaped, Props
<1> QED
  BY <1>1, <1>2, <1>5 DEF CrmInv, EmployeesTidy, GroupsKept, EntryTasks

LEMMA EntriesAreNumbered ==
    ASSUME EntriesShaped, pc \in {"childplan", "childcreate", "childupdate"}
    PROVE  Len(entries) \in Nat /\ DOMAIN entries = 1 .. Len(entries) /\ \A e \in DOMAIN entries : DOMAIN Props(e) = Property
<1>1. \A s : s \in Seq(ToSet(s)) => Len(s) \in Nat /\ DOMAIN s = 1 .. Len(s)
  OBVIOUS
<1> QED BY <1>1 DEF EntriesShaped

\* The parts of a list of entries.
LEMMA ChunksOfEntries ==
    ASSUME NEW n \in Nat, NEW S, S \subseteq 1 .. n
    PROVE  LET chunks == ChunkArray(Ordered(S), ChunkSize)
           IN  \A k \in DOMAIN chunks : chunks[k] \in Seq(S)
<1>1. PICK s : s = Ordered(S)
  OBVIOUS
<1>2. s \in Seq(S)
  BY <1>1, OrderedIsOfSet
<1> QED
  BY <1>1, <1>2, CrmBounds, ChunksOfOnce

LEMMA PlanChildrenKeeps == ASSUME CrmInv, PlanChildren PROVE CrmInv'
<1>1. /\ DataShaped /\ PortalShaped /\ SweptIsThere /\ EntriesShaped
      /\ pc = "childplan" /\ pc' = "childcreate" /\ UNCHANGED <<rows, children, run, portal, entries, index>>
      /\ groups' = GroupPlan
  BY DEF CrmInv, PartnersTidy, EmployeesTidy, PlanChildren, BpUnchanged, config
<1>2. PartnersTidy'
  BY <1>1, SamePortalGrows, PartnersStay DEF ChildPhase
<1>3. PICK n \in Nat : n = Len(entries) /\ DOMAIN entries = 1 .. n /\ \A e \in 1 .. n : DOMAIN Props(e) = Property
  BY <1>1, EntriesAreNumbered
<1>4. EntriesShaped'
  BY <1>1 DEF EntriesShaped, Props
<1>5. PICK gs : gs = GroupPlan
  OBVIOUS
<1>6. \A e \in 1 .. n : gs[e] = GroupOf(gs, e)
  BY <1>3, <1>5, GroupsAreAsSaid
<1>7. DOMAIN index \subseteq Nat /\ index = portal
  <2>1. index = portal
    BY <1>1 DEF SweptIsThere
  <2>2. Len(portal) \in Nat /\ DOMAIN portal = 1 .. Len(portal)
    BY <1>1, PortalIsListed
  <2>3. DOMAIN portal \subseteq Nat
    BY <2>2
  <2> QED BY <2>1, <2>3
<1>8. ASSUME NEW e \in 1 .. n, First(gs, e), gs[e][1] = "record"
      PROVE  /\ gs[e] = <<"record", gs[e][2]>> /\ gs[e][2] \in DOMAIN portal
             /\ portal[gs[e][2]].code \in {"", Props(e).code}
  <2>1. PICK id : id = ChildHit(e).id
    OBVIOUS
  <2>2. id # 0 /\ gs[e] = <<"record", id>>
    BY <1>3, <1>6, <1>8, <2>1, DecidersFindTheirOwn
  <2>3. PICK row : row = Props(e)
    OBVIOUS
  <2>4. Child!Match(index, row).id = id /\ id # 0
    BY <2>1, <2>2, <2>3 DEF ChildHit
  <2>5. /\ id \in DOMAIN index
        /\ \/ row["code"] # "" /\ index[id]["code"] = row["code"]
           \/ ~Child!BelongsToAnother(index[id], row)
    BY <1>7, <2>4, ChildMatchIsFree
  <2>6. index[id].code \in {"", row.code}
    BY <2>5 DEF Child!BelongsToAnother, Child!Ownership
  <2>7. gs[e][2] = id
    BY <2>2
  <2>8. id \in DOMAIN portal /\ portal[id].code \in {"", row.code}
    BY <1>7, <2>5, <2>6
  <2> QED BY <2>2, <2>3, <2>7, <2>8
<1>9. GroupsKept'
  <2>1. groups' = gs /\ DOMAIN entries' = 1 .. n /\ portal' = portal /\ \A e \in 1 .. n : Props(e)' = Props(e)
    BY <1>1, <1>3, <1>5 DEF Props
  <2>2. \A e \in 1 .. n : Deciding(e)' <=> First(gs, e) /\ gs[e][1] = "record"
    BY <2>1 DEF Deciding, First
  <2>3. ASSUME NEW e \in 1 .. n, NEW f \in 1 .. n, First(gs, e), gs[e][1] = "record",
               First(gs, f), gs[f][1] = "record", gs[f][2] = gs[e][2]
        PROVE  f = e
    <3>1. gs[f] = gs[e]
      BY <1>8, <2>3
    <3>2. e < f => e \in 1 .. f - 1
      OBVIOUS
    <3>3. f < e => f \in 1 .. e - 1
      OBVIOUS
    <3>4. ~(e < f) /\ ~(f < e)
      BY <2>3, <3>1, <3>2, <3>3 DEF First
    <3>5. \A a, b \in Nat : ~(a < b) /\ ~(b < a) => a = b
      OBVIOUS
    <3> QED BY <3>4, <3>5
  <2> QED BY <1>8, <2>1, <2>2, <2>3 DEF GroupsKept
<1>10. EntryTasks'
  <2>1. PICK S : S = {e \in {f \in DOMAIN entries : First(gs, f)} : gs[e][1] # "record"}
    OBVIOUS
  <2>2. PICK chunks : chunks = ChunkArray(Ordered(S), ChunkSize)
    OBVIOUS
  <2>3. tasks' = [i \in DOMAIN chunks |-> Task(chunks[i])]
    <3>1. S = {e \in {f \in DOMAIN entries : First(groups', f)} : groups'[e][1] # "record"}
      BY <1>1, <1>5, <2>1
    <3> QED BY <2>2, <3>1 DEF PlanChildren
  <2>4. S \subseteq 1 .. n
    BY <1>3, <2>1
  <2>5. \A k \in DOMAIN chunks : chunks[k] \in Seq(S)
    BY <2>2, <2>4, ChunksOfEntries
  <2>6. ASSUME NEW k \in DOMAIN chunks
        PROVE  /\ DOMAIN tasks'[k] = TaskFields
               /\ tasks'[k].queue \in Seq(Seq(DOMAIN entries')) /\ tasks'[k].items \in Seq(DOMAIN entries')
    <3>1. tasks'[k] = Task(chunks[k])
      BY <2>3
    <3>2. DOMAIN tasks'[k] = TaskFields /\ tasks'[k].queue = <<chunks[k]>> /\ tasks'[k].items = <<>>
      BY <3>1, TaskHas
    <3>3. PICK E : E = DOMAIN entries
      OBVIOUS
    <3>4. chunks[k] \in Seq(E)
      <4>1. PICK c : c = chunks[k]
        OBVIOUS
      <4>2. c \in Seq(S) /\ S \subseteq E
        BY <1>3, <2>4, <2>5, <3>3, <4>1
      <4>3. c \in Seq(E)
        BY <4>2
      <4> QED BY <4>1, <4>3
    <3>5. <<chunks[k]>> \in Seq(Seq(E)) /\ <<>> \in Seq(E)
      BY <3>4
    <3> QED BY <1>1, <3>2, <3>3, <3>5
  <2>7. DOMAIN tasks' = DOMAIN chunks
    BY <2>3
  <2> QED BY <1>1, <2>6, <2>7 DEF EntryTasks
<1> QED
  BY <1>2, <1>4, <1>9, <1>10 DEF CrmInv, EmployeesTidy

\* The records made for contact employees are no partner's.
LEMMA ChildRecordsAreNobodys ==
    ASSUME PortalShaped, EntriesShaped, pc = "childcreate", NEW how, NEW order \in Seq(DOMAIN entries),
           portal' = portal \o [i \in DOMAIN order |-> ChildRecord(order[i], how)]
    PROVE  Grows /\ NobodysAdded
<1>1. PICK added : added = [i \in DOMAIN order |-> ChildRecord(order[i], how)]
  OBVIOUS
<1>2. DOMAIN order = 1 .. Len(order) /\ Len(order) \in Nat /\ \A i \in DOMAIN order : order[i] \in DOMAIN entries
  OBVIOUS
<1>3. added \in Seq(ToSet(added)) /\ DOMAIN added = DOMAIN order
  <2>1. added = [i \in 1 .. Len(order) |-> added[i]]
    BY <1>1, <1>2
  <2> QED BY <1>1, <1>2, <2>1, ListIsListed
<1>4. ASSUME NEW i \in DOMAIN order PROVE DOMAIN added[i] = Fields /\ added[i].by = 0
  <2>1. PICK f : f = Props(order[i])
    OBVIOUS
  <2>2. DOMAIN f = Property
    BY <1>2, <2>1, EntriesAreNumbered
  <2>3. PICK x : x = Marked(f, [by |-> 0, run |-> run, how |-> how])
    OBVIOUS
  <2>4. added[i] = x
    BY <1>1, <2>1, <2>3 DEF ChildRecord
  <2> QED BY <2>2, <2>3, <2>4, RecordFields
<1>5. PICK s : s = portal
  OBVIOUS
<1>6. s \in Seq(ToSet(s)) /\ portal' = s \o added
  BY <1>1, <1>5 DEF PortalShaped
<1>7. /\ s \o added \in Seq(ToSet(s \o added)) /\ DOMAIN (s \o added) = 1 .. Len(s) + Len(added)
      /\ Len(s) \in Nat /\ Len(added) \in Nat /\ DOMAIN s = 1 .. Len(s)
      /\ \A i \in DOMAIN s : (s \o added)[i] = s[i]
      /\ \A i \in DOMAIN (s \o added) \ DOMAIN s : i - Len(s) \in DOMAIN added /\ (s \o added)[i] = added[i - Len(s)]
  BY <1>3, <1>6, ListedBefore
<1>8. DOMAIN s \subseteq DOMAIN (s \o added)
  BY <1>7
<1>9. Grows
  BY <1>5, <1>6, <1>7, <1>8 DEF Grows
<1>10. NobodysAdded
  <2>1. \A i \in DOMAIN (s \o added) \ DOMAIN s : DOMAIN (s \o added)[i] = Fields /\ (s \o added)[i].by = 0
    BY <1>3, <1>4, <1>7
  <2> QED BY <1>5, <1>6, <2>1 DEF NobodysAdded
<1> QED
  BY <1>9, <1>10

\* The groups are as they were when HubSpot only grows.
LEMMA GroupsGoOn ==
    ASSUME EntriesShaped, GroupsKept, Grows, pc \in {"childcreate", "childupdate"}, UNCHANGED <<entries, groups>>
    PROVE  EntriesShaped' /\ GroupsKept'
<1>1. EntriesShaped'
  BY DEF EntriesShaped, Props
<1>2. \A e \in DOMAIN entries : Props(e)' = Props(e) /\ (Deciding(e)' <=> Deciding(e))
  BY DEF Props, Deciding, First
<1>3. GroupsKept'
  BY <1>2 DEF GroupsKept, Grows
<1> QED
  BY <1>1, <1>3

\* One task of the employees goes on.
LEMMA EntryTaskMoves ==
    ASSUME EntryTasks, pc = "childcreate", UNCHANGED <<pc, entries>>, NEW k \in DOMAIN tasks,
           NEW t, tasks' = [tasks EXCEPT ![k] = t], DOMAIN t = TaskFields,
           t.queue \in Seq(Seq(DOMAIN entries)), t.items \in Seq(DOMAIN entries)
    PROVE  EntryTasks'
<1>1. DOMAIN tasks' = DOMAIN tasks /\ \A j \in DOMAIN tasks : tasks'[j] = IF j = k THEN t ELSE tasks[j]
  OBVIOUS
<1>2. PICK E : E = DOMAIN entries
  OBVIOUS
<1>3. \A j \in DOMAIN tasks :
          DOMAIN tasks[j] = TaskFields /\ tasks[j].queue \in Seq(Seq(E)) /\ tasks[j].items \in Seq(E)
  BY <1>2 DEF EntryTasks
<1>4. \A j \in DOMAIN tasks' :
          DOMAIN tasks'[j] = TaskFields /\ tasks'[j].queue \in Seq(Seq(E)) /\ tasks'[j].items \in Seq(E)
  BY <1>1, <1>2, <1>3
<1> QED
  BY <1>2, <1>4 DEF EntryTasks

LEMMA SendChildKeeps == ASSUME CrmInv, NEW k \in DOMAIN tasks, SendChild(k) PROVE CrmInv' /\ OwnedKept
<1>1. /\ PortalShaped /\ EntriesShaped /\ GroupsKept /\ EntryTasks
      /\ pc = "childcreate" /\ UNCHANGED <<pc, rows, children, run, entries, groups>> /\ tasks[k].queue # <<>>
  BY DEF CrmInv, PartnersTidy, EmployeesTidy, SendChild, BpUnchanged, config
<1>2. PICK task : task = tasks[k]
  OBVIOUS
<1>3. PICK chunk : chunk = Head(task.queue)
  OBVIOUS
<1>4. PICK E : E = DOMAIN entries
  OBVIOUS
<1>5. DOMAIN task = TaskFields /\ task.queue \in Seq(Seq(E)) /\ task.items \in Seq(E) /\ task.queue # <<>>
  BY <1>1, <1>2, <1>4 DEF EntryTasks
<1>6. chunk \in Seq(E) /\ Halves(chunk) \in Seq(Seq(E))
  <2>1. chunk \in Seq(E)
    BY <1>3, <1>5
  <2> QED BY <2>1, HalvesOfOnce
<1>7. /\ Tail(task.queue) \in Seq(Seq(E)) /\ Tail(task.queue \o Halves(chunk)) \in Seq(Seq(E))
      /\ task.items \o chunk \in Seq(E)
  <2>1. PICK q, h : q = task.queue /\ h = Halves(chunk)
    OBVIOUS
  <2>2. q \in Seq(Seq(E)) /\ q # <<>> /\ h \in Seq(Seq(E))
    BY <1>5, <1>6, <2>1
  <2>3. Tail(q) \in Seq(Seq(E))
    BY <2>2
  <2>4. q \o h \in Seq(Seq(E)) /\ q \o h # <<>>
    BY <2>2
  <2>5. Tail(q \o h) \in Seq(Seq(E))
    BY <2>4
  <2>6. task.items \o chunk \in Seq(E)
    BY <1>5, <1>6
  <2> QED BY <2>1, <2>3, <2>5, <2>6
<1>8. ASSUME NEW u, DOMAIN u = TaskFields, Answered(k, u), u.items \in Seq(E), Tail(u.queue) \in Seq(Seq(E)),
             Grows, NobodysAdded
      PROVE  CrmInv' /\ OwnedKept
  <2>1. PICK t : t = [u EXCEPT !.queue = Tail(@)]
    OBVIOUS
  <2>2. tasks' = [tasks EXCEPT ![k] = t]
    BY <1>8, <2>1 DEF Answered
  <2>3. DOMAIN t = TaskFields /\ t.queue = Tail(u.queue) /\ t.items = u.items
    BY <1>8, <2>1 DEF TaskFields
  <2>4. EntryTasks'
    BY <1>1, <1>4, <1>8, <2>2, <2>3, EntryTaskMoves
  <2>5. EntriesShaped' /\ GroupsKept'
    BY <1>1, <1>8, GroupsGoOn
  <2>6. PartnersTidy'
    BY <1>1, <1>8, PartnersStay DEF ChildPhase
  <2>7. OwnedKept
    BY <1>8, GrowingKeepsOwned
  <2> QED BY <2>4, <2>5, <2>6, <2>7 DEF CrmInv, EmployeesTidy
<1>9. portal' = portal => Grows /\ NobodysAdded
  BY <1>1, SamePortalGrows
<1>10. ASSUME NEW order \in Seq(E), portal' = portal \o [i \in DOMAIN order |-> ChildRecord(order[i], "batch")]
       PROVE  Grows /\ NobodysAdded
  BY <1>1, <1>4, <1>10, ChildRecordsAreNobodys
<1>11. ASSUME NEW S, S \subseteq ToSet(chunk), NEW order \in SetToSeqs(S)
       PROVE  order \in Seq(E)
  <2>1. S \subseteq E /\ Len(entries) \in Nat /\ E = 1 .. Len(entries)
    <3>1. ToSet(chunk) \subseteq E
      BY <1>6 DEF ToSet
    <3> QED BY <1>1, <1>4, <1>11, <3>1, EntriesAreNumbered
  <2>2. Cardinality(S) \in Nat
    <3>1. IsFiniteSet(E)
      BY <2>1, FS_Interval
    <3>2. IsFiniteSet(S)
      BY <2>1, <3>1, FS_Subset
    <3> QED BY <3>2, FS_CardinalityType
  <2>3. order \in [1 .. Cardinality(S) -> S]
    BY DEF SetToSeqs
  <2>4. \E m \in Nat : order \in [1 .. m -> E]
    BY <2>1, <2>2, <2>3
  <2> QED BY <2>4
<1>12. task = tasks[k] /\ chunk = Head(tasks[k].queue)
  BY <1>2, <1>3
<1>13. \/ Answered(k, [task EXCEPT !.items = @ \o chunk]) /\ portal' = portal
       \/ Answered(k, [task EXCEPT !.queue = @ \o Halves(chunk)]) /\ portal' = portal
       \/ (\E c : Answered(k, [task EXCEPT !.conflicts = c])) /\ portal' = portal
       \/ /\ \E c : Answered(k, [task EXCEPT !.created = c])
          /\ \E order \in SetToSeqs(ToSet(chunk)) :
                portal' = portal \o [i \in DOMAIN order |-> ChildRecord(order[i], "batch")]
       \/ \E some \in SUBSET ToSet(chunk) : \E order \in SetToSeqs(some) :
             /\ portal' = portal \o [i \in DOMAIN order |-> ChildRecord(order[i], "batch")]
             /\ \E c, e : Answered(k, [task EXCEPT !.created = c, !.errors = e])
       \/ /\ portal' = portal \/ portal' = portal \o [i \in DOMAIN chunk |-> ChildRecord(chunk[i], "batch")]
          /\ \E f : Answered(k, [task EXCEPT !.failedRows = f])
  BY <1>12, Zenon DEF SendChild
<1>14. CASE Answered(k, [task EXCEPT !.items = @ \o chunk]) /\ portal' = portal
  <2>1. PICK u : u = [task EXCEPT !.items = @ \o chunk]
    OBVIOUS
  <2>2. DOMAIN u = TaskFields /\ u.queue = task.queue /\ u.items = task.items \o chunk
    BY <1>5, <2>1 DEF TaskFields
  <2> QED BY <1>7, <1>8, <1>9, <1>14, <2>1, <2>2
<1>15. CASE Answered(k, [task EXCEPT !.queue = @ \o Halves(chunk)]) /\ portal' = portal
  <2>1. PICK u : u = [task EXCEPT !.queue = @ \o Halves(chunk)]
    OBVIOUS
  <2>2. DOMAIN u = TaskFields /\ u.queue = task.queue \o Halves(chunk) /\ u.items = task.items
    BY <1>5, <2>1 DEF TaskFields
  <2> QED BY <1>5, <1>7, <1>8, <1>9, <1>15, <2>1, <2>2
\* The others keep queue and items.
<1>16. ASSUME NEW u, DOMAIN u = TaskFields, u.queue = task.queue, u.items = task.items, Answered(k, u),
              Grows, NobodysAdded
       PROVE  CrmInv' /\ OwnedKept
  <2>1. u.items \in Seq(E) /\ Tail(u.queue) \in Seq(Seq(E))
    BY <1>5, <1>7, <1>16
  <2> QED BY <1>8, <1>16, <2>1
<1>17. CASE (\E c : Answered(k, [task EXCEPT !.conflicts = c])) /\ portal' = portal
  <2>1. PICK c : Answered(k, [task EXCEPT !.conflicts = c])
    BY <1>17
  <2>2. PICK u : u = [task EXCEPT !.conflicts = c]
    OBVIOUS
  <2>3. DOMAIN u = TaskFields /\ u.queue = task.queue /\ u.items = task.items
    BY <1>5, <2>2 DEF TaskFields
  <2> QED BY <1>9, <1>16, <1>17, <2>1, <2>2, <2>3
<1>18. CASE /\ \E c : Answered(k, [task EXCEPT !.created = c])
            /\ \E order \in SetToSeqs(ToSet(chunk)) :
                  portal' = portal \o [i \in DOMAIN order |-> ChildRecord(order[i], "batch")]
  <2>1. PICK c : Answered(k, [task EXCEPT !.created = c])
    BY <1>18
  <2>2. PICK u : u = [task EXCEPT !.created = c]
    OBVIOUS
  <2>3. DOMAIN u = TaskFields /\ u.queue = task.queue /\ u.items = task.items
    BY <1>5, <2>2 DEF TaskFields
  <2>4. PICK order \in SetToSeqs(ToSet(chunk)) : portal' = portal \o [i \in DOMAIN order |-> ChildRecord(order[i], "batch")]
    BY <1>18
  <2>5. Grows /\ NobodysAdded
    BY <1>10, <1>11, <2>4
  <2> QED BY <1>16, <2>1, <2>2, <2>3, <2>5
<1>19. CASE \E some \in SUBSET ToSet(chunk) : \E order \in SetToSeqs(some) :
                /\ portal' = portal \o [i \in DOMAIN order |-> ChildRecord(order[i], "batch")]
                /\ \E c, e : Answered(k, [task EXCEPT !.created = c, !.errors = e])
  <2>1. PICK some \in SUBSET ToSet(chunk) : \E order \in SetToSeqs(some) :
                /\ portal' = portal \o [i \in DOMAIN order |-> ChildRecord(order[i], "batch")]
                /\ \E c, e : Answered(k, [task EXCEPT !.created = c, !.errors = e])
    BY <1>19
  <2>2. PICK order \in SetToSeqs(some) :
                /\ portal' = portal \o [i \in DOMAIN order |-> ChildRecord(order[i], "batch")]
                /\ \E c, e : Answered(k, [task EXCEPT !.created = c, !.errors = e])
    BY <2>1
  <2>3. PICK c, e : Answered(k, [task EXCEPT !.created = c, !.errors = e])
    BY <2>2
  <2>4. PICK u : u = [task EXCEPT !.created = c, !.errors = e]
    OBVIOUS
  <2>5. DOMAIN u = TaskFields /\ u.queue = task.queue /\ u.items = task.items
    BY <1>5, <2>4 DEF TaskFields
  <2>6. Grows /\ NobodysAdded
    BY <1>10, <1>11, <2>2
  <2> QED BY <1>16, <2>3, <2>4, <2>5, <2>6
<1>20. CASE /\ portal' = portal \/ portal' = portal \o [i \in DOMAIN chunk |-> ChildRecord(chunk[i], "batch")]
            /\ \E f : Answered(k, [task EXCEPT !.failedRows = f])
  <2>1. PICK f : Answered(k, [task EXCEPT !.failedRows = f])
    BY <1>20
  <2>2. PICK u : u = [task EXCEPT !.failedRows = f]
    OBVIOUS
  <2>3. DOMAIN u = TaskFields /\ u.queue = task.queue /\ u.items = task.items
    BY <1>5, <2>2 DEF TaskFields
  <2>4. Grows /\ NobodysAdded
    BY <1>6, <1>9, <1>10, <1>20
  <2> QED BY <1>16, <2>1, <2>2, <2>3, <2>4
<1> QED
  BY <1>13, <1>14, <1>15, <1>17, <1>18, <1>19, <1>20

LEMMA SettleChildKeeps == ASSUME CrmInv, NEW k \in DOMAIN tasks, SettleChild(k) PROVE CrmInv'
<1>1. /\ PortalShaped /\ EntriesShaped /\ GroupsKept /\ EntryTasks
      /\ pc = "childcreate" /\ UNCHANGED <<pc, portal, rows, children, run, entries, groups>>
      /\ tasks' = [tasks EXCEPT ![k].chunk = <<>>]
  BY DEF CrmInv, PartnersTidy, EmployeesTidy, SettleChild, BpUnchanged, config
<1>2. Grows /\ NobodysAdded
  BY <1>1, SamePortalGrows
<1>3. PICK t : t = [tasks[k] EXCEPT !.chunk = <<>>]
  OBVIOUS
<1>4. tasks' = [tasks EXCEPT ![k] = t]
  BY <1>1, <1>3
<1>5. PICK E : E = DOMAIN entries
  OBVIOUS
<1>6. DOMAIN tasks[k] = TaskFields /\ tasks[k].queue \in Seq(Seq(E)) /\ tasks[k].items \in Seq(E)
  BY <1>1, <1>5 DEF EntryTasks
<1>7. DOMAIN t = TaskFields /\ t.queue \in Seq(Seq(E)) /\ t.items \in Seq(E)
  BY <1>3, <1>6 DEF TaskFields
<1>8. EntryTasks'
  BY <1>1, <1>4, <1>5, <1>7, EntryTaskMoves
<1>9. EntriesShaped' /\ GroupsKept'
  BY <1>1, <1>2, GroupsGoOn
<1>10. PartnersTidy'
  BY <1>1, <1>2, PartnersStay DEF ChildPhase
<1> QED
  BY <1>8, <1>9, <1>10 DEF CrmInv, EmployeesTidy

LEMMA ChildItemKeeps == ASSUME CrmInv, NEW k \in DOMAIN tasks, ChildItem(k) PROVE CrmInv' /\ OwnedKept
<1>1. /\ PortalShaped /\ EntriesShaped /\ GroupsKept /\ EntryTasks
      /\ pc = "childcreate" /\ UNCHANGED <<pc, rows, children, run, entries, groups>>
      /\ tasks' = [tasks EXCEPT ![k].items = Tail(@)] /\ tasks[k].items # <<>>
      /\ portal' = portal \/ portal' = Append(portal, ChildRecord(Head(tasks[k].items), "item"))
  BY DEF CrmInv, PartnersTidy, EmployeesTidy, ChildItem, BpUnchanged, config
<1>2. PICK E : E = DOMAIN entries
  OBVIOUS
<1>3. PICK items : items = tasks[k].items
  OBVIOUS
<1>4. DOMAIN tasks[k] = TaskFields /\ tasks[k].queue \in Seq(Seq(E)) /\ items \in Seq(E) /\ items # <<>>
  BY <1>1, <1>2, <1>3 DEF EntryTasks
<1>5. Head(items) \in E /\ Tail(items) \in Seq(E)
  BY <1>4
<1>6. PICK t : t = [tasks[k] EXCEPT !.items = Tail(items)]
  OBVIOUS
<1>7. tasks' = [tasks EXCEPT ![k] = t] /\ DOMAIN t = TaskFields /\ t.queue \in Seq(Seq(E)) /\ t.items \in Seq(E)
  BY <1>1, <1>3, <1>4, <1>5, <1>6 DEF TaskFields
<1>8. Grows /\ NobodysAdded
  <2>1. CASE portal' = portal
    BY <1>1, <2>1, SamePortalGrows
  <2>2. CASE portal' = Append(portal, ChildRecord(Head(tasks[k].items), "item"))
    <3>1. PICK f : f = Props(Head(items))
      OBVIOUS
    <3>2. PICK x : x = Marked(f, [by |-> 0, run |-> run, how |-> "item"])
      OBVIOUS
    <3>3. DOMAIN f = Property
      BY <1>1, <1>2, <1>5, <3>1, EntriesAreNumbered
    <3>4. DOMAIN x = Fields /\ x.by = 0
      BY <3>2, <3>3, RecordFields
    <3>5. PICK s : s = portal
      OBVIOUS
    <3>6. s \in Seq(ToSet(s)) /\ portal' = Append(s, x)
      BY <1>1, <1>3, <2>2, <3>1, <3>2, <3>5 DEF PortalShaped, ChildRecord
    <3>7. /\ Append(s, x) \in Seq(ToSet(Append(s, x))) /\ DOMAIN Append(s, x) = DOMAIN s \cup {Len(s) + 1}
          /\ Append(s, x)[Len(s) + 1] = x /\ \A i \in DOMAIN s : Append(s, x)[i] = s[i]
      BY <3>6, ListedThen
    <3> QED BY <3>4, <3>5, <3>6, <3>7 DEF Grows, NobodysAdded
  <2> QED BY <1>1, <2>1, <2>2
<1>9. EntryTasks'
  BY <1>1, <1>2, <1>7, EntryTaskMoves
<1>10. EntriesShaped' /\ GroupsKept'
  BY <1>1, <1>8, GroupsGoOn
<1>11. PartnersTidy'
  BY <1>1, <1>8, PartnersStay DEF ChildPhase
<1>12. OwnedKept
  BY <1>8, GrowingKeepsOwned
<1> QED
  BY <1>9, <1>10, <1>11, <1>12 DEF CrmInv, EmployeesTidy

LEMMA BeginChildUpdatesKeeps == ASSUME CrmInv, BeginChildUpdates PROVE CrmInv'
<1>1. /\ PortalShaped /\ EntriesShaped /\ GroupsKept
      /\ pc = "childcreate" /\ pc' = "childupdate" /\ UNCHANGED <<portal, rows, children, run, entries, groups>>
  BY DEF CrmInv, PartnersTidy, EmployeesTidy, BeginChildUpdates, BpUnchanged, config, childVars
<1>2. Grows /\ NobodysAdded
  BY <1>1, SamePortalGrows
<1>3. EntriesShaped' /\ GroupsKept'
  BY <1>1, <1>2, GroupsGoOn
<1>4. PartnersTidy'
  BY <1>1, <1>2, PartnersStay DEF ChildPhase
<1>5. EntryTasks'
  <2>1. PICK n \in Nat : n = Len(entries) /\ DOMAIN entries = 1 .. n
    BY <1>1, EntriesAreNumbered
  <2>2. PICK S : S = ChildUpdates
    OBVIOUS
  <2>3. S \subseteq 1 .. n /\ \A e \in S : Deciding(e)
    BY <2>1, <2>2 DEF ChildUpdates, Deciding
  <2>4. PICK chunks : chunks = ChunkArray(Ordered(S), ChunkSize)
    OBVIOUS
  <2>5. tasks' = [i \in DOMAIN chunks |-> Task(chunks[i])]
    BY <2>2, <2>4 DEF BeginChildUpdates
  <2>6. \A k \in DOMAIN chunks : chunks[k] \in Seq(S)
    BY <2>3, <2>4, ChunksOfEntries
  <2>7. ASSUME NEW k \in DOMAIN chunks
        PROVE  /\ DOMAIN tasks'[k] = TaskFields
               /\ \A i \in DOMAIN tasks'[k].chunk : tasks'[k].chunk[i] \in DOMAIN entries' /\ Deciding(tasks[k].chunk[i])'
    <3>1. tasks'[k] = Task(chunks[k])
      BY <2>5
    <3>2. DOMAIN tasks'[k] = TaskFields /\ tasks'[k].chunk = chunks[k]
      BY <3>1, TaskHas
    <3>3. \A i \in DOMAIN chunks[k] : chunks[k][i] \in S
      BY <2>6
    <3>4. ASSUME NEW i \in DOMAIN chunks[k]
          PROVE  tasks'[k].chunk[i] \in DOMAIN entries' /\ Deciding(tasks[k].chunk[i])'
      <4>1. PICK e : e = chunks[k][i]
        OBVIOUS
      <4>2. e \in S /\ tasks'[k].chunk[i] = e
        BY <3>2, <3>3, <4>1
      <4>3. First(groups, e) /\ groups[e][1] = "record" /\ e \in DOMAIN entries
        BY <2>1, <2>3, <4>2 DEF Deciding
      <4> QED BY <1>1, <4>2, <4>3 DEF Deciding, First
    <3> QED BY <3>2, <3>4
  <2>8. DOMAIN tasks' = DOMAIN chunks
    BY <2>5
  <2> QED BY <1>1, <2>7, <2>8 DEF EntryTasks
<1> QED
  BY <1>3, <1>4, <1>5 DEF CrmInv, EmployeesTidy

\* What a batch of employee updates leaves in HubSpot.
LEMMA CodesAreWritten ==
    ASSUME PortalShaped, NEW done, portal' = Coded(done)
    PROVE  /\ portal' \in Seq(ToSet(portal')) /\ DOMAIN portal' = DOMAIN portal
           /\ \A i \in DOMAIN portal :
                 /\ DOMAIN portal'[i] = Fields /\ portal'[i].idsap = portal[i].idsap
                 /\ portal'[i].by = portal[i].by /\ portal'[i].run = portal[i].run /\ portal'[i].how = portal[i].how
                 /\ \/ portal'[i] = portal[i]
                    \/ \E e \in done : groups[e][2] = i /\ portal'[i].code = Props(e).code
<1>1. /\ Len(portal) \in Nat /\ DOMAIN portal = 1 .. Len(portal)
      /\ \A i \in DOMAIN portal : DOMAIN portal[i] = Fields
  BY PortalIsListed DEF PortalShaped
<1>2. DOMAIN portal' = DOMAIN portal
  BY DEF Coded
<1>3. portal' \in Seq(ToSet(portal'))
  <2>1. PICK u : u = portal'
    OBVIOUS
  <2>2. u = [j \in 1 .. Len(portal) |-> u[j]]
    BY <1>1, <2>1 DEF Coded
  <2> QED BY <1>1, <2>1, <2>2, ListIsListed
<1>4. ASSUME NEW i \in DOMAIN portal
      PROVE  \/ portal'[i] = portal[i]
             \/ \E e \in done : groups[e][2] = i /\ portal'[i] = [portal[i] EXCEPT !.code = Props(e).code]
  BY DEF Coded
<1>5. {"idsap", "code", "by", "run", "how"} \subseteq Fields
  BY DEF Fields, Property, Ownership
<1>6. ASSUME NEW i \in DOMAIN portal
      PROVE  /\ DOMAIN portal'[i] = Fields /\ portal'[i].idsap = portal[i].idsap
             /\ portal'[i].by = portal[i].by /\ portal'[i].run = portal[i].run /\ portal'[i].how = portal[i].how
             /\ \/ portal'[i] = portal[i]
                \/ \E e \in done : groups[e][2] = i /\ portal'[i].code = Props(e).code
  <2>1. CASE portal'[i] = portal[i]
    BY <1>1, <2>1
  <2>2. ASSUME NEW e \in done, groups[e][2] = i, portal'[i] = [portal[i] EXCEPT !.code = Props(e).code]
        PROVE  /\ DOMAIN portal'[i] = Fields /\ portal'[i].idsap = portal[i].idsap
               /\ portal'[i].by = portal[i].by /\ portal'[i].run = portal[i].run /\ portal'[i].how = portal[i].how
               /\ groups[e][2] = i /\ portal'[i].code = Props(e).code
    BY <1>1, <1>5, <2>2
  <2> QED BY <1>4, <2>1, <2>2
<1> QED
  BY <1>2, <1>3, <1>6

\* What an update of employees does to HubSpot.
LEMMA SendChildUpdateWrites ==
    ASSUME CrmInv, NEW k \in DOMAIN tasks, SendChildUpdate(k)
    PROVE  /\ portal' \in Seq(ToSet(portal')) /\ DOMAIN portal' = DOMAIN portal
           /\ \A i \in DOMAIN portal :
                 /\ DOMAIN portal'[i] = Fields /\ portal'[i].idsap = portal[i].idsap
                 /\ portal'[i].by = portal[i].by /\ portal'[i].run = portal[i].run /\ portal'[i].how = portal[i].how
                 /\ \/ portal'[i] = portal[i]
                    \/ \E e \in DOMAIN entries : /\ Deciding(e) /\ groups[e][2] = i
                                                 /\ portal'[i].code = Props(e).code
<1>1. /\ PortalShaped /\ EntryTasks /\ pc = "childupdate"
  BY DEF CrmInv, PartnersTidy, EmployeesTidy, SendChildUpdate
<1>2. PICK chunk : chunk = tasks[k].chunk
  OBVIOUS
<1>3. \A e \in ToSet(chunk) : e \in DOMAIN entries /\ Deciding(e)
  BY <1>1, <1>2 DEF EntryTasks, ToSet
<1>4. portal' = portal \/ \E done \in SUBSET ToSet(chunk) : portal' = Coded(done)
  <2>1. ToSet(chunk) \in SUBSET ToSet(chunk)
    OBVIOUS
  <2> QED BY <1>2, <2>1 DEF SendChildUpdate
<1>5. CASE portal' = portal
  BY <1>1, <1>5 DEF PortalShaped
<1>6. CASE \E done \in SUBSET ToSet(chunk) : portal' = Coded(done)
  <2>1. PICK done \in SUBSET ToSet(chunk) : portal' = Coded(done)
    BY <1>6
  <2>2. /\ portal' \in Seq(ToSet(portal')) /\ DOMAIN portal' = DOMAIN portal
        /\ \A i \in DOMAIN portal :
              /\ DOMAIN portal'[i] = Fields /\ portal'[i].idsap = portal[i].idsap
              /\ portal'[i].by = portal[i].by /\ portal'[i].run = portal[i].run /\ portal'[i].how = portal[i].how
              /\ \/ portal'[i] = portal[i]
                 \/ \E e \in done : groups[e][2] = i /\ portal'[i].code = Props(e).code
    BY <1>1, <2>1, CodesAreWritten
  <2>3. \A e \in done : e \in DOMAIN entries /\ Deciding(e)
    BY <1>3, <2>1
  <2> QED BY <2>2, <2>3
<1> QED
  BY <1>4, <1>5, <1>6

LEMMA SendChildUpdateKeeps == ASSUME CrmInv, NEW k \in DOMAIN tasks, SendChildUpdate(k) PROVE CrmInv' /\ OwnedKept
<1>1. /\ DataShaped /\ PortalShaped /\ OneRecordPerPartner /\ SweptIsThere
      /\ EntriesShaped /\ GroupsKept /\ EntryTasks
      /\ pc = "childupdate" /\ UNCHANGED <<pc, rows, children, run, entries, groups>>
      /\ tasks' = [tasks EXCEPT ![k].chunk = <<>>, ![k].queue = <<>>]
  BY DEF CrmInv, PartnersTidy, EmployeesTidy, SendChildUpdate, BpUnchanged, config
<1>2. /\ portal' \in Seq(ToSet(portal')) /\ DOMAIN portal' = DOMAIN portal
      /\ \A i \in DOMAIN portal :
            /\ DOMAIN portal'[i] = Fields /\ portal'[i].idsap = portal[i].idsap
            /\ portal'[i].by = portal[i].by /\ portal'[i].run = portal[i].run /\ portal'[i].how = portal[i].how
            /\ \/ portal'[i] = portal[i]
               \/ \E e \in DOMAIN entries : Deciding(e) /\ groups[e][2] = i /\ portal'[i].code = Props(e).code
  BY SendChildUpdateWrites
<1>3. DataShaped' /\ PortalShaped' /\ OneRecordPerPartner' /\ SweptIsThere'
  <2>1. DataShaped'
    BY <1>1 DEF DataShaped, Row
  <2>2. ASSUME NEW i \in DOMAIN portal' PROVE MadeForPartner(portal[i])'
    <3>1. MadeForPartner(portal[i])
      BY <1>1, <1>2 DEF PortalShaped
    <3>2. portal'[i].idsap = portal[i].idsap /\ portal'[i].by = portal[i].by
      BY <1>2
    <3>3. portal'[i].run = portal[i].run /\ portal'[i].how = portal[i].how
      BY <1>2
    <3> QED BY <1>1, <3>1, <3>2, <3>3 DEF MadeForPartner, Row
  <2>3. PortalShaped'
    BY <1>1, <1>2, <2>2 DEF PortalShaped
  <2>4. OneRecordPerPartner'
    BY <1>1, <1>2, OneRecordGoesOn
  <2>5. SweptIsThere'
    BY <1>1 DEF SweptIsThere
  <2> QED BY <2>1, <2>3, <2>4, <2>5
<1>4. \A e \in DOMAIN entries : Props(e)' = Props(e) /\ (Deciding(e)' <=> Deciding(e))
  BY <1>1 DEF Props, Deciding, First
<1>5. EntriesShaped'
  BY <1>1 DEF EntriesShaped, Props
<1>6. GroupsKept'
  <2>1. ASSUME NEW e \in DOMAIN entries, Deciding(e)
        PROVE  groups[e][2] \in DOMAIN portal /\ portal'[groups[e][2]].code \in {"", Props(e).code}
    <3>1. PICK i : i = groups[e][2]
      OBVIOUS
    <3>2. i \in DOMAIN portal /\ portal[i].code \in {"", Props(e).code}
      BY <1>1, <2>1, <3>1 DEF GroupsKept
    <3>3. CASE portal'[i] = portal[i]
      BY <3>1, <3>2, <3>3
    <3>4. ASSUME NEW f \in DOMAIN entries, Deciding(f), groups[f][2] = i, portal'[i].code = Props(f).code
          PROVE  portal'[i].code = Props(e).code
      <4>1. f = e
        BY <1>1, <2>1, <3>1, <3>4 DEF GroupsKept
      <4> QED BY <3>4, <4>1
    <3> QED BY <1>2, <3>1, <3>2, <3>3, <3>4
  <2> QED BY <1>1, <1>2, <1>4, <2>1 DEF GroupsKept
<1>7. EntryTasks'
  <2>1. \A j \in DOMAIN tasks :
           /\ DOMAIN tasks[j] = TaskFields
           /\ \A i \in DOMAIN tasks[j].chunk : tasks[j].chunk[i] \in DOMAIN entries /\ Deciding(tasks[j].chunk[i])
    BY <1>1 DEF EntryTasks
  <2>2. PICK t : t = [tasks[k] EXCEPT !.chunk = <<>>, !.queue = <<>>]
    OBVIOUS
  <2>3. DOMAIN tasks[k] = TaskFields
    BY <2>1
  <2>8. DOMAIN t = TaskFields /\ t.chunk = <<>>
    BY <2>2, <2>3 DEF TaskFields
  <2>9. PICK ts : ts = tasks
    OBVIOUS
  <2>10. tasks' = [[ts EXCEPT ![k].chunk = <<>>] EXCEPT ![k].queue = <<>>]
    BY <1>1, <2>9
  <2>4. DOMAIN tasks' = DOMAIN tasks /\ \A j \in DOMAIN tasks : tasks'[j] = IF j = k THEN t ELSE tasks[j]
    BY <2>2, <2>9, <2>10
  <2>11. t.chunk = <<>> /\ DOMAIN <<>> = {}
    BY <2>8
  <2>5. ASSUME NEW j \in DOMAIN tasks'
        PROVE  /\ DOMAIN tasks'[j] = TaskFields
               /\ \A i \in DOMAIN tasks'[j].chunk : tasks'[j].chunk[i] \in DOMAIN entries' /\ Deciding(tasks[j].chunk[i])'
    <3>1. CASE j = k
      BY <2>4, <2>8, <2>11, <3>1
    <3>2. CASE j # k
      <4>1. tasks'[j] = tasks[j] /\ j \in DOMAIN tasks
        BY <2>4, <3>2
      <4>2. ASSUME NEW i \in DOMAIN tasks[j].chunk
            PROVE  tasks'[j].chunk[i] \in DOMAIN entries' /\ Deciding(tasks[j].chunk[i])'
        <5>1. PICK e : e = tasks[j].chunk[i]
          OBVIOUS
        <5>2. e \in DOMAIN entries /\ First(groups, e) /\ groups[e][1] = "record" /\ tasks'[j].chunk[i] = e
          BY <2>1, <4>1, <5>1 DEF Deciding
        <5> QED BY <1>1, <5>2 DEF Deciding, First
      <4> QED BY <2>1, <4>1, <4>2
    <3> QED BY <3>1, <3>2
  <2> QED BY <1>1, <2>5 DEF EntryTasks
<1>8. OwnedKept
  <2>1. ASSUME NEW i \in DOMAIN portal, portal[i].code # ""
        PROVE  portal'[i].code = portal[i].code
    <3>1. ASSUME NEW e \in DOMAIN entries, Deciding(e), groups[e][2] = i, portal'[i].code = Props(e).code
          PROVE  portal'[i].code = portal[i].code
      <4>1. portal[groups[e][2]].code \in {"", Props(e).code}
        BY <1>1, <3>1 DEF GroupsKept
      <4> QED BY <2>1, <3>1, <4>1
    <3> QED BY <1>2, <3>1
  <2> QED BY <1>2, <2>1 DEF OwnedKept
<1> QED
  BY <1>1, <1>3, <1>5, <1>6, <1>7, <1>8 DEF CrmInv, PartnersTidy, EmployeesTidy, MakingTidy, UpdatingTidy, UpdatesTidy, CreatesTidy

LEMMA AssociateKeeps == ASSUME CrmInv, Associate PROVE CrmInv'
<1>1. /\ PortalShaped /\ pc = "childupdate" /\ pc' = "idle" /\ UNCHANGED <<portal, rows, children, run>>
  BY DEF CrmInv, PartnersTidy, Associate, BpUnchanged, config
<1>2. PartnersTidy'
  BY <1>1, SamePortalGrows, PartnersStay DEF ChildPhase
<1> QED
  BY <1>1, <1>2 DEF CrmInv, EmployeesTidy, EntriesShaped, GroupsKept, EntryTasks
-----------------------------------------------------------------------------
(* CrmBatches and ChildContacts: all the steps, and the theorems.            *)

\* A step that moves nothing.
LEMMA NothingMoves == ASSUME CrmInv, UNCHANGED vars, UNCHANGED childVars PROVE CrmInv' /\ OwnedKept
<1>1. /\ UNCHANGED <<rows, children, portal, run, pc, index, known, tasks, updates, adopted>>
      /\ UNCHANGED <<entries, groups>>
  BY DEF vars, config, childVars
<1>2. Row' = Row
  BY <1>1 DEF Row
<1>3. DataShaped' /\ PortalShaped' /\ OneRecordPerPartner'
  BY <1>1, SameRecordsKeep DEF CrmInv, PartnersTidy
<1>4. /\ Steady /\ \A r \in Row : MadeNow(r)' <=> MadeNow(r)
      /\ \A k \in DOMAIN tasks : Waiting(tasks[k])' = Waiting(tasks[k]) /\ Queued(tasks[k])' = Queued(tasks[k])
  BY <1>1, SameTasksWait DEF Steady, MadeNow
<1>5. SweptIsThere'
  BY <1>1, <1>2, <1>4 DEF CrmInv, PartnersTidy, SweptIsThere
<1>6. MakingTidy'
  <2>1. CASE pc \in {"sap", "create", "items"}
    BY <1>1, <1>4, <2>1, MakingStays DEF CrmInv, PartnersTidy
  <2> QED BY <1>1, <2>1 DEF MakingTidy
<1>7. UpdatesTidy' /\ CreatesTidy'
  <2>1. CASE pc \in {"sap", "create"}
    <3>1. UpdatesTidy'
      BY <1>1, <1>4, <2>1, UpdatesGoOn DEF CrmInv, PartnersTidy
    <3>2. CreatesTidy'
      BY <1>1, <1>4, <2>1, CreatesGoOn DEF CrmInv, PartnersTidy
    <3> QED BY <3>1, <3>2
  <2> QED BY <1>1, <2>1 DEF UpdatesTidy, CreatesTidy
<1>8. UpdatingTidy'
  <2>1. SUFFICES ASSUME pc = "update" PROVE UpdatingTidy'
    BY <1>1 DEF UpdatingTidy
  <2>2. /\ \A k \in DOMAIN tasks : TidyUpdate(tasks[k]) /\ \A r \in Unwritten(tasks[k]) : ~MadeNow(r)
        /\ \A j, k \in DOMAIN tasks : j # k =>
              /\ Unwritten(tasks[j]) \cap Unwritten(tasks[k]) = {}
              /\ tasks[j].queue # <<>> /\ tasks[k].queue # <<>> =>
                    UpdatedIds(tasks[j].chunk) \cap UpdatedIds(tasks[k].chunk) = {}
    BY <2>1 DEF CrmInv, PartnersTidy, UpdatingTidy
  <2>3. \A k \in DOMAIN tasks : Unwritten(tasks[k])' = Unwritten(tasks[k]) /\ UpdatedIds(tasks[k].chunk)' = UpdatedIds(tasks[k].chunk)
    BY <1>1 DEF Unwritten, UpdatedRows, UpdatedIds
  <2>4. ASSUME NEW k \in DOMAIN tasks PROVE TidyUpdate(tasks[k])'
    <3>1. TidyUpdate(tasks[k])
      BY <2>2
    <3>2. tasks[k].queue # <<>> => Planned(tasks[k].chunk)'
      BY <1>1, <1>4, <3>1, ChunkStays DEF TidyUpdate
    <3> QED BY <1>1, <1>2, <3>1, <3>2 DEF TidyUpdate
  <2>5. \A k \in DOMAIN tasks : \A r \in Unwritten(tasks[k])' : ~MadeNow(r)'
    <3>1. \A k \in DOMAIN tasks : Unwritten(tasks[k]) \subseteq Row
      BY <2>2, UnwrittenAreRows
    <3> QED BY <1>4, <2>2, <2>3, <3>1
  <2> QED BY <1>1, <2>2, <2>3, <2>4, <2>5 DEF UpdatingTidy
<1>9. EmployeesTidy'
  <2>1. EntriesShaped'
    BY <1>1 DEF CrmInv, EmployeesTidy, EntriesShaped, Props
  <2>2. GroupsKept'
    <3>1. GroupsKept
      BY DEF CrmInv, EmployeesTidy
    <3> QED BY <1>1, <3>1, ZenonT(60) DEF GroupsKept, Props, Deciding, First
  <2>3. EntryTasks'
    <3>1. EntryTasks
      BY DEF CrmInv, EmployeesTidy
    <3> QED BY <1>1, <3>1 DEF EntryTasks, Deciding, First
  <2> QED BY <2>1, <2>2, <2>3 DEF EmployeesTidy
<1>10. OwnedKept
  BY <1>1 DEF OwnedKept
<1> QED
  BY <1>3, <1>5, <1>6, <1>7, <1>8, <1>9, <1>10 DEF CrmInv, PartnersTidy

\* A step of the partners or of their employees, each as it is.
LEMMA PartnersGoOn == ASSUME CrmInv, Next, UNCHANGED childVars PROVE CrmInv' /\ OwnedKept
<1>1. UNCHANGED portal => OwnedKept
  BY DEF OwnedKept
<1>2. CASE BeginRun
  BY <1>1, <1>2, BeginRunKeeps DEF BeginRun
<1>3. CASE Sweep
  BY <1>1, <1>3, SweepKeeps DEF Sweep
<1>4. CASE ReadProperties
  BY <1>1, <1>4, ReadPropertiesKeeps DEF ReadProperties
<1>5. CASE Plan
  BY <1>1, <1>5, PlanKeeps DEF Plan
<1>6. CASE UpdateSap
  BY <1>1, <1>6, UpdateSapKeeps DEF UpdateSap
<1>7. CASE BeginUpdates
  BY <1>1, <1>7, BeginUpdatesKeeps DEF BeginUpdates
<1>8. ASSUME NEW k \in DOMAIN tasks, SendCreate(k) \/ Settle(k) \/ Item(k) \/ SendUpdate(k)
      PROVE  CrmInv' /\ OwnedKept
  <2>1. CASE Settle(k)
    BY <1>1, <2>1, SettleKeeps DEF Settle
  <2> QED BY <1>8, <2>1, SendCreateKeeps, ItemKeeps, SendUpdateKeeps
<1>9. CASE SomeoneCreates
  BY <1>9, SomeoneCreatesKeeps
<1>10. CASE EndRun
  BY <1>1, <1>10, EndRunKeeps DEF EndRun
<1>11. CASE Rest
  BY <1>1, <1>11, NothingMoves DEF Rest
<1> QED
  BY <1>2, <1>3, <1>4, <1>5, <1>6, <1>7, <1>8, <1>9, <1>10, <1>11 DEF Next

LEMMA EmployeesGoOn == ASSUME CrmInv, ChildNext PROVE CrmInv' /\ OwnedKept
<1>1. UNCHANGED portal => OwnedKept
  BY DEF OwnedKept
<1>2. CASE BeginChildren
  BY <1>1, <1>2, BeginChildrenKeeps DEF BeginChildren
<1>3. CASE PlanChildren
  BY <1>1, <1>3, PlanChildrenKeeps DEF PlanChildren
<1>4. CASE BeginChildUpdates
  BY <1>1, <1>4, BeginChildUpdatesKeeps DEF BeginChildUpdates
<1>5. CASE Associate
  BY <1>1, <1>5, AssociateKeeps DEF Associate
<1>6. ASSUME NEW k \in DOMAIN tasks, SendChild(k) \/ SettleChild(k) \/ ChildItem(k) \/ SendChildUpdate(k)
      PROVE  CrmInv' /\ OwnedKept
  <2>1. CASE SettleChild(k)
    BY <1>1, <2>1, SettleChildKeeps DEF SettleChild
  <2> QED BY <1>6, <2>1, SendChildKeeps, ChildItemKeeps, SendChildUpdateKeeps
<1> QED
  BY <1>2, <1>3, <1>4, <1>5, <1>6 DEF ChildNext

\* In short, CrmInv is inductive, and a step under it leaves what is owned.
LEMMA CrmGoesOn == ASSUME CrmInv, [SyncNext]_<<vars, childVars>> PROVE CrmInv' /\ OwnedKept
<1>1. CASE SyncNext
  BY <1>1, PartnersGoOn, EmployeesGoOn DEF SyncNext
<1>2. CASE UNCHANGED <<vars, childVars>>
  <2>1. UNCHANGED vars /\ UNCHANGED childVars
    BY <1>2
  <2> QED BY <2>1, NothingMoves
<1> QED
  BY <1>1, <1>2

\* A SAP business partner gets one HubSpot record, whatever fails and however often
\* it is synchronised: of two, the one-by-one path made one, in the same run, for
\* another row of the partner.
THEOREM OneRecordForPartners == SyncSpec => []OneRecordPerPartner
<1>1. SyncInit => CrmInv
  BY CrmStarts
<1>2. CrmInv /\ [SyncNext]_<<vars, childVars>> => CrmInv'
  BY CrmGoesOn
<1>3. CrmInv => OneRecordPerPartner
  BY DEF CrmInv, PartnersTidy
<1> QED
  BY <1>1, <1>2, <1>3, PTL DEF SyncSpec

\* A record that carries the key of a SAP object keeps it, however its phone and
\* email are shared: only what the one-by-one path took in this run is written again.
THEOREM OwnedAreKept == SyncSpec => OwnedRecordKept
<1>1. SyncInit => CrmInv
  BY CrmStarts
<1>2. CrmInv /\ [SyncNext]_<<vars, childVars>> => CrmInv'
  BY CrmGoesOn
<1>3. CrmInv /\ [SyncNext]_<<vars, childVars>> =>
          [\A i \in DOMAIN portal \ adopted :
              /\ portal[i].idsap # "" => portal'[i].idsap = portal[i].idsap
              /\ portal[i].code # "" =>
                    portal'[i].code = portal[i].code /\ portal'[i].idsap = portal[i].idsap]_vars
  BY CrmGoesOn DEF OwnedKept
<1> QED
  BY <1>1, <1>2, <1>3, PTL DEF SyncSpec, OwnedRecordKept
=============================================================================
