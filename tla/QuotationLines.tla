---------------------------- MODULE QuotationLines ----------------------------
(***************************************************************************)
(* The lines of one deal's quotation, in HubSpot, in SAP and in the link   *)
(* SapDocumentLink keeps between the two.  An update reads the link and    *)
(* the quotation, PATCHes one entry per line item (the rows it leaves out  *)
(* are removed), reads the quotation again and rewrites the link from it   *)
(* (ProcessHubspotUpdateQuotation).  A conversion makes an order of the    *)
(* link's rows (ProcessHubspotConvertQuotationToOrder).                    *)
(*                                                                         *)
(* Events may be processed side by side, each with the line items it was   *)
(* sent with.  A row carries, for the properties, the line item whose data *)
(* it was last given.  Prices, taxes and headers are left out.             *)
(***************************************************************************)
EXTENDS Integers, Sequences, FiniteSets, SequencesExt, FiniteSetsExt

CONSTANTS LineItems,      \* HubSpot's line items
          Product, Sku,   \* the product of each, and its sku
          FirstItems,     \* the items the quotation was created with
          Updates,        \* the update events
          NoItem,         \* no line item: a row typed in SAP, an entry without id
          MaxRow, MaxLineTries,
          MaxMishaps      \* mishaps: failed calls, and edits by people

\* A quotation is created with a line, and a deal has finitely many events.
ASSUME LinesAssumption ==
    FirstItems \in Seq(LineItems) /\ FirstItems # <<>> /\ IsFiniteSet(Updates)

VARIABLES byId,        \* the workflow sends line item ids, not only product ids
          dealItems,   \* the deal's line items, in HubSpot's order
          rows,        \* SAP's quotation: num, item, sku, open
          link,        \* link.lines: item, product, sku, num
          update,      \* update[u]: the processing of an update event
          convert,     \* the processing of the conversion event
          order,       \* the order's lines: base, item; {} before it is made
          drifted,     \* the rows have changed since the link was last read from them
          mishaps

lineVars == <<byId, dealItems, rows, link, update, convert, order, drifted, mishaps>>

Nums(rs) == {r.num : r \in rs}
\* The rows by their numbers: the n-th has n rows up to it.
InOrder(rs) == [n \in 1..Cardinality(rs) |->
                   CHOOSE r \in rs : Cardinality({q \in rs : q.num <= r.num}) = n]
Entry(item, sku, num) == [item |-> item, sku |-> sku, num |-> num,
                          product |-> IF item = NoItem THEN NoItem ELSE Product[item]]

\* buildSapDocumentLinkLines: the created quotation's lines, by position.
CreatedLink(items) == [n \in DOMAIN items |-> Entry(items[n], Sku[items[n]], n - 1)]
CreatedRows(items) == {[num |-> n - 1, item |-> items[n], sku |-> Sku[items[n]], open |-> TRUE] :
                          n \in DOMAIN items}

Waiting == [pc |-> "unsent", items |-> <<>>, plan |-> <<>>, read |-> {}, tries |-> 0]

LineInit ==
    /\ byId \in BOOLEAN
    /\ dealItems = FirstItems
    /\ rows = CreatedRows(FirstItems) /\ link = CreatedLink(FirstItems)
    /\ update = [u \in Updates |-> Waiting]
    /\ convert = Waiting /\ order = {}
    /\ drifted = FALSE
    /\ mishaps = 0

-----------------------------------------------------------------------------
(* Which row a line item is about (resolveQuotationLinkLine): the first free *)
(* entry with its id, else with its product, else with its sku.             *)

\* The entries among the free ones that match by id, by product, by sku.
Hits(lines, free, i) ==
    <<{n \in free : byId /\ lines[n].item = i},
      {n \in free : lines[n].product = Product[i]},
      {n \in free : lines[n].sku = Sku[i]}>>

FirstHit(lines, free, i) ==
    LET hits == Hits(lines, free, i)
        ways == {w \in 1..3 : hits[w] # {}}
    IN IF ways = {} THEN -1 ELSE lines[Min(hits[Min(ways)])].num

\* Mutant: entries already matched are not passed over.
RowOfUsed(lines, used, i) == FirstHit(lines, DOMAIN lines, i)

RowOf(lines, used, i) == FirstHit(lines, {n \in DOMAIN lines : lines[n].num \notin used}, i)

\* Mutant: the next number is the count of the rows.
NextByLength(lines, rs) == Cardinality(rs)

\* resolveNextLineNum: past every row SAP has and every row the link knows.
NextNum(lines, rs) == IF rs = {} /\ lines = <<>> THEN 0
                      ELSE Max(Nums(rs) \union {l.num : l \in Range(lines)}) + 1

\* buildQuotationLineUpdates: item after item, a row it has or a new one.
PlanFor(items, lines, rs) ==
    LET plan[n \in 0..Len(items)] ==
          IF n = 0 THEN <<>>
          ELSE LET before == plan[n-1]
                   used == {p.num : p \in {q \in Range(before) : ~q.new}}
                   num == RowOf(lines, used, items[n])
                   added == Cardinality({k \in DOMAIN before : before[k].new})
               IN Append(before, [item |-> items[n], new |-> num = -1,
                                  num |-> IF num = -1 THEN NextNum(lines, rs) + added ELSE num])
    IN plan[Len(items)]

\* Mutants: the items go to the rows by position; every row of a sku gets the same item.
FromSapByPosition(rs, items) ==
    LET row == InOrder(rs)
    IN [n \in DOMAIN row |-> Entry(IF n \in DOMAIN items THEN items[n] ELSE NoItem,
                                   row[n].sku, row[n].num)]
FromSapByMap(rs, items) ==
    LET row == InOrder(rs)
        Of(sku) == SelectSeq(items, LAMBDA i : Sku[i] = sku)
    IN [n \in DOMAIN row |-> Entry(IF Of(row[n].sku) = <<>> THEN NoItem ELSE Head(Of(row[n].sku)),
                                   row[n].sku, row[n].num)]
\* buildLinkLinesFromSap: the rows as SAP has them; each takes the next item of its sku.
FromSap(rs, items) ==
    LET row == InOrder(rs)
        Turn(n) == Cardinality({k \in 1..n : row[k].sku = row[n].sku})
        OfSku(sku) == SelectSeq(items, LAMBDA i : Sku[i] = sku)
        ItemAt(n) == IF Turn(n) <= Len(OfSku(row[n].sku)) THEN OfSku(row[n].sku)[Turn(n)]
                     ELSE NoItem
    IN [n \in DOMAIN row |-> Entry(ItemAt(n), row[n].sku, row[n].num)]

-----------------------------------------------------------------------------
(* An update.                                                               *)

LineCall(kind) == /\ kind # "answered" => mishaps < MaxMishaps
                  /\ mishaps' = mishaps + (IF kind = "answered" THEN 0 ELSE 1)

UpdateGoes(u, new) == update' = [update EXCEPT ![u] = new]
\* Mutant: an update that fails is always tried again.
UpdateAgain(u) == UpdateGoes(u, [Waiting EXCEPT !.items = update[u].items, !.pc = "sent",
                                                !.tries = update[u].tries + 1])

UpdateFails(u) ==
    UpdateGoes(u, [Waiting EXCEPT !.items = update[u].items, !.tries = update[u].tries + 1,
                                  !.pc = IF update[u].tries + 1 = MaxLineTries THEN "errored" ELSE "sent"])
UpdateEnds(u, pc) == UpdateGoes(u, [Waiting EXCEPT !.pc = pc])

SendUpdate(u) ==
    /\ update[u].pc = "unsent"
    /\ UpdateGoes(u, [update[u] EXCEPT !.pc = "sent", !.items = dealItems])
    /\ UNCHANGED <<byId, dealItems, rows, link, convert, order, drifted, mishaps>>

\* A closed document or line, or an event without items, ends the event for good.
Patchable(u) == (\A r \in rows : r.open) /\ order = {} /\ update[u].items # <<>>

PlanUpdate(u) ==
    /\ update[u].pc = "sent"
    /\ \E kind \in {"answered", "refused"} :
        /\ LineCall(kind)
        /\ \/ kind = "refused" /\ UpdateFails(u)
           \/ kind = "answered" /\ ~Patchable(u) /\ UpdateEnds(u, "errored")
           \/ /\ kind = "answered" /\ Patchable(u)
              /\ UpdateGoes(u, [update[u] EXCEPT !.pc = "patch", !.read = rows,
                                                 !.plan = PlanFor(update[u].items, link, rows)])
    /\ UNCHANGED <<byId, dealItems, rows, link, convert, order, drifted>>

\* SAP: an entry's row is updated, or made, the last entry winning; a row without entry is
\* removed.
ItemGiven(plan, num) == (Last(SelectSeq(plan, LAMBDA p : p.num = num))).item
Replaced(plan) ==
    {[num |-> num, open |-> TRUE, item |-> ItemGiven(plan, num),
      sku |-> IF num \in Nums(rows) /\ ~(\E p \in Range(plan) : p.num = num /\ p.new)
              THEN (CHOOSE r \in rows : r.num = num).sku ELSE Sku[ItemGiven(plan, num)]] :
        num \in {p.num : p \in Range(plan)}}

PatchRows(u) ==
    /\ update[u].pc = "patch"
    /\ \E kind \in {"answered", "refused", "lost"} :
        /\ LineCall(kind)
        /\ IF kind # "refused" /\ Patchable(u)
           THEN rows' = Replaced(update[u].plan) /\ drifted' = (drifted \/ rows' # rows)
           ELSE UNCHANGED <<rows, drifted>>
        /\ IF kind = "answered" /\ Patchable(u) THEN UpdateGoes(u, [update[u] EXCEPT !.pc = "reread"])
           ELSE UpdateFails(u)
    /\ UNCHANGED <<byId, dealItems, link, convert, order>>

RereadQuotation(u) ==
    /\ update[u].pc = "reread"
    /\ \E kind \in {"answered", "refused"} :
        /\ LineCall(kind)
        /\ IF kind = "answered" THEN UpdateGoes(u, [update[u] EXCEPT !.pc = "save", !.read = rows])
           ELSE UpdateFails(u)
    /\ UNCHANGED <<byId, dealItems, rows, link, convert, order, drifted>>

SaveLink(u) ==
    /\ update[u].pc = "save"
    /\ \E kind \in {"answered", "refused"} :
        /\ LineCall(kind)
        /\ IF kind = "answered"
           THEN /\ link' = FromSap(update[u].read, update[u].items)
                /\ drifted' = (Nums(update[u].read) # Nums(rows))
                /\ UpdateEnds(u, "done")
           ELSE UpdateFails(u) /\ UNCHANGED <<link, drifted>>
    /\ UNCHANGED <<byId, dealItems, rows, convert, order>>

-----------------------------------------------------------------------------
(* The conversion.                                                          *)

SendConvert ==
    /\ convert.pc = "unsent"
    /\ convert' = [convert EXCEPT !.pc = "sent", !.items = dealItems]
    /\ UNCHANGED <<byId, dealItems, rows, link, update, order, drifted, mishaps>>

\* Mutant: the fields go to the base lines by position.
ItemForPosition(items, lines) ==
    [num \in {l.num : l \in Range(lines)} |->
        LET n == CHOOSE n \in DOMAIN lines : lines[n].num = num
        IN IF n \in DOMAIN items THEN items[n] ELSE NoItem]

\* Mutant: only the base lines the event has an item for are ordered.
ItemForMatched(items, lines) ==
    [num \in {l.num : l \in {l \in Range(lines) : l.item \in Range(items)}} |-> NoItem]

\* resolveBaseLineOverrides: the item whose fields go to each base line.
ItemFor(items, lines) ==
    LET taken[n \in 0..Len(items)] ==
          IF n = 0 THEN {}
          ELSE LET num == RowOf(lines, {t.num : t \in taken[n-1]}, items[n])
               IN taken[n-1] \union (IF num = -1 THEN {} ELSE {[num |-> num, item |-> items[n]]})
    IN [num \in {l.num : l \in Range(lines)} |->
          IF \E t \in taken[Len(items)] : t.num = num
          THEN (CHOOSE t \in taken[Len(items)] : t.num = num).item ELSE NoItem]

BuildOrder ==
    /\ convert.pc = "sent" /\ order = {}
    /\ convert' = [convert EXCEPT !.pc = "post",
                                  !.plan = <<link, ItemFor(convert.items, link)>>]
    /\ UNCHANGED <<byId, dealItems, rows, link, update, order, drifted, mishaps>>

\* SAP refuses a base line that is not there, or is closed; the ones it takes are closed.
OrderLines == {[base |-> num, item |-> convert.plan[2][num]] : num \in DOMAIN convert.plan[2]}
Orderable(lines) == \A l \in lines : \E r \in rows : r.num = l.base /\ r.open

PostOrder ==
    /\ convert.pc = "post"
    /\ \E kind \in {"answered", "refused"} :
        /\ LineCall(kind)
        /\ IF kind = "answered" /\ OrderLines # {} /\ Orderable(OrderLines)
           THEN /\ order' = OrderLines
                /\ rows' = {[r EXCEPT !.open = r.num \notin {l.base : l \in OrderLines}] : r \in rows}
                /\ convert' = [convert EXCEPT !.pc = "done"]
           ELSE /\ convert' = [convert EXCEPT !.tries = @ + 1, !.plan = <<>>,
                                 !.pc = IF @ = "post" /\ convert.tries + 1 = MaxLineTries
                                        THEN "errored" ELSE "sent"]
                /\ UNCHANGED <<rows, order>>
    /\ UNCHANGED <<byId, dealItems, link, update, drifted>>

-----------------------------------------------------------------------------
(* People change the deal's line items, or the quotation in SAP.            *)

Edit == mishaps < MaxMishaps /\ mishaps' = mishaps + 1

ChangeDeal(items) ==
    /\ Edit /\ items # dealItems /\ dealItems' = items
    /\ UNCHANGED <<byId, rows, link, update, convert, order, drifted>>

AddLineItem == \E i \in LineItems \ Range(dealItems), n \in 1..(Len(dealItems) + 1) :
                  ChangeDeal(InsertAt(dealItems, n, i))
RemoveLineItem == \E n \in DOMAIN dealItems : ChangeDeal(RemoveAt(dealItems, n))
MoveLineItems == ChangeDeal(Reverse(dealItems))

ChangeRows(rs) ==
    /\ Edit /\ order = {} /\ rows' = rs
    /\ drifted' = (drifted \/ Nums(rs) # Nums(rows))
    /\ UNCHANGED <<byId, dealItems, link, update, convert, order>>

\* SAP gives a row typed there a number no row has had.
Numbered == Nums(rows) \union {l.num : l \in Range(link)}
            \union UNION {{p.num : p \in Range(update[u].plan)} : u \in Updates}

AddRow == \E i \in LineItems :
    /\ Max(Numbered) < MaxRow
    /\ ChangeRows(rows \union {[num |-> Max(Numbered) + 1, item |-> NoItem,
                                sku |-> Sku[i], open |-> TRUE]})
RemoveRow == \E r \in rows : r.open /\ Cardinality(rows) > 1 /\ ChangeRows(rows \ {r})
CloseRow == \E r \in rows : r.open /\ ChangeRows((rows \ {r}) \union {[r EXCEPT !.open = FALSE]})

LineNext ==
    \/ \E u \in Updates : \/ SendUpdate(u) \/ PlanUpdate(u) \/ PatchRows(u)
                          \/ RereadQuotation(u) \/ SaveLink(u)
    \/ SendConvert \/ BuildOrder \/ PostOrder
    \/ AddLineItem \/ RemoveLineItem \/ MoveLineItems
    \/ AddRow \/ RemoveRow \/ CloseRow

LineSpec == LineInit /\ [][LineNext]_lineVars

-----------------------------------------------------------------------------
\* The types of the state; a row number is that of one row.
LineTypeOK ==
    /\ \A r \in rows : r.num \in Nat /\ r.item \in LineItems \union {NoItem}
    /\ Cardinality(rows) = Cardinality(Nums(rows))
    /\ \A n \in DOMAIN link : link[n].item \in LineItems \union {NoItem}
    /\ \A u \in Updates : update[u].tries \in 0..MaxLineTries

Patching(u) == update[u].pc = "patch" /\ rows' # rows /\ update'[u].pc # "patch"

\* After an update's PATCH the quotation has one row for each line item of the event and no
\* other: no two items are sent to one row (usedLineNums, resolveNextLineNum).
OneRowPerItem ==
    [][\A u \in Updates : Patching(u) =>
          /\ Cardinality(rows') = Len(update[u].items)
          /\ {r.item : r \in rows'} = Range(update[u].items)]_lineVars

\* A new item never takes the number of a row SAP had when it was planned: "`length`
\* colisionaria con una fila viva y la sobreescribiria en silencio".
NewRowsAreNew ==
    \A u \in Updates : update[u].pc = "patch" =>
        \A p \in Range(update[u].plan) : p.new => p.num \notin Nums(update[u].read)

Alike(i, j) == j # NoItem /\ (Product[i] = Product[j] \/ Sku[i] = Sku[j])

\* An item whose row is known keeps it, so that what SAP's users wrote on the row stays with
\* the item, unless an item like it, earlier in the event, was matched to the row first.
RowsKeepTheirItem ==
    \A u \in Updates : update[u].pc = "patch" =>
        \A r \in update[u].read, n \in DOMAIN update[u].plan :
            LET p == update[u].plan[n]
            IN (p.num = r.num /\ r.item # NoItem /\ p.item # r.item) => Alike(p.item, r.item)

\* No item is linked to two rows, and a row the link knows is linked to its own item or to one
\* of the same sku: after an update the link is matched by sku only.
LinkPointsHome ==
    /\ \A m, n \in DOMAIN link : (link[m].item = link[n].item /\ link[m].item # NoItem) => m = n
    /\ \A n \in DOMAIN link : \A r \in rows :
          (r.num = link[n].num /\ r.item # NoItem /\ link[n].item # NoItem /\ ~drifted)
          => r.sku = link[n].sku

\* An order takes every row of the quotation, unless the rows have changed since the link was
\* written, by SAP's users or by an update that has not written it yet, or never did; or the
\* link has been rewritten since the conversion read it.
OutOfDate == drifted \/ convert.plan[1] # link

OrderIsWhole ==
    [][(order = {} /\ order' # {}) => \/ {l.base : l \in order'} = Nums(rows)
                                      \/ OutOfDate]_lineVars

\* What an advisor changed at conversion goes to the row of that item, or of one like it.
OrderFieldsGoHome ==
    [][(order = {} /\ order' # {} /\ ~OutOfDate) =>
         \A l \in order', r \in rows : (l.base = r.num /\ l.item # NoItem /\ r.item # NoItem)
                                       => l.item = r.item \/ Alike(l.item, r.item)]_lineVars
=============================================================================
