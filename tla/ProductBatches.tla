--------------------------- MODULE ProductBatches ---------------------------
(***************************************************************************)
(* The batched run over products: SendMappedItemsToHubspot                 *)
(* .processProductBatches with product.handler's preprocess, and the       *)
(* one-by-one path a refused batch falls back to.                          *)
(*                                                                         *)
(* A row is one product by price list (one-to-many-product.strategy): its  *)
(* hs_sku comes from a pattern, so two price lists may give two rows one   *)
(* sku, and a row may have none.  A payload carries a price and, when the  *)
(* tenant has one configured, a stock property the portal may not know.    *)
(* HubSpot keeps hs_sku unique (batch/read takes it for an id), answers a  *)
(* batch in an order of its own, and its search sees a record only later.  *)
(***************************************************************************)
EXTENDS Integers, Sequences, FiniteSets, SequencesExt, FiniteSetsExt

CONSTANTS RowList,      \* the rows in the order they are mapped
          NoSku,        \* the sku of a row without hs_sku
          ProductChunk, \* hubspotBatchSize
          MaxProductRuns, MaxProductFaults, MaxEdits, MaxIds

Rows == Range(RowList)

ASSUME RowsAreListed == RowList \in Seq(Rows)
ASSUME ChunksAreNotEmpty == ProductChunk \in Nat \ {0}
ASSUME IdsAreBounded == MaxIds \in Nat

VARIABLES sku,          \* sku[r]: hs_sku of the row
          price,        \* price[r]: what SAP has now
          stockKnown,   \* whether HubSpot knows the stock property
          products,     \* HubSpot's products: id, sku, price, stocked
          visible,      \* the ids HubSpot's search sees
          registered,   \* AssociationRegistry: sapId (the sku) and HubSpot id
          productRun,   \* the run: its step, what it read, its counters
          chunks,       \* its chunks: rows, step, row at work, id found, products of an
                        \* answer that are still to be registered
          outcome,      \* outcome[r]: what became of the row in this run
          made,         \* ids made by a write whose answer came back
          missed,       \* those whose registration failed, or died with the run
          runs, productFaults, edits

productVars == <<sku, price, stockKnown, products, visible, registered, productRun, chunks, outcome,
                 made, missed, runs, productFaults, edits>>

Idle == [pc |-> "idle", known |-> "unread", values |-> price, existing |-> {},
         sent |-> 0, failed |-> 0, left |-> {}, faulty |-> FALSE, upset |-> FALSE]

ProductInit ==
    /\ price = [r \in Rows |-> 0]
    /\ stockKnown \in BOOLEAN
    /\ products = {} /\ visible = {} /\ registered = {} /\ made = {} /\ missed = {}
    /\ productRun = Idle /\ chunks = <<>>
    /\ outcome = [r \in Rows |-> "none"]
    /\ runs = 0 /\ productFaults = 0 /\ edits = 0

-----------------------------------------------------------------------------
(* HubSpot. *)

Ids == {p.id : p \in products}
Top == Max(Ids \cup {0})
With(s) == {p \in products : p.sku = s /\ s # NoSku}

(* Mutant: nothing is dropped from a payload. *)
NeverDrops == TRUE

(* The stock property is in a payload unless the portal was read without it. *)
Carries == productRun.known # "lacks"

(* A write that names a property the portal does not have is refused whole. *)
Nameable == Carries => stockKnown

Product(id, r) == [id |-> id, sku |-> sku[r], price |-> productRun.values[r], stocked |-> Carries]
(* Mutant: every update sets a stock. *)
OverwrittenWhole(p, r) == [p EXCEPT !.price = productRun.values[r], !.stocked = TRUE]
Overwritten(p, r) == [p EXCEPT !.price = productRun.values[r], !.stocked = @ \/ Carries]

Repeats(rs) == \E i, j \in DOMAIN rs : i # j /\ sku[rs[i]] = sku[rs[j]] /\ sku[rs[i]] # NoSku
SkuTaken(rs) == \E i \in DOMAIN rs : With(sku[rs[i]]) # {}

ProductFault(kind) == kind # "answered" => productFaults < MaxProductFaults
Spend(kind) == productFaults' = productFaults + (IF kind = "answered" THEN 0 ELSE 1)

-----------------------------------------------------------------------------
(* The run. *)

StartRun ==
    /\ productRun.pc \in {"idle", "over"} /\ runs < MaxProductRuns
    /\ productRun' = [Idle EXCEPT !.pc = "known"]
    /\ runs' = runs + 1 /\ chunks' = <<>>
    /\ outcome' = [r \in Rows |-> "none"]
    /\ UNCHANGED <<sku, price, stockKnown, products, visible, registered, made, missed, productFaults, edits>>

(* resolveKnownProperties: a list that cannot be read drops nothing. *)
ReadKnown(kind) ==
    /\ productRun.pc = "known" /\ ProductFault(kind) /\ Spend(kind)
    /\ productRun' = [productRun EXCEPT !.pc = "read",
                          !.faulty = kind # "answered",
                          !.known = IF kind # "answered" THEN "unread"
                                    ELSE IF stockKnown THEN "has" ELSE "lacks"]
    /\ UNCHANGED <<sku, price, stockKnown, products, visible, registered, chunks, outcome, made, missed,
                   runs, edits>>

(* Mutant: prices are not compared. *)
StockUnchanged(r, p) == Carries => p.stocked

(* productPropertiesUnchanged: every property about to be sent is there. *)
Unchanged(r, p) == p.price = productRun.values[r] /\ (Carries => p.stocked)

Known(r) == With(sku[r])

(* The rows of a set, in the order they are listed. *)
Before(n, chosen) == {m \in 1 .. n : RowList[m] \in chosen}
Listed(chosen) ==
    [k \in 1 .. Cardinality(Before(Len(RowList), chosen)) |->
        RowList[CHOOSE n \in DOMAIN RowList :
                  RowList[n] \in chosen /\ Cardinality(Before(n, chosen)) = k]]

ToCreate == Listed({r \in Rows : sku[r] = NoSku}) \o
            Listed({r \in Rows : sku[r] # NoSku /\ Known(r) = {}})
ToUpdate == Listed({r \in Rows : \E p \in Known(r) : ~Unchanged(r, p)})
(* Mutant: rows without a change are left out of the count. *)
NoneSkipped == {}
SkippedRow == {r \in Rows : \E p \in Known(r) : Unchanged(r, p)}

Chunk(kind, rs) == [kind |-> kind, rows |-> rs, at |-> 1, found |-> 0, results |-> {},
                    pc |-> IF kind = "items" THEN "find" ELSE "batch"]
Chunks(kind, rs) ==
    [i \in 1..((Len(rs) + ProductChunk - 1) \div ProductChunk) |->
        Chunk(kind, SubSeq(rs, (i - 1) * ProductChunk + 1, Min({i * ProductChunk, Len(rs)})))]

(* readExistingProductsBySku; when it fails the whole run goes one by one. *)
ReadExisting(kind) ==
    /\ productRun.pc = "read" /\ ProductFault(kind) /\ Spend(kind)
    /\ \/ /\ kind = "answered"
          /\ productRun' = [productRun EXCEPT !.pc = "create", !.existing = products,
                                !.sent = Cardinality(SkippedRow)]
          /\ chunks' = Chunks("create", ToCreate) \o Chunks("update", ToUpdate)
          /\ outcome' = [r \in Rows |-> IF r \in SkippedRow THEN "sent" ELSE "none"]
       \/ /\ kind = "refused"
          /\ productRun' = [productRun EXCEPT !.pc = "create", !.faulty = TRUE]
          /\ chunks' = <<Chunk("items", RowList)>>
          /\ UNCHANGED outcome
    /\ UNCHANGED <<sku, price, stockKnown, products, visible, registered, made, missed, runs, edits>>

Turn(c) == /\ productRun.pc \in {"create", "update"}
           /\ (chunks[c].kind = "update") = (productRun.pc = "update")

(* The rows a partial answer (207) leaves out of it. *)
LeftOut(gone) == [productRun EXCEPT !.left = @ \cup gone, !.faulty = @ \/ gone # {}]

(* A chunk that is answered counts whole, the rows left out too. *)
SentAll(c, rs, gone) ==
    /\ productRun' = [LeftOut(gone) EXCEPT !.sent = @ + Len(rs)]
    /\ outcome' = [r \in Rows |-> IF r \in Range(rs) THEN "sent" ELSE outcome[r]]
    /\ chunks' = [chunks EXCEPT ![c].pc = "done"]

(* The chunk's rows go one by one. *)
FallBack(c, kind) == /\ chunks' = [chunks EXCEPT ![c].pc = "find"]
                     /\ productRun' = [productRun EXCEPT !.faulty = @ \/ kind # "answered"]
                     /\ UNCHANGED outcome

(* Mutant: results are taken to be in the order of the inputs. *)
ByItsPosition(p, rs, pos) == {pos}

(* finalizeCreatedProductBatch: an id belongs to the row whose sku it has.  *)
RowOfResult(p, rs, pos) == {i \in DOMAIN rs : sku[rs[i]] = p.sku /\ p.sku # NoSku}

(* What one result of a chunk registers: pos is its place in the answer.    *)
Registration(c, p) ==
    LET rs == chunks[c].rows
        pos == Len(rs) - Cardinality(chunks[c].results) + 1
    IN {[sapId |-> sku[rs[i]], id |-> p.id] : i \in RowOfResult(p, rs, pos)}

Refusable(rs) == ~Nameable \/ Repeats(rs) \/ SkuTaken(rs)

(* The products of an answer, in the chunk's hands until each is registered. *)
Take(c, pc, results) ==
    /\ chunks' = [chunks EXCEPT ![c].pc = pc, ![c].results = results]
    /\ made' = made \cup {p.id : p \in results}
    /\ UNCHANGED outcome

(* One batch/create.  A partial answer leaves one row out of it; a lost     *)
(* answer leaves the products there.                                        *)
BatchCreate(c, kind) ==
    LET rs == chunks[c].rows
        all == [i \in DOMAIN rs |-> Product(Top + i, rs[i])]
    IN /\ Turn(c) /\ chunks[c].pc = "batch" /\ chunks[c].kind = "create"
       /\ Top + Len(rs) <= MaxIds
       /\ ProductFault(kind) /\ Spend(kind)
       /\ IF Refusable(rs) \/ kind = "refused"
          THEN /\ kind = (IF Refusable(rs) THEN "answered" ELSE "refused")
               /\ FallBack(c, kind)
               /\ UNCHANGED <<products, made>>
          ELSE \E left \in IF kind = "partial" THEN DOMAIN rs ELSE {0} :
               LET kept == {all[i] : i \in DOMAIN rs \ {left}}
                   gone == IF left = 0 THEN {} ELSE {rs[left]}
               IN /\ products' = products \cup kept
                  /\ IF kind = "lost"
                     THEN FallBack(c, kind) /\ UNCHANGED made
                     ELSE Take(c, "register", kept) /\ productRun' = LeftOut(gone)
       /\ UNCHANGED <<sku, price, stockKnown, visible, registered, missed, runs, edits>>

(* registerBaseObjectMapping, for the next result of the answer, which comes *)
(* in an order of HubSpot's own: an error is swallowed.                      *)
RegisterResult(c, kind) ==
    /\ Turn(c) /\ chunks[c].pc = "register" /\ ProductFault(kind) /\ Spend(kind)
    /\ \E p \in chunks[c].results :
         /\ chunks' = [chunks EXCEPT ![c].results = @ \ {p}]
         /\ IF kind = "answered"
            THEN registered' = registered \cup Registration(c, p) /\ UNCHANGED missed
            ELSE missed' = missed \cup {p.id} /\ UNCHANGED registered
    /\ UNCHANGED <<sku, price, stockKnown, products, visible, productRun, outcome, made, runs, edits>>

BatchRegistered(c) ==
    /\ Turn(c) /\ chunks[c].pc = "register" /\ chunks[c].results = {}
    /\ SentAll(c, chunks[c].rows, {})
    /\ UNCHANGED <<sku, price, stockKnown, products, visible, registered, made, missed, runs,
                   productFaults, edits>>

(* The ids the update writes to are those of the read. *)
ProductRead(r) == CHOOSE p \in productRun.existing : p.sku = sku[r]

BatchUpdate(c, kind) ==
    LET rs == chunks[c].rows
        ids == {ProductRead(rs[i]).id : i \in DOMAIN rs}
        Clash == ~Nameable \/ Cardinality(ids) < Len(rs)
    IN /\ Turn(c) /\ chunks[c].pc = "batch" /\ chunks[c].kind = "update"
       /\ ProductFault(kind) /\ Spend(kind)
       /\ IF Clash \/ kind = "refused"
          THEN /\ kind = (IF Clash THEN "answered" ELSE "refused")
               /\ FallBack(c, kind)
               /\ UNCHANGED products
          ELSE \E left \in IF kind = "partial" THEN DOMAIN rs ELSE {0} :
               LET gone == IF left = 0 THEN {} ELSE {rs[left]}
                   At(id) == CHOOSE i \in DOMAIN rs : ProductRead(rs[i]).id = id
               IN /\ products' = {IF p.id \in ids /\ At(p.id) # left
                                  THEN Overwritten(p, rs[At(p.id)]) ELSE p : p \in products}
                  /\ IF kind = "lost" THEN FallBack(c, kind) ELSE SentAll(c, rs, gone)
       /\ UNCHANGED <<sku, price, stockKnown, visible, registered, made, missed, runs, edits>>

-----------------------------------------------------------------------------
(* One row of processItemsSequentially. *)

ProductRow(c) == chunks[c].rows[chunks[c].at]
Onward(c) == IF chunks[c].at = Len(chunks[c].rows)
             THEN [chunks EXCEPT ![c].pc = "done", ![c].results = {}]
             ELSE [chunks EXCEPT ![c].pc = "find", ![c].at = @ + 1, ![c].results = {}]
Told(c, what, kind) ==
    /\ chunks' = Onward(c)
    /\ productRun' = [productRun EXCEPT !.faulty = @ \/ kind # "answered",
                          !.sent = @ + (IF what = "sent" THEN 1 ELSE 0),
                          !.failed = @ + (IF what = "failed" THEN 1 ELSE 0)]
    /\ outcome' = [outcome EXCEPT ![ProductRow(c)] = what]

(* find: the search by sku, which may not see what was just made. *)
FindItem(c, kind) ==
    /\ Turn(c) /\ chunks[c].pc = "find" /\ ProductFault(kind) /\ Spend(kind)
    /\ IF kind # "answered" THEN Told(c, "failed", kind)
       ELSE /\ \E id \in IF \E p \in With(sku[ProductRow(c)]) : p.id \in visible
                         THEN {p.id : p \in With(sku[ProductRow(c)])} ELSE {0} :
                 chunks' = [chunks EXCEPT ![c].pc = "write", ![c].found = id]
            /\ UNCHANGED <<productRun, outcome>>
    /\ UNCHANGED <<sku, price, stockKnown, products, visible, registered, made, missed, runs, edits>>

UpdateProduct(c, kind) ==
    /\ Turn(c) /\ chunks[c].pc = "write" /\ chunks[c].found # 0 /\ ProductFault(kind)
    /\ IF ~Nameable \/ kind = "refused"
       THEN /\ kind \in {"answered", "refused"} /\ Told(c, "failed", kind) /\ Spend(kind)
            /\ UNCHANGED products
       ELSE /\ Spend(kind)
            /\ products' = {IF p.id = chunks[c].found THEN Overwritten(p, ProductRow(c)) ELSE p :
                              p \in products}
            /\ Told(c, IF kind = "lost" THEN "failed" ELSE "sent", kind)
    /\ UNCHANGED <<sku, price, stockKnown, visible, registered, made, missed, runs, edits>>

CreateProduct(c, kind) ==
    LET r == ProductRow(c)
        p == Product(Top + 1, r)
    IN /\ Turn(c) /\ chunks[c].pc = "write" /\ chunks[c].found = 0
       /\ ProductFault(kind) /\ Spend(kind) /\ Top < MaxIds
       /\ IF ~Nameable \/ With(sku[r]) # {} \/ kind = "refused"
          THEN /\ kind \in {"answered", "refused"} /\ Told(c, "failed", kind)
               /\ UNCHANGED <<products, made>>
          ELSE /\ products' = products \cup {p}
               /\ IF kind = "lost" THEN Told(c, "failed", kind) /\ UNCHANGED made
                  ELSE Take(c, "enter", {p}) /\ UNCHANGED productRun
       /\ UNCHANGED <<sku, price, stockKnown, visible, registered, missed, runs, edits>>

(* registerBaseMapping, after the answer: nothing for a row without sku, and *)
(* an error is swallowed.                                                    *)
Mapping(r, id) == IF sku[r] = NoSku THEN {} ELSE {[sapId |-> sku[r], id |-> id]}

RegisterProduct(c, kind) ==
    /\ Turn(c) /\ chunks[c].pc = "enter" /\ ProductFault(kind) /\ Spend(kind)
    /\ \E p \in chunks[c].results :
         IF kind = "answered"
         THEN registered' = registered \cup Mapping(ProductRow(c), p.id) /\ UNCHANGED missed
         ELSE missed' = missed \cup {p.id} /\ UNCHANGED registered
    /\ Told(c, "sent", "answered")
    /\ UNCHANGED <<sku, price, stockKnown, products, visible, made, runs, edits>>

ProductFinished(kinds) == \A c \in DOMAIN chunks : chunks[c].kind \in kinds => chunks[c].pc = "done"

(* The creates are all over before the first update starts. *)
BeginProductUpdates ==
    /\ productRun.pc = "create" /\ ProductFinished({"create", "items"})
    /\ productRun' = [productRun EXCEPT !.pc = "update"]
    /\ UNCHANGED <<sku, price, stockKnown, products, visible, registered, chunks, outcome, made, missed,
                   runs, productFaults, edits>>

EndProductRun ==
    /\ productRun.pc = "update" /\ ProductFinished({"update"})
    /\ productRun' = [productRun EXCEPT !.pc = "over"]
    /\ UNCHANGED <<sku, price, stockKnown, products, visible, registered, chunks, outcome, made, missed,
                   runs, productFaults, edits>>

(* The process dies at any step: what it had in hand is not registered.      *)
ToRegister == UNION {chunks[c].results : c \in DOMAIN chunks}

RunDies ==
    /\ productRun.pc \notin {"idle", "over"} /\ productFaults < MaxProductFaults
    /\ productFaults' = productFaults + 1
    /\ productRun' = Idle /\ chunks' = <<>>
    /\ missed' = missed \cup {p.id : p \in ToRegister}
    /\ outcome' = [r \in Rows |-> "none"]
    /\ UNCHANGED <<sku, price, stockKnown, products, visible, registered, made, runs, edits>>

(* What others do: SAP changes a price, the portal's stock property comes   *)
(* or goes, the search catches up.                                          *)
PriceChanges(r) ==
    /\ productRun.pc \in {"idle", "over"} /\ edits < MaxEdits
    /\ price' = [price EXCEPT ![r] = 1 - @] /\ edits' = edits + 1
    /\ UNCHANGED <<sku, stockKnown, products, visible, registered, productRun, chunks, outcome, made,
                   missed, runs, productFaults>>

PortalChanges ==
    /\ edits < MaxEdits /\ edits' = edits + 1
    /\ stockKnown' = ~stockKnown
    /\ products' = {[p EXCEPT !.stocked = FALSE] : p \in products}
    /\ productRun' = [productRun EXCEPT !.upset = TRUE]
    /\ UNCHANGED <<sku, price, visible, registered, chunks, outcome, made, missed, runs, productFaults>>

Index == /\ visible # Ids /\ visible' = Ids
         /\ UNCHANGED <<sku, price, stockKnown, products, registered, productRun, chunks, outcome,
                        made, missed, runs, productFaults, edits>>

Kinds == {"answered", "refused", "partial", "lost"}

ProductNext ==
    \/ StartRun \/ BeginProductUpdates \/ EndProductRun \/ RunDies \/ Index \/ PortalChanges
    \/ \E kind \in {"answered", "refused"} : ReadKnown(kind) \/ ReadExisting(kind)
    \/ \E r \in Rows : PriceChanges(r)
    \/ \E c \in DOMAIN chunks, kind \in Kinds :
         BatchCreate(c, kind) \/ BatchUpdate(c, kind)
    \/ \E c \in DOMAIN chunks, kind \in {"answered", "refused", "lost"} :
         UpdateProduct(c, kind) \/ CreateProduct(c, kind)
    \/ \E c \in DOMAIN chunks, kind \in {"answered", "refused"} :
         FindItem(c, kind) \/ RegisterResult(c, kind) \/ RegisterProduct(c, kind)
    \/ \E c \in DOMAIN chunks : BatchRegistered(c)

ProductSpec == ProductInit /\ [][ProductNext]_productVars

-----------------------------------------------------------------------------

ProductTypeOK ==
    /\ price \in [Rows -> 0..1] /\ stockKnown \in BOOLEAN
    /\ \A p \in products : /\ p.id \in 1..MaxIds /\ p.price \in 0..1 /\ p.stocked \in BOOLEAN
                           /\ p.stocked => stockKnown
    /\ visible \subseteq Ids /\ made \subseteq Ids /\ missed \subseteq made
    /\ productRun.pc \in {"idle", "known", "read", "create", "update", "over"}
    /\ productRun.known \in {"unread", "has", "lacks"}
    /\ outcome \in [Rows -> {"none", "sent", "failed"}]
    /\ productFaults \in 0..MaxProductFaults /\ edits \in 0..MaxEdits /\ runs \in 0..MaxProductRuns

Over == productRun.pc = "over"
Twins(r) == {q \in Rows : sku[q] = sku[r] /\ (sku[r] # NoSku \/ q = r)}

(* The counters a run reports are those of its rows, each told once, sent   *)
(* or failed, whichever of its paths a row took.                            *)
CountsAddUp ==
    Over => /\ productRun.sent = Cardinality({r \in Rows : outcome[r] = "sent"})
            /\ productRun.failed = Cardinality({r \in Rows : outcome[r] = "failed"})
            /\ productRun.sent + productRun.failed = Len(RowList)

(* A row told sent, unless a partial answer left it out, is in HubSpot with *)
(* the price the run was given for that sku and, where the portal has the   *)
(* stock property and kept it, with its stock: nothing is skipped that      *)
(* differs, nothing taken for written that was refused.                     *)
SentIsThere ==
    Over => \A r \in Rows : outcome[r] = "sent" /\ r \notin productRun.left /\ sku[r] # NoSku =>
              \E p \in With(sku[r]) :
                /\ p.price \in {productRun.values[q] : q \in Twins(r)}
                /\ productRun.known = "has" /\ ~productRun.upset => p.stocked

(* Whatever the order of an answer, the registry ties a sku to the product  *)
(* that has it.  A product made by an answered write is in it, or about to  *)
(* be, unless its own registration failed or the process died before: no    *)
(* failure of another's, and no answer in part, leaves it out.              *)
RegistryPointsHome ==
    /\ \A m \in registered : \E p \in products : p.id = m.id /\ p.sku = m.sapId
    /\ \A p \in products : p.id \in made \ missed /\ p.sku # NoSku =>
          p.id \in {q.id : q \in ToRegister} \/ [sapId |-> p.sku, id |-> p.id] \in registered

(* A row fails for a reason of its own: a call of the run failed, the       *)
(* portal changed under it, or another row has its sku.  A property the     *)
(* portal lacks costs no product.                                           *)
FailuresExplained ==
    \A r \in Rows : outcome[r] = "failed" =>
        productRun.faulty \/ productRun.upset \/ Cardinality(Twins(r)) > 1

(* What hubspotBatching.utils says of a partial answer (a batch that        *)
(* answers 207 is not counted as a full success): a row it left out is not  *)
(* counted as sent.                                                         *)
PartialIsNotSent == Over => \A r \in productRun.left : outcome[r] # "sent"

=============================================================================
