----------------------------- MODULE MCDocuments -----------------------------
(***************************************************************************)
(* Instance for TLC of BusinessPartners, of QuotationLines, and of the     *)
(* tables a document's codes pass through (Homologation and DealStages),   *)
(* each explored with the others at rest: the partner is settled before a  *)
(* document is made, and they share no state.                              *)
(*                                                                         *)
(* Partners: a company SAP does not know; one it knows under a code that   *)
(* HubSpot lacks or has wrong, with one of the contacts under another      *)
(* internal code; one both know with its two contacts.  Quotations: two    *)
(* items of different products, and a third that is like the first.        *)
(***************************************************************************)
EXTENDS BusinessPartners, QuotationLines, Homologation, DealStages

CONSTANTS e1, e2, x, y, Old, i1, i2, i3, product1, product2, sku1, sku2

VARIABLE explored

MCContactList == <<x, y>>
Employee(c, code) == [key |-> c, code |-> code, val |-> 0]
Partner(staff) == {[card |-> Own, staff |-> staff]}
HubspotCodes(cx) == [c \in Contacts |-> IF c = x THEN cx ELSE 0]
UnknownCode == MaxCodes + 9

Unknown == idsap = None /\ partners = {} /\ hired = 0 /\ internal = HubspotCodes(0)
Mislinked == /\ idsap \in {None, Old} /\ partners = Partner({Employee(x, 1)}) /\ hired = 1
             /\ internal = HubspotCodes(UnknownCode)
             /\ ~rules.nested
Known == /\ idsap = Own /\ partners = Partner({Employee(x, 1), Employee(y, 2)}) /\ hired = 2
         /\ internal = HubspotCodes(1)
         /\ rules.keyed /\ rules.generated /\ ~rules.nested /\ ~rules.bypass
AtRest == Unknown /\ rules = [generated |-> TRUE, nested |-> FALSE, upsert |-> TRUE,
                              bypass |-> FALSE, keyed |-> TRUE, replaces |-> TRUE]

MCLineItems == {i1, i2, i3}
MCProduct == [i \in MCLineItems |-> IF i = i3 THEN product2 ELSE product1]
MCSku == [i \in MCLineItems |-> IF i = i3 THEN sku2 ELSE sku1]
MCFirstItems == <<i1, i3>>

-----------------------------------------------------------------------------
\* Homologation and DealStages.

CONSTANTS h1, h2

VARIABLE studied

MaxEditsOfRuns == 2

MCOwners == {h1, h2}
MCTexts == {<<"10">>, <<"20">>, <<"10", "20">>, <<"">>}
MCPipelineOf == [s \in {"s1", "s2", "t1"} |-> IF s = "t1" THEN "q" ELSE "p"]

\* The table does not depend on the runs; the two owners are alike, and a run has one upsert
\* at a time beside it.
HomologationInit ==
    \/ studied \in {"table", "runs"} /\ OwnerInit /\ StageInit /\ required
       /\ named = [pipeline |-> NoOrderKey, stage |-> NoOrderKey]
       /\ dealOwner = h1
       /\ IF studied = "table" THEN flavor = "B1" /\ field = "user"
          ELSE <<flavor, field>> \in {<<"B1", "user">>, <<"B1", "both">>, <<"S4", "deal">>}
    \/ studied = "stages" /\ StageInit /\ OwnerInit
       /\ flavor = "B1" /\ field = "user" /\ dealOwner = h1

TableNext ==
    \/ SeedOwners \/ CreateRow \/ PatchRow \/ DeleteRow
    \/ \E a \in Admins : UpsertFinds(a) \/ UpsertSaves(a)
    \/ OwnerLeaves

RunsNext ==
    \/ SeedOwners \/ CreateRow \/ PatchRow \/ DeleteRow
    \/ \E a \in Admins : /\ \A b \in Admins \ {a} : request[b] = NoRequest
                         /\ UpsertFinds(a) \/ UpsertSaves(a)
    \/ OwnerLeaves \/ SomeoneReassigns \/ SapReassigns \/ WriteDocument
    \/ FetchRecord \/ LoadDirectory \/ PreprocessOwner \/ WriteRecord

HomologationNext ==
    /\ UNCHANGED studied
    /\ \/ studied = "table" /\ TableNext /\ UNCHANGED stageVars
       \/ studied = "runs" /\ RunsNext /\ tableEdits' <= MaxEditsOfRuns /\ UNCHANGED stageVars
       \/ studied = "stages" /\ StageNext /\ UNCHANGED ownerVars

HomologationSpec == HomologationInit /\ [][HomologationNext]_<<ownerVars, stageVars, studied>>

\* The tables that are not explored wait in one of their initial states.
MappingsRest ==
    /\ studied = "stages" /\ dealOwner = h1 /\ flavor = "B1" /\ field = "user"
    /\ named = [pipeline |-> NoOrderKey, stage |-> NoOrderKey] /\ required = TRUE
    /\ HomologationInit

-----------------------------------------------------------------------------
\* One component at a time.

MCInit ==
    /\ PartnerInit /\ LineInit
    /\ \/ /\ explored = "partners" /\ byId
          /\ ~(rules.nested /\ rules.bypass)
          /\ Unknown \/ Mislinked \/ Known
          /\ PartnerHoldings
          /\ MappingsRest
       \/ explored = "lines" /\ AtRest /\ MappingsRest
       \/ explored = "mappings" /\ AtRest /\ byId /\ HomologationInit

MCNext ==
    /\ UNCHANGED explored
    /\ \/ /\ explored = "partners" /\ PartnerNext
          /\ UNCHANGED <<lineVars, ownerVars, stageVars, studied>>
       \/ /\ explored = "lines" /\ LineNext
          /\ UNCHANGED <<partnerVars, ownerVars, stageVars, studied>>
       \/ explored = "mappings" /\ HomologationNext /\ UNCHANGED <<partnerVars, lineVars>>

MCSpec == MCInit /\ [][MCNext]_<<partnerVars, lineVars, ownerVars, stageVars, studied, explored>>
Symmetry == Permutations(Events) \union Permutations(Updates) \union Permutations(Admins)
=============================================================================
