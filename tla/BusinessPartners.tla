--------------------------- MODULE BusinessPartners ---------------------------
(***************************************************************************)
(* The business partner a deal's document is made for, and its contact     *)
(* employees (resolveBusinessPartnerForDocument over                       *)
(* SapWebhookOrderAdapter): find the partner by its code, then by the      *)
(* tenant's field, else create it; write its code back to HubSpot; then    *)
(* reconcile the contacts one by one, each PATCH carrying the whole array  *)
(* of employees as it was last read.  Only then is the document made.      *)
(*                                                                         *)
(* Several events of one company may be processed at once, each with the   *)
(* payload HubSpot sent it.  A call can be refused, or carried out and its *)
(* answer lost.  An employee's fields are one value, which HubSpot numbers.*)
(***************************************************************************)
EXTENDS Integers, Sequences, FiniteSets, SequencesExt, FiniteSetsExt

CONSTANTS Events,        \* the webhook events of one company
          ContactList,   \* its contacts, in the order a payload lists them
          None, Own,     \* no CardCode; the one generated from the company's id
          MaxPartners, MaxCodes, MaxTries, MaxIncidents

ASSUME ContactsAssumption == ContactList \in Seq(Range(ContactList))

VARIABLES rules,       \* the tenant's settings, and whether SAP's PATCH replaces the array
          idsap,       \* the company's idsap in HubSpot
          internal,    \* internal[c]: the contact's internalcode in HubSpot, 0 for none
          value,       \* value[c]: what the contact's fields hold in HubSpot
          partners,    \* SAP's partners: card, staff (employees: key, code, val)
          hired,       \* the internal codes SAP has given out: 1..hired
          doing,       \* doing[e]: the processing of an event
          overtaken,   \* the events whose copy of the employees, or whose own
                        \* append, another write of the array has put out of date
          incidents    \* failed calls, and edits by people

partnerVars == <<rules, idsap, internal, value, partners, hired, doing, overtaken,
                 incidents>>
hubspotSide == <<rules, idsap, internal, value>>

Contacts == Range(ContactList)
Cards == {p.card : p \in partners}
Staff(card) == UNION {p.staff : p \in {q \in partners : q.card = card}}
Codes(staff) == {s.code : s \in staff}

NoCodes == [c \in Contacts |-> 0]
Unsent == [pc |-> "unsent", tries |-> 0, card |-> None, code |-> NoCodes, val |-> NoCodes,
           partner |-> None, made |-> FALSE, searched |-> FALSE, seen |-> {}, staff |-> {},
           todo |-> <<>>, codes |-> NoCodes, errors |-> {}]

\* Nothing of an attempt is kept for the next but the payload.
Unread(d) == [d EXCEPT !.partner = None, !.made = FALSE, !.searched = FALSE, !.seen = {},
                       !.staff = {}, !.todo = <<>>, !.codes = NoCodes, !.errors = {}]

PartnerInit ==
    /\ rules \in [generated : BOOLEAN, nested : BOOLEAN, upsert : BOOLEAN, bypass : BOOLEAN,
                  keyed : BOOLEAN, replaces : BOOLEAN]
    /\ value = [c \in Contacts |-> 1]
    /\ doing = [e \in Events |-> Unsent]
    /\ overtaken = {}
    /\ incidents = 0

\* What SAP may hold at first.
PartnerHoldings ==
    /\ \A p \in partners : /\ DOMAIN p = {"card", "staff"}
                           /\ p.staff \subseteq [key : Contacts, code : 1..hired, val : Nat]
    /\ hired \in Nat

-----------------------------------------------------------------------------
(* A call is answered, refused, or carried out without its answer arriving. *)

Call(kind) == /\ kind # "answered" => incidents < MaxIncidents
              /\ incidents' = incidents + (IF kind = "answered" THEN 0 ELSE 1)

Goes(e, next) == doing' = [doing EXCEPT ![e] = next]

\* A failed attempt is tried again from the start with the event's payload.
Fails(e) ==
    Goes(e, [Unread(doing[e]) EXCEPT !.tries = @ + 1,
                                     !.pc = IF doing[e].tries + 1 = MaxTries THEN "errored" ELSE "card"])

\* HubSpot sends the event with what the company and its contacts hold.
Arrive(e) ==
    /\ doing[e].pc = "unsent"
    /\ Goes(e, [doing[e] EXCEPT !.pc = "card", !.card = idsap, !.code = internal, !.val = value])
    /\ UNCHANGED <<hubspotSide, partners, hired, overtaken, incidents>>

Taken(e, card, pc) ==
    /\ Goes(e, [doing[e] EXCEPT !.pc = pc, !.partner = card, !.staff = Staff(card),
                                !.todo = ContactList])
    /\ overtaken' = overtaken \ {e}

\* findBusinessPartnerByCardCode: only a code HubSpot sent is looked for.
FindByCard(e) ==
    /\ doing[e].pc = "card"
    /\ \E kind \in {"answered", "refused"} :
        /\ Call(kind)
        /\ \/ kind = "refused" /\ doing[e].card # None /\ Fails(e) /\ UNCHANGED overtaken
           \/ /\ kind = "answered" /\ doing[e].card \in Cards
              /\ Taken(e, doing[e].card, "link")
           \/ /\ kind = "answered" /\ doing[e].card \notin Cards
              /\ Goes(e, [doing[e] EXCEPT !.pc = "field"]) /\ UNCHANGED overtaken
    /\ UNCHANGED <<hubspotSide, partners, hired>>

\* Mutant: the tenant's field is never looked up.
NoFieldLookup == {}

\* findBusinessPartnerByField: nothing is looked for when the company has no value for it.
ByField == IF rules.keyed THEN Cards ELSE {}

FindByField(e) ==
    /\ doing[e].pc = "field"
    /\ \E kind \in {"answered", "refused"} :
        /\ Call(kind)
        /\ \/ kind = "refused" /\ rules.keyed /\ Fails(e) /\ UNCHANGED overtaken
           \/ \E card \in ByField :
                /\ kind = "answered"
                /\ Goes(e, [doing[e] EXCEPT !.pc = "link", !.partner = card, !.searched = TRUE,
                                            !.staff = Staff(card), !.todo = ContactList])
                /\ overtaken' = overtaken \ {e}
           \/ /\ kind = "answered" /\ ByField = {}
              /\ Goes(e, [doing[e] EXCEPT !.pc = "create", !.seen = Cards]) /\ UNCHANGED overtaken
    /\ UNCHANGED <<hubspotSide, partners, hired>>

\* The CardCode of a new partner; without one, SAP numbers it from the tenant's series.
NewCard(e) == IF doing[e].card # None THEN doing[e].card
              ELSE IF rules.generated THEN Own
              ELSE CHOOSE n \in 1..MaxPartners : n \notin Cards /\ \A m \in 1..(n-1) : m \in Cards

\* Mutant: nested contacts are all numbered alike.
FirstStaffOneCode(e) ==
    IF rules.nested
    THEN {[key |-> ContactList[i], code |-> hired + 1, val |-> doing[e].val[ContactList[i]]] :
            i \in DOMAIN ContactList}
    ELSE {}

\* The strategy that nests the contacts sends them all in the POST.
FirstStaff(e) ==
    IF rules.nested
    THEN {[key |-> ContactList[i], code |-> hired + i, val |-> doing[e].val[ContactList[i]]] :
            i \in DOMAIN ContactList}
    ELSE {}

\* SAP refuses a CardCode that exists.
Create(e) ==
    /\ doing[e].pc = "create"
    /\ Cardinality(partners) < MaxPartners
    /\ \E kind \in {"answered", "refused", "lost"} :
        /\ Call(kind)
        /\ IF kind # "refused" /\ NewCard(e) \notin Cards
           THEN /\ partners' = partners \union {[card |-> NewCard(e), staff |-> FirstStaff(e)]}
                /\ hired' = hired + (IF rules.nested THEN Len(ContactList) ELSE 0)
           ELSE UNCHANGED <<partners, hired>>
        /\ IF kind = "answered" /\ NewCard(e) \notin Cards
           THEN Goes(e, [doing[e] EXCEPT !.pc = "fetch", !.partner = NewCard(e), !.made = TRUE])
           ELSE Fails(e)
    /\ UNCHANGED <<hubspotSide, overtaken>>

FetchCreated(e) ==
    /\ doing[e].pc = "fetch"
    /\ \E kind \in {"answered", "refused"} :
        /\ Call(kind)
        /\ IF kind = "answered" THEN Taken(e, doing[e].partner, "link")
           ELSE Fails(e) /\ UNCHANGED overtaken
    /\ UNCHANGED <<hubspotSide, partners, hired>>

\* Mutant: a partner just made is not told to HubSpot.
SyncsFoundId(e) == doing[e].searched /\ doing[e].card = None

\* resolveBusinessPartnerSyncPlan
SyncsId(e) == doing[e].made \/ (doing[e].searched /\ doing[e].card = None)

AfterLink(e) == [doing[e] EXCEPT !.pc = "contacts",
                                 !.card = IF doing[e].made THEN doing[e].partner ELSE @,
                                 !.todo = IF doing[e].made /\ rules.nested THEN <<>> ELSE @]

\* The code goes to HubSpot, then, for a partner just made, into the stored payload.
LinkPartner(e) ==
    /\ doing[e].pc = "link"
    /\ \E kind \in (IF SyncsId(e) THEN {"answered", "refused", "lost"} ELSE {"answered"}) :
        /\ Call(kind)
        /\ idsap' = IF SyncsId(e) /\ kind # "refused" THEN doing[e].partner ELSE idsap
        /\ IF kind = "answered" THEN Goes(e, AfterLink(e)) ELSE Fails(e)
    /\ UNCHANGED <<rules, internal, value, partners, hired, overtaken>>

-----------------------------------------------------------------------------
(* The contacts, one by one.                                                *)

\* findExistingContactEmployee: by the code HubSpot holds, then by email or name.
Existing(e, c) ==
    LET coded == {s \in doing[e].staff : s.code = doing[e].code[c]}
    IN IF doing[e].code[c] # 0 /\ coded # {} THEN coded
       ELSE {s \in doing[e].staff : s.key = c}

\* The array after a PATCH: new entries get a code; entries SAP is not sent stay or go.
After(staff, sent) ==
    (IF rules.replaces THEN {} ELSE {s \in staff : s.code \notin Codes(sent)})
    \union {s \in sent : s.code # 0}
    \union {[s EXCEPT !.code = hired + 1] : s \in {x \in sent : x.code = 0}}

\* SAP refuses a code it does not have, and a second employee of one name.
Accepts(staff, sent) ==
    /\ Codes(sent) \subseteq Codes(staff) \union {0}
    /\ \A s, t \in After(staff, sent) : s.key = t.key => s = t

\* Every copy of the array is out of date but the writer's, and that one too when it never
\* learns that its write was carried out.
Patched(e, sent, kind) ==
    LET card == doing[e].partner
    IN /\ partners' = {IF p.card = card THEN [p EXCEPT !.staff = After(p.staff, sent)] ELSE p :
                          p \in partners}
       /\ hired' = hired + (IF 0 \in Codes(sent) THEN 1 ELSE 0)
       /\ overtaken' = overtaken \union {f \in Events : /\ doing[f].partner = card
                                                            /\ f = e => kind = "lost"}

Patch(e, sent, kind) ==
    /\ Call(kind)
    /\ IF kind # "refused" /\ Accepts(Staff(doing[e].partner), sent)
       THEN Patched(e, sent, kind) ELSE UNCHANGED <<partners, hired, overtaken>>

PatchAnswered(e, sent, kind) == kind = "answered" /\ Accepts(Staff(doing[e].partner), sent)

Found(e, s) == [doing[e] EXCEPT !.todo = Tail(@),
                                !.codes = [@ EXCEPT ![Head(doing[e].todo)] = s.code]]

\* A contact that is an employee already.  Whatever comes of the update, the array in hand
\* stays as it was read.
MatchContact(e) ==
    LET c == Head(doing[e].todo)
    IN /\ doing[e].pc = "contacts" /\ doing[e].todo # <<>>
       /\ \E s \in Existing(e, c) :
            /\ \/ /\ ~rules.upsert \/ s.val = doing[e].val[c]
                  /\ UNCHANGED <<partners, hired, overtaken, incidents>>
               \/ /\ rules.upsert /\ s.val # doing[e].val[c]
                  /\ \E kind \in {"answered", "refused", "lost"} :
                        Patch(e, (doing[e].staff \ {s})
                                 \union {[s EXCEPT !.val = doing[e].val[c]]}, kind)
            /\ Goes(e, Found(e, s))
       /\ UNCHANGED hubspotSide

\* Mutants: the array is sent with the new contact alone; a refusal is not noted.
Alone(e, c) == {[key |-> c, code |-> 0, val |-> doing[e].val[c]]}
RefusedUnnoted(e, c) == [doing[e] EXCEPT !.todo = Tail(@)]

Extended(e, c) == doing[e].staff \union {[key |-> c, code |-> 0, val |-> doing[e].val[c]]}
Refused(e, c) == [doing[e] EXCEPT !.todo = Tail(@), !.errors = @ \union {c}]

\* A contact that is not: appended; a refusal is noted and the next contact is taken.
AppendContact(e) ==
    LET c == Head(doing[e].todo)
    IN /\ doing[e].pc = "contacts" /\ doing[e].todo # <<>> /\ Existing(e, c) = {}
       /\ hired < MaxCodes
       /\ \E kind \in {"answered", "refused", "lost"} :
            /\ Patch(e, Extended(e, c), kind)
            /\ Goes(e, IF PatchAnswered(e, Extended(e, c), kind) THEN [doing[e] EXCEPT !.pc = "reread"]
                       ELSE Refused(e, c))
       /\ UNCHANGED hubspotSide

\* Mutant: the newest employee is taken for the contact.
CodeOfNewest(staff, c) == IF staff = {} THEN 0 ELSE Max(Codes(staff))

\* The code SAP gave is read back by email or name.
CodeOf(staff, c) == IF \E s \in staff : s.key = c
                    THEN (CHOOSE s \in staff : s.key = c).code ELSE 0

\* What the event has found and added so far is all there.
Intact(e, c, staff) == \A d \in Contacts : d = c \/ doing[e].codes[d] # 0 => CodeOf(staff, d) # 0

RereadPartner(e) ==
    LET c == Head(doing[e].todo)
        fresh == Staff(doing[e].partner)
    IN /\ doing[e].pc = "reread"
       /\ \E kind \in {"answered", "refused"} :
            /\ Call(kind)
            /\ IF kind = "answered"
               THEN /\ Goes(e, [doing[e] EXCEPT !.pc = "contacts", !.staff = fresh, !.todo = Tail(@),
                                            !.codes = [@ EXCEPT ![c] = CodeOf(fresh, c)]])
                    /\ overtaken' = overtaken \ (IF Intact(e, c, fresh) THEN {e} ELSE {})
               ELSE Fails(e) /\ UNCHANGED overtaken
       /\ UNCHANGED <<hubspotSide, partners, hired>>

\* updateContactEmployeeCodes: contact after contact; a failure leaves the rest unwritten.
WriteCodes(e) ==
    /\ doing[e].pc = "contacts" /\ doing[e].todo = <<>>
    /\ \E kind \in {"answered", "refused"}, n \in 0..Len(ContactList) :
        /\ Call(kind)
        /\ kind = "answered" => n = Len(ContactList)
        /\ internal' = [c \in Contacts |-> IF doing[e].codes[c] # 0
                                              /\ c \in Range(SubSeq(ContactList, 1, n))
                                           THEN doing[e].codes[c] ELSE internal[c]]
        /\ IF kind = "answered" THEN Goes(e, [doing[e] EXCEPT !.pc = "cut"]) ELSE Fails(e)
    /\ UNCHANGED <<rules, idsap, value, partners, hired, overtaken>>

\* The cut: a contact that could not be added keeps the document from being made.
Stops(e) == doing[e].errors # {} /\ ~rules.bypass

MakeDocument(e) ==
    /\ doing[e].pc = "cut"
    /\ Goes(e, [Unread(doing[e]) EXCEPT !.searched = doing[e].searched,
                                        !.pc = IF Stops(e) THEN "errored" ELSE "done"])
    /\ overtaken' = overtaken \ {e}
    /\ UNCHANGED <<hubspotSide, partners, hired, incidents>>

-----------------------------------------------------------------------------
(* People change a contact in HubSpot, or add an employee in SAP.           *)

EditContact(c) ==
    /\ incidents < MaxIncidents /\ incidents' = incidents + 1
    /\ value' = [value EXCEPT ![c] = @ + 1]
    /\ UNCHANGED <<rules, idsap, internal, partners, hired, doing, overtaken>>

HireInSap(p, c) ==
    /\ incidents < MaxIncidents /\ incidents' = incidents + 1
    /\ c \notin {s.key : s \in p.staff} /\ hired < MaxCodes
    /\ hired' = hired + 1
    /\ partners' = (partners \ {p}) \union
          {[p EXCEPT !.staff = @ \union {[key |-> c, code |-> hired + 1, val |-> 0]}]}
    /\ overtaken' = overtaken \union {f \in Events : doing[f].partner = p.card}
    /\ UNCHANGED <<rules, idsap, internal, value, doing>>

Process(e) ==
    \/ Arrive(e) \/ FindByCard(e) \/ FindByField(e) \/ Create(e) \/ FetchCreated(e)
    \/ LinkPartner(e) \/ MatchContact(e) \/ AppendContact(e) \/ RereadPartner(e)
    \/ WriteCodes(e) \/ MakeDocument(e)

PartnerNext ==
    \/ \E e \in Events : Process(e)
    \/ \E c \in Contacts : EditContact(c)
    \/ \E p \in partners, c \in Contacts : HireInSap(p, c)

PartnerSpec == PartnerInit /\ PartnerHoldings /\ [][PartnerNext]_partnerVars

-----------------------------------------------------------------------------
Employees == [key : Contacts, code : 1..MaxCodes, val : 0..(MaxIncidents + 1)]

\* The types of the state: SAP gives each employee a code of its own.
PartnerTypeOK ==
    /\ \A p \in partners : p.staff \subseteq Employees
    /\ \A p, q \in partners : p.card = q.card => p = q
    /\ \A p, q \in partners : \A s \in p.staff, t \in q.staff :
            s.code = t.code => p = q /\ s = t
    /\ hired \in 0..(MaxCodes + Len(ContactList)) /\ overtaken \subseteq Events
    /\ \A e \in Events : /\ doing[e].errors \subseteq Contacts
                         /\ doing[e].tries \in 0..MaxTries

\* No employee SAP holds is lost to an event that had the array as SAP has it: one goes only
\* when the array was written after the event read it, by somebody else or by a PATCH of its
\* own whose answer was lost (SapWebhookOrderAdapter's PATCHes send the array back whole).
ContactsKept ==
    [][\A p \in partners : \A s \in p.staff :
          \/ \E q \in partners' : q.card = p.card /\ s.code \in Codes(q.staff)
          \/ \E e \in overtaken : doing[e].pc = "contacts"]_partnerVars

\* A second partner of the company is made only by an event that could not find the first:
\* it was made since the event looked, or the company has nothing to look for it by; and
\* where the code is generated from the company's id, SAP refuses a second one.
TwinPartnersExplained ==
    [][(partners # {} /\ Cardinality(partners') > Cardinality(partners))
       => \E e \in Events : /\ doing[e].pc = "create"
                            /\ Cards # doing[e].seen \/ ~rules.keyed
                            /\ rules.generated => doing[e].card # None \/ Own \notin Cards]_partnerVars

\* An internalcode HubSpot holds is that of an employee who is this contact, or of none.
CodesPointHome ==
    \A c \in Contacts : \A p \in partners : \A s \in p.staff :
        s.code = internal[c] => s.key = c

\* Once a document is made for an event that came without the partner's code, HubSpot has the
\* code of a partner there is, so that the next event finds it.
HubspotKnowsPartner ==
    \A e \in Events : (doing[e].pc = "done" /\ ~(doing[e].searched /\ doing[e].card # None))
                      => idsap \in Cards

\* Without the bypass, a document is made only once every contact of the deal is an employee
\* of its partner (the cut in resolveBusinessPartnerForDocument), unless somebody else has
\* written the array meanwhile.
DocumentHasContacts ==
    [][\A e \in Events : (doing[e].pc = "cut" /\ doing'[e].pc = "done" /\ ~rules.bypass)
          => \/ e \in overtaken
             \/ \A c \in Contacts : \E s \in Staff(doing[e].partner) : s.key = c]_partnerVars

\* An employee's fields change only for the contact an event is at, unless the event's copy
\* of the array is out of date: "every other employee [...] is sent back untouched" (the
\* comment above updateContactEmployeeFields).
UpdatesKept ==
    [][\A p \in partners, q \in partners' : \A s \in p.staff, t \in q.staff :
          (s.code = t.code /\ s.val # t.val)
          => \E e \in Events : /\ doing[e].todo # <<>>
                               /\ e \in overtaken \/ Head(doing[e].todo) = s.key]_partnerVars
=============================================================================
