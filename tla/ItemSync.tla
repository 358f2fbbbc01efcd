------------------------------- MODULE ItemSync -------------------------------
(***************************************************************************)
(* Business partners synchronised one by one (SendMappedItemsToHubspot.js, *)
(* processSingleItem), each followed by its contact employees              *)
(* (HandleHubspotAssociations.js, syncCompanyContacts).  A partner becomes *)
(* a company or a contact of HubSpot; its employees are contacts, which    *)
(* share HubSpot's contacts, and their unique emails, with the partners    *)
(* that are contacts too.                                                  *)
(*                                                                         *)
(* HubSpot is searched through an index that trails what it holds.  Ids    *)
(* are positions, so that a company and a contact may bear the same one.   *)
(***************************************************************************)
EXTENDS Naturals, Sequences, FiniteSets, SequencesExt, FiniteSetsExt, TLC

CONSTANTS Groups,         \* the SAP partners considered, with their employees
          Holdings,       \* what HubSpot may hold at first
          Settings,       \* the tenant's configurations considered
          Phones,         \* "" is no telephone
          MaxItemRuns, MaxItemFaults, MaxItemEdits

VARIABLES setting,      \* type, master, method, second, fields, bypass, fetched
          sapGroups,     \* idsap, email and kids: code, email, phone
          sapPhone,     \* the telephone SAP has of each partner
          crm,          \* HubSpot's companies and contacts
          indexed,      \* the same as its search shows them
          mapped,       \* the registry: the newest id of a type and SAP id; 0 for ''
          item,         \* where the run is, and what it has read
          placed,       \* partner -> HubSpot id
          kidAt,        \* <<partner, employee>> -> the id it was found or made at
          told,         \* the partners the run counts as what
          contactErrors,     \* <<partner, employee>> in contactErrors
          warned,       \* <<partner, employee>> skipped with a warning
          logged,       \* <<partner, employee>> whose association failed, in the log only
          pairs,        \* what HubSpot has associated: id, type, id
          overwritten,    \* records written over their owner, for the properties
          itemRuns, itemFaults, itemEdits

itemVars == <<setting, sapGroups, sapPhone, crm, indexed, mapped, item, placed, kidAt, told, contactErrors,
              warned, logged, pairs, overwritten, itemRuns, itemFaults, itemEdits>>

outside == <<setting, sapGroups, itemRuns, itemEdits>>

Type == setting.type
Nobody == [idsap |-> "", code |-> "", email |-> "", phone |-> "", of |-> ""]
Resting == [pc |-> "idle", p |-> 1, k |-> 1, found |-> 0, seen |-> Nobody, coded |-> FALSE,
            how |-> "none", phones |-> <<>>]
NothingTold == [sent |-> {}, failed |-> {}, created |-> {}, updated |-> {}]

ItemInit ==
    /\ setting \in Settings /\ sapGroups \in Groups /\ crm \in Holdings
    /\ sapPhone \in [DOMAIN sapGroups -> Phones]
    /\ indexed = crm
    /\ mapped = [key \in {<<"company", "X">>} |-> 1]
    /\ item = Resting /\ placed = << >> /\ kidAt = << >> /\ told = NothingTold
    /\ contactErrors = {} /\ warned = {} /\ logged = {} /\ pairs = {}
    /\ overwritten = {}
    /\ itemRuns = 0 /\ itemFaults = 0 /\ itemEdits = 0

ItemFault(kind) == /\ kind # "answered" => itemFaults < MaxItemFaults
                   /\ itemFaults' = itemFaults + (IF kind = "answered" THEN 0 ELSE 1)

-----------------------------------------------------------------------------
(* What SAP and HubSpot know of a partner and of an employee. *)

PartnerOfItem == sapGroups[item.p]
Kid == PartnerOfItem.kids[item.k]

Incoming == [idsap |-> PartnerOfItem.idsap, code |-> "", email |-> PartnerOfItem.email,
             phone |-> item.phones[item.p]]

(* buildCompanyContactPayload: an employee without an email is given one    *)
(* made of the partner's and of its own code.                               *)
KidEmail == IF Kid.email # "" THEN Kid.email
            ELSE IF PartnerOfItem.email = "" THEN "" ELSE PartnerOfItem.email \o Kid.code

IncomingKid == [idsap |-> "", code |-> Kid.code, email |-> KidEmail, phone |-> Kid.phone]

(* applyBypassEmail *)
Emailless(email) == email = "" /\ ~setting.bypass

Hits(type, name, value) ==
    {i \in DOMAIN indexed[type] : value # "" /\ indexed[type][i][name] = value}

(* Mutant: a record that belongs to another is found by its second property. *)
AnyOwner(type, i) == TRUE

(* withoutPropertyFilters, belongsToAnotherSapRecord *)
NobodysRecord(type, i) == indexed[type][i].idsap = "" /\ indexed[type][i].code = ""

(* Mutant: only the configured property is looked for. *)
ConfiguredOnly ==
    LET leads == {i \in Hits(Type, setting.second, Incoming[setting.second]) : NobodysRecord(Type, i)}
    IN IF leads # {} THEN leads ELSE {0}

(* find: by idsap, then a lead by the configured property. *)
FoundPartner ==
    LET own == Hits(Type, "idsap", Incoming.idsap)
        leads == {i \in Hits(Type, setting.second, Incoming[setting.second]) : NobodysRecord(Type, i)}
    IN IF own # {} THEN own ELSE IF leads # {} THEN leads ELSE {0}

(* Mutant: the email comes before the code. *)
EmailFirst == LET byCode == Hits("contact", "code", Kid.code)
                  byEmail == Hits("contact", "email", KidEmail)
              IN IF byEmail # {} THEN byEmail ELSE IF byCode # {} THEN byCode ELSE {0}

(* findContactEmployee: by internalcode, then by email, whoever owns it. *)
FoundKid == LET byCode == Hits("contact", "code", Kid.code)
                byEmail == Hits("contact", "email", KidEmail)
            IN IF byCode # {} THEN byCode ELSE IF byEmail # {} THEN byEmail ELSE {0}

-----------------------------------------------------------------------------
(* What the handlers write. *)

Fill(new, old) == IF new # "" THEN new ELSE old

(* Mutant: an empty telephone is written too. *)
BlanksToo(old, in) == [old EXCEPT !.idsap = Fill(in.idsap, @), !.code = Fill(in.code, @),
                                  !.phone = IF setting.fields THEN in.phone ELSE @]

(* buildUpdatePayload: the identifiers, and the configured fields that have *)
(* something to write.                                                      *)
RecordPatched(old, in) == [old EXCEPT !.idsap = Fill(in.idsap, @), !.code = Fill(in.code, @),
                                !.phone = IF setting.fields THEN Fill(in.phone, @) ELSE @]

Bearing(x) == IF x.idsap # "" THEN x.idsap ELSE x.code

(* Mutant: an identifier that differs is no reason to write. *)
PhoneOnly(seen, in) == seen.phone # in.phone

(* shouldUpdateByKeyFields *)
KeyFieldsDiffer(seen, in) == seen.phone # in.phone \/ Bearing(seen) # Bearing(in)

Updatable(seen, in) == /\ KeyFieldsDiffer(seen, in)
                       /\ Bearing(in) # "" \/ (setting.fields /\ in.phone # "")

(* Whose record the run knew it was: somebody else's, or an employee's that *)
(* has another of its own.                                                  *)
Overtakes(in) == \/ in.idsap # "" /\ Bearing(item.seen) \notin {"", in.idsap}
                 \/ in.idsap = "" /\ item.coded /\ item.seen.code # in.code

Overtake(in) == overwritten' = IF Overtakes(in) THEN overwritten \cup {Bearing(in)} ELSE overwritten

(* The record as the search showed it decides; the record itself is written. *)
Update(type, in) ==
    IF Updatable(item.seen, in)
    THEN crm' = [crm EXCEPT ![type][item.found] = RecordPatched(@, in)] /\ Overtake(in)
    ELSE UNCHANGED <<crm, overwritten>>

(* HubSpot refuses a contact whose email another has. *)
UniqueEmailTaken(type, in) == /\ type = "contact" /\ in.email # ""
                   /\ \E i \in DOMAIN crm.contact : crm.contact[i].email = in.email

MakeRecord(type, in) == crm' = [crm EXCEPT ![type] = Append(@, in @@ [of |-> Bearing(in)])]

(* Mutant: an employee is registered with its partner's id. *)
WithPartners(type, sap, id) == IF type = "contact" /\ item.p \in DOMAIN placed
                               THEN placed[item.p] ELSE id

Made(type, sap, id) == id

(* registerBaseObjectMapping: the newest counts. *)
RegisterMapping(type, sap, id) ==
    mapped' = IF sap = "" THEN mapped
              ELSE [key \in {<<type, sap>>} |-> Made(type, sap, id)] @@ mapped

-----------------------------------------------------------------------------
(* A run: its partners one after the other. *)

StartItems ==
    /\ item.pc = "idle" /\ itemRuns < MaxItemRuns /\ indexed = crm
    /\ itemRuns' = itemRuns + 1
    /\ item' = [Resting EXCEPT !.pc = "find", !.phones = sapPhone]
    /\ placed' = << >> /\ kidAt' = << >> /\ told' = NothingTold
    /\ contactErrors' = {} /\ warned' = {} /\ logged' = {}
    /\ UNCHANGED <<setting, sapGroups, sapPhone, crm, indexed, mapped, pairs, overwritten,
                   itemFaults, itemEdits>>

NextItem == IF item.p = Len(sapGroups) THEN Resting
            ELSE [Resting EXCEPT !.pc = "find", !.p = item.p + 1, !.phones = item.phones]

(* Mutant: a row is counted sent before its outcome is known. *)
SentAnyway(what) == told' = [told EXCEPT ![what] = @ \cup {item.p}, !.sent = @ \cup {item.p}]

Counted(what) == told' = [told EXCEPT ![what] = @ \cup {item.p}]

(* What was made or written counts only with a row that is sent. *)
ItemSent == /\ item' = NextItem
            /\ told' = [told EXCEPT !.sent = @ \cup {item.p},
                            !.created = IF item.how = "created" THEN @ \cup {item.p} ELSE @,
                            !.updated = IF item.how = "updated" THEN @ \cup {item.p} ELSE @]

(* The catch of processSingleItem. *)
ItemFails == item' = NextItem /\ Counted("failed")

(* A partner without an email is registered without an id, and is sent. *)
FindOne(kind) ==
    /\ item.pc = "find" /\ ItemFault(kind)
    /\ CASE kind # "answered" -> ItemFails /\ UNCHANGED mapped
         [] kind = "answered" /\ Emailless(PartnerOfItem.email) ->
              /\ RegisterMapping(Type, PartnerOfItem.idsap, 0)
              /\ item' = NextItem /\ Counted("sent")
         [] OTHER ->
              /\ \E id \in FoundPartner :
                    item' = [item EXCEPT !.pc = "write", !.found = id,
                                         !.seen = IF id = 0 THEN Nobody ELSE indexed[Type][id]]
              /\ UNCHANGED <<mapped, told>>
    /\ UNCHANGED <<outside, sapPhone, crm, indexed, placed, kidAt, contactErrors, warned, logged, pairs,
                   overwritten>>

PlacedAt(id, how) == /\ placed' = [p \in {item.p} |-> id] @@ placed
                     /\ item' = [item EXCEPT !.pc = "associate", !.how = how]
                     /\ UNCHANGED told

(* createContact, createCompany.  After a lost answer the record is there,  *)
(* and nothing is registered.                                               *)
CreateOne(kind) ==
    LET refused == UniqueEmailTaken(Type, Incoming)
        id == Len(crm[Type]) + 1
    IN /\ item.pc = "write" /\ item.found = 0 /\ ItemFault(kind)
       /\ IF refused \/ kind = "refused" THEN UNCHANGED crm ELSE MakeRecord(Type, Incoming)
       /\ IF refused \/ kind # "answered"
          THEN ItemFails /\ UNCHANGED <<mapped, placed>>
          ELSE RegisterMapping(Type, PartnerOfItem.idsap, id) /\ PlacedAt(id, "created")
       /\ UNCHANGED <<outside, sapPhone, indexed, kidAt, contactErrors, warned, logged, pairs, overwritten>>

(* The tenant's master is HubSpot: SAP's data go there. *)
UpdateOne(kind) ==
    /\ item.pc = "write" /\ item.found # 0 /\ setting.master = "HUBSPOT" /\ ItemFault(kind)
    /\ IF kind = "refused" THEN UNCHANGED <<crm, overwritten>> ELSE Update(Type, Incoming)
    /\ IF kind # "answered" THEN ItemFails /\ UNCHANGED placed
       ELSE PlacedAt(item.found, "updated")
    /\ UNCHANGED <<outside, sapPhone, indexed, mapped, kidAt, contactErrors, warned, logged, pairs>>

(* updateBusinessPartnerInSapFromHubspot: HubSpot's data, as the search     *)
(* showed them, go to SAP.  What fails in a script is only logged; the      *)
(* Service Layer's failure, whose promise is returned without being         *)
(* awaited, reaches the caller.                                             *)
UpdateSapItem(kind) ==
    /\ item.pc = "write" /\ item.found # 0 /\ setting.master = "SAP" /\ ItemFault(kind)
    /\ IF kind = "refused" \/ PartnerOfItem.idsap = "" THEN UNCHANGED <<sapPhone, overwritten>>
       ELSE /\ sapPhone' = [sapPhone EXCEPT ![item.p] = Fill(item.seen.phone, @)]
            /\ Overtake(Incoming)
    /\ IF kind # "answered" /\ setting.method = "serviceLayer"
       THEN ItemFails /\ UNCHANGED placed
       ELSE PlacedAt(item.found, "updated")
    /\ UNCHANGED <<outside, crm, indexed, mapped, kidAt, contactErrors, warned, logged, pairs>>

-----------------------------------------------------------------------------
(* Its associations and its employees. *)

Other(type) == IF type = "company" THEN "contact" ELSE "company"

Resolved(type, saps) ==
    {mapped[<<type, s>>] : s \in {x \in saps : <<type, x>> \in DOMAIN mapped}} \ {0}

(* Mutant: a failed employee ends its partner. *)
KidFailsAll == ItemSent

ToNextKid == IF item.k = Len(PartnerOfItem.kids) THEN ItemSent
             ELSE /\ item' = [item EXCEPT !.pc = "kid", !.k = @ + 1, !.found = 0, !.seen = Nobody,
                                          !.coded = FALSE]
                  /\ UNCHANGED told

(* The catch of the loop: the others go on. *)
AfterKidFails == ToNextKid

(* What the tenant's fetch lists is associated with every partner.  A fetch *)
(* that fails fails the partner, which has been written; mappings that      *)
(* cannot be read are one entry for all its employees.                      *)
AssociateItem(kind) ==
    LET found == {<<placed[item.p], Other(Type), id>> : id \in Resolved(Other(Type), setting.fetched)}
        all == {<<item.p, k>> : k \in DOMAIN PartnerOfItem.kids}
    IN /\ item.pc = "associate" /\ ItemFault(kind)
       /\ kind = "refused" => setting.fetched # {}
       /\ kind = "unmapped" => PartnerOfItem.kids # <<>>
       /\ IF kind = "refused"
          THEN ItemFails /\ UNCHANGED <<pairs, contactErrors>>
          ELSE /\ pairs' = pairs \cup found
               /\ IF kind = "unmapped" \/ PartnerOfItem.kids = <<>> THEN ItemSent
                  ELSE item' = [item EXCEPT !.pc = "kid", !.k = 1, !.found = 0, !.seen = Nobody]
                       /\ UNCHANGED told
               /\ contactErrors' = IF kind = "unmapped" THEN contactErrors \cup all ELSE contactErrors
       /\ UNCHANGED <<outside, sapPhone, crm, indexed, mapped, placed, kidAt, warned, logged, overwritten>>

Report == contactErrors' = contactErrors \cup {<<item.p, item.k>>}

FindKid(kind) ==
    /\ item.pc = "kid" /\ ItemFault(kind)
    /\ CASE Emailless(KidEmail) ->
              kind = "answered" /\ ToNextKid /\ warned' = warned \cup {<<item.p, item.k>>}
              /\ UNCHANGED contactErrors
         [] ~Emailless(KidEmail) /\ kind # "answered" -> AfterKidFails /\ Report /\ UNCHANGED warned
         [] OTHER ->
              /\ \E id \in FoundKid :
                    item' = [item EXCEPT !.pc = "kidwrite", !.found = id,
                                !.seen = IF id = 0 THEN Nobody ELSE indexed.contact[id],
                                !.coded = Hits("contact", "code", Kid.code) # {}]
              /\ UNCHANGED <<told, contactErrors, warned>>
    /\ UNCHANGED <<outside, sapPhone, crm, indexed, mapped, placed, kidAt, logged, pairs, overwritten>>

(* The contact is made and registered, or written. *)
WriteKid(kind) ==
    LET id == IF item.found # 0 THEN item.found ELSE Len(crm.contact) + 1
        refused == item.found = 0 /\ UniqueEmailTaken("contact", IncomingKid)
    IN /\ item.pc = "kidwrite" /\ ItemFault(kind)
       /\ IF refused \/ kind = "refused" THEN UNCHANGED <<crm, overwritten>>
          ELSE IF item.found # 0 THEN Update("contact", IncomingKid)
               ELSE MakeRecord("contact", IncomingKid) /\ UNCHANGED overwritten
       /\ IF refused \/ kind # "answered"
          THEN AfterKidFails /\ Report /\ UNCHANGED <<mapped, kidAt>>
          ELSE /\ kidAt' = [pair \in {<<item.p, item.k>>} |-> id] @@ kidAt
               /\ item' = [item EXCEPT !.pc = "link", !.found = id]
               /\ IF item.found = 0 THEN RegisterMapping("contact", Kid.code, id) ELSE UNCHANGED mapped
               /\ UNCHANGED <<told, contactErrors>>
       /\ UNCHANGED <<outside, sapPhone, indexed, placed, warned, logged, pairs>>

(* Mutants: no guard; a guard that compares a company's id too. *)
Unguarded(id) == FALSE
SameNumber(id) == id = placed[item.p]

(* A partner that is a contact is not associated with itself. *)
Itself(id) == Type = "contact" /\ id = placed[item.p]

(* associateObjectsBySapId: a failure is logged, and the employee is done. *)
LinkKid(kind) ==
    /\ item.pc = "link" /\ ItemFault(kind)
    /\ IF Itself(item.found) THEN kind = "answered" /\ UNCHANGED <<pairs, logged>>
       ELSE /\ pairs' = IF kind = "refused" THEN pairs
                        ELSE pairs \cup {<<placed[item.p], "contact", item.found>>}
            /\ logged' = IF kind = "answered" THEN logged ELSE logged \cup {<<item.p, item.k>>}
    /\ ToNextKid
    /\ UNCHANGED <<outside, sapPhone, crm, indexed, mapped, placed, kidAt, contactErrors, warned, overwritten>>

-----------------------------------------------------------------------------
(* HubSpot's index, and the users of both systems. *)

IndexCatchesUp ==
    /\ indexed # crm /\ indexed' = crm
    /\ UNCHANGED <<setting, sapGroups, sapPhone, crm, mapped, item, placed, kidAt, told, contactErrors, warned,
                   logged, pairs, overwritten, itemRuns, itemFaults, itemEdits>>

EditTelephone ==
    /\ itemEdits < MaxItemEdits /\ itemEdits' = itemEdits + 1
    /\ \E phone \in Phones \ {""} :
          \/ \E p \in DOMAIN sapGroups : sapPhone' = [sapPhone EXCEPT ![p] = phone] /\ UNCHANGED crm
          \/ \E i \in DOMAIN crm[Type] :
                crm' = [crm EXCEPT ![Type][i].phone = phone] /\ UNCHANGED sapPhone
    /\ UNCHANGED <<setting, sapGroups, indexed, mapped, item, placed, kidAt, told, contactErrors, warned, logged,
                   pairs, overwritten, itemRuns, itemFaults>>

ItemNext ==
    \/ StartItems \/ IndexCatchesUp \/ EditTelephone
    \/ \E kind \in {"answered", "refused"} : FindOne(kind) \/ FindKid(kind)
    \/ \E kind \in {"answered", "refused", "unmapped"} : AssociateItem(kind)
    \/ \E kind \in {"answered", "refused", "lost"} :
          \/ CreateOne(kind) \/ UpdateOne(kind) \/ UpdateSapItem(kind)
          \/ WriteKid(kind) \/ LinkKid(kind)

ItemSpec == ItemInit /\ [][ItemNext]_itemVars

-----------------------------------------------------------------------------

ItemTypeOK ==
    /\ item.pc \in {"idle", "find", "write", "associate", "kid", "kidwrite", "link"}
    /\ item.p \in DOMAIN sapGroups
    /\ item.pc \in {"kid", "kidwrite", "link"} => item.k \in DOMAIN PartnerOfItem.kids
    /\ \A type \in DOMAIN crm : Len(indexed[type]) <= Len(crm[type])
    /\ \A key \in DOMAIN mapped : mapped[key] \in {0} \cup DOMAIN crm[key[1]]
    /\ \A p \in DOMAIN placed : placed[p] \in DOMAIN crm[Type]
    /\ told.sent \cap told.failed = {} /\ (told.created \cup told.updated) \subseteq told.sent
    /\ DOMAIN sapPhone = DOMAIN sapGroups

(* Every employee of a partner that is sent is associated with it, unless   *)
(* it stands in contactErrors, was skipped with a warning, had its          *)
(* association fail, or is the partner itself: one that fails does not take *)
(* the others along.                                                        *)
EmployeesAccounted ==
    \A p \in told.sent \cap DOMAIN placed : \A k \in DOMAIN sapGroups[p].kids :
        \/ <<p, k>> \in contactErrors \cup warned \cup logged
        \/ /\ <<p, k>> \in DOMAIN kidAt
           /\ \/ <<placed[p], "contact", kidAt[<<p, k>>]>> \in pairs
              \/ Type = "contact" /\ kidAt[<<p, k>>] = placed[p]

(* No contact is associated with itself, in whatever order its employees    *)
(* come to be it.                                                           *)
NoneWithItself ==
    Type = "contact" => \A pair \in pairs : pair[2] = "contact" => pair[1] # pair[3]

(* A partner that was sent to HubSpot is found there by its key, unless the *)
(* run, which the search did not show it, gave the record to another.       *)
SentBearsItsKey ==
    setting.master = "HUBSPOT" =>
        \A p \in told.sent \cap DOMAIN placed :
            \E q \in p..Len(sapGroups) : crm[Type][placed[p]].idsap = sapGroups[q].idsap

(* No record is written by a run that could see it was another's: a         *)
(* partner's by another partner, an employee's by one that has a record.    *)
OwnersKept == overwritten = {}

(* Nothing is made twice, run after run, whatever answer is lost; only an   *)
(* employee of two partners of whom SAP has no email may be, since HubSpot  *)
(* does not refuse the second while its search does not show the first.     *)
MadeOnce ==
    \A type \in DOMAIN crm : \A i, j \in DOMAIN crm[type] :
        (i # j /\ crm[type][i].of # "" /\ crm[type][i].of = crm[type][j].of)
            => type = "contact" /\ \E p \in DOMAIN sapGroups : \E k \in DOMAIN sapGroups[p].kids :
                   sapGroups[p].kids[k].code = crm[type][i].of /\ sapGroups[p].kids[k].email = ""

(* What the registry has of a partner or of an employee is what was made    *)
(* for it.                                                                  *)
RegisteredIsOwn ==
    \A key \in DOMAIN mapped :
        mapped[key] # 0 /\ key # <<"company", "X">> => crm[key[1]][mapped[key]].of = key[2]

(* Neither side loses a telephone to the other's empty one. *)
NothingErased ==
    [][/\ \A type \in DOMAIN crm : \A i \in DOMAIN crm[type] :
             crm[type][i].phone # "" => crm'[type][i].phone # ""
       /\ \A p \in DOMAIN sapPhone : sapPhone[p] # "" => sapPhone'[p] # ""]_itemVars

=============================================================================
