------------------------------- MODULE CrmIndex -------------------------------
(* What the batch synchronisations of companies and contacts share: the index  *)
(* of the records swept from HubSpot (crmObjectIndex.service.js), the rule of  *)
(* who owns a record (sap-record-ownership.js), and the cutting of work into   *)
(* chunks (hubspotBatching.utils.js). Records and SAP rows are functions of    *)
(* property names; "" is an empty property. A record's id is its position.     *)
EXTENDS Naturals, Sequences, FiniteSets, SequencesExt

CONSTANT Tiers      \* identity property, defaultFindHubspot, HubSpot's unique ones

Ownership == {"idsap", "code"}
Property == Ownership \cup {"phone", "email"}

\* A record's properties, and beside them what is noted of it.
Marked(record, marks) ==
    [name \in DOMAIN record \cup DOMAIN marks |-> IF name \in DOMAIN record THEN record[name] ELSE marks[name]]

NoMatch == [id |-> 0, via |-> 0]

Unowned(record, row) == FALSE

\* Any SAP key of the record that is not the row's makes it another's.
BelongsToAnother(record, row) ==
    \E name \in Ownership : record[name] # "" /\ record[name] # row[name]

Same(index, name, row) ==
    {i \in DOMAIN index : row[name] # "" /\ index[i][name] = row[name]}

\* Only the identity may reach a record that somebody owns.
Adoptable(index, tier, row) ==
    IF tier = 1 THEN Same(index, Tiers[1], row)
    ELSE {i \in Same(index, Tiers[tier], row) : ~BelongsToAnother(index[i], row)}

\* match: the first record of the first tier that finds one.
Match(index, row) ==
    LET hits == {t \in DOMAIN Tiers : Adoptable(index, t, row) # {}}
    IN  IF hits = {} THEN NoMatch
        ELSE [id |-> Min(Adoptable(index, Min(hits), row)), via |-> Min(hits)]

\* The values a row could be found by, the first one being its own.
KeyTiers(row) == {t \in DOMAIN Tiers : row[Tiers[t]] # ""}
KeyOf(row, t) == <<Tiers[t], row[Tiers[t]]>>
DedupeKeys(row) == {KeyOf(row, t) : t \in KeyTiers(row)}
OwnKey(row) == KeyOf(row, Min(KeyTiers(row)))

\* The numbers of a set in ascending order.
Ordered(S) == [k \in 1 .. Cardinality(S) |-> CHOOSE n \in S : Cardinality({m \in S : m <= n}) = k]

ChunkArray(s, size) ==
    [k \in 1..((Len(s) + size - 1) \div size) |->
        SubSeq(s, (k - 1) * size + 1, Min({k * size, Len(s)}))]

Halves(chunk) ==
    <<SubSeq(chunk, 1, Len(chunk) \div 2), SubSeq(chunk, Len(chunk) \div 2 + 1, Len(chunk))>>

\* HubSpot refuses a contact whose email another contact has.
EmailTaken(portal, row) == Same(portal, "email", row) # {}

Collides(portal, rows, chunk) ==
    \E i \in DOMAIN chunk :
        \/ EmailTaken(portal, rows[chunk[i]])
        \/ \E j \in 1..i - 1 :
              rows[chunk[i]].email # "" /\ rows[chunk[j]].email = rows[chunk[i]].email
=============================================================================
