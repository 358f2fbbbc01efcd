------------------------------ MODULE HubspotAuth -----------------------------
(* The HubSpot credentials of a tenant: stored by the OAuth callback           *)
(* (HandleHubspotOAuthCallback.js, exchangeCodeForTokens) and renewed by every *)
(* caller that finds its copy expired (getAccessToken, refreshAccessToken).    *)
(* A grant is what HubSpot gives at one authorisation: its refresh token stays *)
(* the same, its access tokens follow one another.                             *)
EXTENDS Naturals, Sequences

CONSTANTS
    Refresher,      \* calls that need an access token
    Installer,      \* OAuth callbacks, each with a grant of its own
    Portal,         \* portals a user can authorise
    Registered,     \* portalId of the signed state
    MaxToken        \* bound of the access tokens given

ASSUME ProcessesAssumption == Refresher \cap Installer = {}

VARIABLES
    docs,           \* HubspotCredentials in insertion order
    loaded,         \* a process' copy of the document it found
    step,
    granted,        \* what HubSpot has answered a process
    tokens,         \* access tokens given so far
    held            \* ghost: the grant an installer last stored in a document

authVars == <<docs, loaded, step, granted, tokens, held>>

Process == Refresher \cup Installer
NoDoc == 0
Fields == {"access", "refresh", "portal"}
Nothing == [access |-> 0, refresh |-> "none", portal |-> "none"]

AuthInit ==
    /\ docs = <<>>
    /\ loaded = [p \in Process |-> [at |-> NoDoc, copy |-> Nothing]]
    /\ step = [p \in Process |-> "start"]
    /\ granted = [p \in Process |-> Nothing]
    /\ tokens = 0
    /\ held = <<>>

Goto(p, label) == step' = [step EXCEPT ![p] = label]

\* findOne: the first document of the tenant.
FindDoc(p) ==
    loaded' = [loaded EXCEPT ![p] =
        IF docs = <<>> THEN [at |-> NoDoc, copy |-> Nothing]
        ELSE [at |-> 1, copy |-> docs[1]]]

WholeDocument(p, new) == Fields

\* Mongoose's save writes the fields that differ from what was loaded.
Modified(p, new) == {f \in Fields : new[f] # loaded[p].copy[f]}

Save(p, new) ==
    LET i == loaded[p].at
    IN  docs' = [docs EXCEPT ![i] =
            [f \in Fields |-> IF f \in Modified(p, new) THEN new[f] ELSE @[f]]]

GiveToken(p, grant, portal) ==
    /\ tokens < MaxToken
    /\ tokens' = tokens + 1
    /\ granted' = [granted EXCEPT ![p] =
           [access |-> tokens', refresh |-> grant, portal |-> portal]]
-----------------------------------------------------------------------------
(* refreshAccessToken                                                        *)

LoadForRefresh(r) ==
    /\ step[r] = "start"
    /\ docs # <<>>
    /\ FindDoc(r)
    /\ Goto(r, "post")
    /\ UNCHANGED <<docs, granted, tokens, held>>

RefreshAnswered(r) ==
    /\ step[r] = "post"
    /\ GiveToken(r, loaded[r].copy.refresh, loaded[r].copy.portal)
    /\ Goto(r, "save")
    /\ UNCHANGED <<docs, loaded, held>>

SaveRefreshed(r) ==
    /\ step[r] = "save"
    /\ Save(r, [loaded[r].copy EXCEPT !.access = granted[r].access,
                                      !.refresh = granted[r].refresh])
    /\ Goto(r, "start")
    /\ UNCHANGED <<loaded, granted, tokens, held>>
-----------------------------------------------------------------------------
(* exchangeCodeForTokens                                                     *)

AnyPortal(portal) == TRUE

PortalMatches(portal) == portal = Registered

\* Another portal than the registered one is answered with an error.
Exchange(i) ==
    /\ step[i] = "start"
    /\ \E portal \in Portal :
          /\ GiveToken(i, i, portal)
          /\ Goto(i, IF PortalMatches(portal) THEN "find" ELSE "done")
    /\ UNCHANGED <<docs, loaded, held>>

FindExisting(i) ==
    /\ step[i] = "find"
    /\ FindDoc(i)
    /\ Goto(i, "store")
    /\ UNCHANGED <<docs, granted, tokens, held>>

StoreGrant(i) ==
    /\ step[i] = "store"
    /\ \/ /\ loaded[i].at = NoDoc
          /\ docs' = Append(docs, granted[i])
          /\ held' = Append(held, i)
       \/ /\ loaded[i].at # NoDoc
          /\ Save(i, granted[i])
          /\ held' = [held EXCEPT ![loaded[i].at] = i]
    /\ Goto(i, "done")
    /\ UNCHANGED <<loaded, granted, tokens>>

\* No installation is left to give the tenant credentials, or the bound is met.
AuthIdle ==
    /\ tokens = MaxToken \/ (docs = <<>> /\ \A i \in Installer : step[i] = "done")
    /\ UNCHANGED authVars

AuthNext ==
    \/ \E r \in Refresher : LoadForRefresh(r) \/ RefreshAnswered(r) \/ SaveRefreshed(r)
    \/ \E i \in Installer : Exchange(i) \/ FindExisting(i) \/ StoreGrant(i)
    \/ AuthIdle

AuthSpec == AuthInit /\ [][AuthNext]_authVars
-----------------------------------------------------------------------------
(* Properties                                                                *)

\* The refresh token of a document is that of the last grant stored in it: a
\* refresh under way with the previous grant, and another's refresh, leave it
\* alone (save of refreshAccessToken, credentials.save of the exchange).
GrantKept ==
    \A d \in DOMAIN docs : docs[d].refresh = held[d]

\* The tenant holds tokens of the portal it was registered for and of no other,
\* whichever portal the user authorised (HUBSPOT_PORTAL_MISMATCH).
OnlyRegisteredPortal ==
    \A d \in DOMAIN docs : docs[d].portal = Registered
=============================================================================
