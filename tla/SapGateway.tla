------------------------------ MODULE SapGateway ------------------------------
(* The credentials of an S/4HANA tenant (ManageSapCredentials.js) and the      *)
(* transport a run builds from them (S4GatewayTransport.js): writes carry a    *)
(* CSRF token all requests of the transport share and SAP forgets when it      *)
(* likes; a collection is read page by page, along links SAP gives; every URL  *)
(* carries the configured parameters, the SAP client among them.               *)
EXTENDS Naturals, FiniteSets

CONSTANTS
    Admin,
    Request,        \* requests, each made once
    LastPage,
    MaxTokens,      \* bound of the CSRF tokens SAP gives
    MaxEdits,       \* bound of the changes of the credentials
    MaxMishaps      \* bound of forgotten tokens and lost answers

VARIABLES
    credentials,    \* the SapCredentials document of the config
    meant,          \* ghost: the password an admin typed last
    screen,         \* whether an admin has seen the document, its password masked
    transport,      \* [password, client, csrf] of the transport in use
    valid,          \* tokens SAP still knows
    csrfTokens,         \* tokens SAP has given: 1..tokens
    request,        \* the requests
    performed,      \* ghost: how often SAP has performed a request's write
    edits, mishaps

gatewayVars ==
    <<credentials, meant, screen, transport, valid, csrfTokens, request, performed, edits, mishaps>>

Mask == "********"
Password == {"first", "second"}
\* What params may hold for the SAP client: "blank" only when written straight to MongoDB.
Param == {"none", "own", "blank"}
NoCredentials == [password |-> "none", client |-> "none"]
NoToken == 0

\* Mutant: what MongoDB holds is sent as it is.
UncheckedParam(param) == param
\* normalizeDefaultParams: a blank value that got into MongoDB is dropped.
SentParam(param) == IF param = "blank" THEN "none" ELSE param
Built(document) ==
    [password |-> document.password, client |-> SentParam(document.client), csrf |-> NoToken]

Fresh == [pc |-> "idle", kind |-> "write", tries |-> 0, tried |-> {}, page |-> 1, asked |-> "none",
          url |-> "none", rows |-> {}]
Ended == {"idle", "done", "failed", "refused"}

GatewayTypeOK ==
    /\ credentials \in [password : Password \cup {Mask}, client : Param] \cup {NoCredentials}
    /\ meant \in Password \cup {"none"}
    /\ screen \subseteq Admin
    /\ transport.client \in Param \ {"blank"} /\ transport.csrf \in 0 .. csrfTokens
    /\ valid \subseteq 1 .. csrfTokens /\ csrfTokens <= MaxTokens
    /\ \A r \in Request :
          /\ request[r].pc \in Ended \cup {"token", "refresh", "send", "page"}
          /\ request[r].tries <= 2 /\ request[r].page <= LastPage

GatewayInit ==
    /\ credentials = NoCredentials
    /\ meant = "none"
    /\ screen = {}
    /\ transport = Built(NoCredentials)
    /\ valid = {}
    /\ csrfTokens = 0
    /\ request = [r \in Request |-> Fresh]
    /\ performed = [r \in Request |-> 0]
    /\ edits = 0
    /\ mishaps = 0

-----------------------------------------------------------------------------
(* The credentials. *)

Edited == edits < MaxEdits /\ edits' = edits + 1
Shown(a) == screen' = screen \cup {a}
CredentialsOnly == UNCHANGED <<transport, valid, csrfTokens, request, performed, mishaps>>

\* list and get answer with the mask in place of the password.
Get(a) ==
    /\ credentials # NoCredentials /\ a \notin screen
    /\ Shown(a)
    /\ UNCHANGED <<credentials, meant, edits>> /\ CredentialsOnly

\* What a payload may give for the password: nothing, what the screen showed, or a new one.
Offered(a) == {"left out"} \cup Password \cup (IF a \in screen THEN {Mask} ELSE {})

\* Mutant: the mask is taken for a password.
KeepMask(offer) == offer
\* A secret that comes back masked is dropped from the payload.
DropMasked(offer) == IF offer = Mask THEN "left out" ELSE offer

\* A blank parameter is a BAD_REQUEST.
ParamsValid(param) == param # "blank"

Create(a, password, param) ==
    /\ Edited /\ credentials = NoCredentials
    /\ password \in Password /\ param \in Param \ {"blank"}
    /\ credentials' = [password |-> password, client |-> param]
    /\ meant' = password
    /\ Shown(a)
    /\ CredentialsOnly

\* Only the fields the payload has are written over.
Patched(offer, param) ==
    [password |-> IF offer = "left out" THEN credentials.password ELSE offer,
     client |-> IF param = "left out" THEN credentials.client ELSE param]

Patch(a, offer, param) ==
    /\ Edited /\ credentials # NoCredentials
    /\ offer \in Offered(a) /\ ParamsValid(param)
    /\ credentials' = Patched(DropMasked(offer), param)
    /\ meant' = IF offer \in Password THEN offer ELSE meant
    /\ Shown(a)
    /\ CredentialsOnly

Delete(a) ==
    /\ Edited /\ credentials # NoCredentials
    /\ credentials' = NoCredentials
    /\ meant' = "none"
    /\ Shown(a)
    /\ CredentialsOnly

\* Someone writes the document in MongoDB, past the rules of the use case.
WriteStraight ==
    /\ Edited /\ credentials # NoCredentials
    /\ credentials' = [credentials EXCEPT !.client = "blank"]
    /\ UNCHANGED <<meant, screen>> /\ CredentialsOnly

-----------------------------------------------------------------------------
(* The transport.  A run builds its own from what the document holds then. *)

GatewayOnly == UNCHANGED <<credentials, meant, screen, edits>>
Update(r, changes) ==
    request' = [request EXCEPT ![r] =
        [field \in DOMAIN @ |-> IF field \in DOMAIN changes THEN changes[field] ELSE @[field]]]
Mishap == mishaps < MaxMishaps /\ mishaps' = mishaps + 1

Build ==
    /\ credentials # NoCredentials
    /\ transport # Built(credentials)
    /\ \A r \in Request : request[r].pc \in Ended
    /\ transport' = Built(credentials)
    /\ GatewayOnly /\ UNCHANGED <<valid, csrfTokens, request, performed, mishaps>>

\* Mutant: a refresh is content with the cached token.
AnyToken(force) == transport.csrf # NoToken
\* ensureCsrfState: the cached token, or a new one when there is none or it is forced.
HasToken(force) == transport.csrf # NoToken /\ ~ force

StartWrite(r) ==
    /\ transport.password # "none" /\ request[r].pc = "idle"
    /\ Update(r, [pc |-> "token"])
    /\ GatewayOnly /\ UNCHANGED <<transport, valid, csrfTokens, performed, mishaps>>

UseToken(r) ==
    /\ request[r].pc \in {"token", "refresh"} /\ HasToken(request[r].pc = "refresh")
    /\ Update(r, [pc |-> "send", tried |-> request[r].tried \cup {transport.csrf}])
    /\ GatewayOnly /\ UNCHANGED <<transport, valid, csrfTokens, performed, mishaps>>

\* A GET of the service document: a token, or an answer without one.
FetchToken(r) ==
    /\ request[r].pc \in {"token", "refresh"} /\ ~ HasToken(request[r].pc = "refresh")
    /\ \/ /\ csrfTokens < MaxTokens
          /\ csrfTokens' = csrfTokens + 1
          /\ valid' = valid \cup {csrfTokens + 1}
          /\ transport' = [transport EXCEPT !.csrf = csrfTokens + 1]
          /\ Update(r, [pc |-> "send", tried |-> request[r].tried \cup {csrfTokens + 1}])
          /\ UNCHANGED mishaps
       \/ /\ Mishap
          /\ Update(r, [pc |-> "failed"])
          /\ UNCHANGED <<transport, valid, csrfTokens>>
    /\ GatewayOnly /\ UNCHANGED performed

\* Mutant: every failed write is tried again.
RepeatedAlways(r, error) == request[r].tries = 0

\* Only a refused token, and only once, is worth another try.
Repeated(r, error) == error = "csrf" /\ request[r].tries = 0
AfterRefusal(r, error) ==
    IF Repeated(r, error) THEN "refresh" ELSE IF error = "csrf" THEN "refused" ELSE "failed"

\* SAP refuses a token it has forgotten before it looks at the write; of a write it has
\* performed the answer may be lost.
PerformWrite(r) ==
    LET token == CHOOSE t \in request[r].tried : \A u \in request[r].tried : u <= t
        fails(error) == Update(r, [pc |-> AfterRefusal(r, error), tries |-> request[r].tries + 1])
    IN  /\ request[r].pc = "send"
        /\ \/ token \notin valid /\ fails("csrf") /\ UNCHANGED <<performed, mishaps>>
           \/ /\ token \in valid
              /\ performed' = [performed EXCEPT ![r] = @ + 1]
              /\ \/ Update(r, [pc |-> "done"]) /\ UNCHANGED mishaps
                 \/ Mishap /\ fails("other")
        /\ GatewayOnly /\ UNCHANGED <<transport, valid, csrfTokens>>

\* SAP's session of a token ends.
Forget(t) ==
    /\ Mishap /\ t \in valid
    /\ valid' = valid \ {t}
    /\ GatewayOnly /\ UNCHANGED <<transport, csrfTokens, request, performed>>

\* A URL gets the parameters it lacks.
WithDefaultParams(url) == IF url = "none" THEN transport.client ELSE url

\* Mutant: the next link is followed as it is.
AsItIs(link) == link

\* The next link, an absolute URL of the gateway.
Followed(link) == WithDefaultParams(link)

StartRead(r) ==
    /\ transport.password # "none" /\ request[r].pc = "idle"
    /\ Update(r, [pc |-> "page", kind |-> "read", asked |-> transport.client,
                  url |-> WithDefaultParams("none")])
    /\ GatewayOnly /\ UNCHANGED <<transport, valid, csrfTokens, performed, mishaps>>

\* SAP answers with rows of the client the URL names, and with a link that may or may not
\* carry the parameters on; one page that fails fails the whole read.
ReadPage(r) ==
    LET rows == request[r].rows \cup {request[r].url}
    IN  /\ request[r].pc = "page"
        /\ \/ /\ request[r].page = LastPage
              /\ Update(r, [pc |-> "done", rows |-> rows])
              /\ UNCHANGED mishaps
           \/ /\ request[r].page < LastPage
              /\ \E link \in {"none", request[r].url} :
                    Update(r, [page |-> request[r].page + 1, rows |-> rows,
                               url |-> Followed(link)])
              /\ UNCHANGED mishaps
           \/ Mishap /\ Update(r, [pc |-> "failed", rows |-> {}])
        /\ GatewayOnly /\ UNCHANGED <<transport, valid, csrfTokens, performed>>

GatewayNext ==
    \/ \E a \in Admin :
          \/ Get(a) \/ Delete(a)
          \/ \E password \in Password, param \in Param : Create(a, password, param)
          \/ \E offer \in Offered(a), param \in {"left out", "own", "none", "blank"} :
                Patch(a, offer, param)
    \/ WriteStraight \/ Build
    \/ \E r \in Request :
          StartWrite(r) \/ UseToken(r) \/ FetchToken(r) \/ PerformWrite(r) \/ StartRead(r) \/ ReadPage(r)
    \/ \E t \in valid : Forget(t)

GatewaySpec == GatewayInit /\ [][GatewayNext]_gatewayVars

-----------------------------------------------------------------------------
(* Properties. *)

\* Whatever admins send back of what they were shown, the stored password is the one typed
\* last: an old screen neither writes the mask over it nor brings an older one back.
SecretsAsMeant == credentials.password = meant

\* No write is performed twice, although a refused one is sent again.
PerformedOnce == \A r \in Request : performed[r] <= 1

\* A write is given up for its token only after a token fetched for it was refused too.
RefusedTwice == \A r \in Request : request[r].pc = "refused" => Cardinality(request[r].tried) = 2

\* All rows of a collection are of the SAP client the transport was built for, whatever the
\* links between the pages carry.
RowsOfOneClient == \A r \in Request : request[r].rows \subseteq {request[r].asked}

=============================================================================
