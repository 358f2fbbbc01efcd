------------------------------ MODULE SapSession ------------------------------
(* The SAP Service Layer session a tenant's calls share: cached in Redis,      *)
(* renewed under a login lock, dropped by whoever finds it rejected            *)
(* (sapSessionManager.js), and the calls made with it: one request or a walk   *)
(* over the pages of a collection (B1ServiceLayerTransport.js), and the prices *)
(* read with runWithRetry (SapLineItemPriceClient.js).                         *)
EXTENDS Naturals, Sequences, FiniteSets

CONSTANTS
    Caller,         \* calls, each made once
    Nobody,
    Pages,          \* pages of the collection
    MaxLogins,      \* bound of the sessions SAP has given
    MaxEvents,      \* bound of what ends by itself: sessions, keys, locks
    MaxFaults       \* bound of lost answers and failing Redis commands

ASSUME NobodyAssumption == Nobody \notin Caller

VARIABLES
    cached,         \* sap:session of the tenant, 0 when there is none
    lock,           \* holder of sap:lock, or Nobody
    alive,          \* sessions SAP knows
    issued,         \* sessions SAP has given so far: 1..issued
    at, callKind,
    cookie,         \* the session a call works with
    attempts,        \* attempts made
    page,           \* the page the next link leads to
    items,          \* pages read
    reply,
    sapApplied,        \* ghost: how often SAP has applied the call's write
    late,           \* ghost: calls whose lock ran out while they logged in
    events, faults

local == <<at, callKind, cookie, attempts, page, items, reply>>
sessionGhosts == <<sapApplied, late>>
sessionVars == <<cached, lock, alive, issued, local, sessionGhosts, events, faults>>

NoSession == 0
Session == 1..MaxLogins
CallKind == {"walk", "write", "price"}

SessionInit ==
    /\ cached = NoSession
    /\ lock = Nobody
    /\ alive = {}
    /\ issued = 0
    /\ at = [c \in Caller |-> "get"]
    /\ callKind \in [Caller -> CallKind]
    /\ cookie = [c \in Caller |-> NoSession]
    /\ attempts = [c \in Caller |-> 0]
    /\ page = [c \in Caller |-> 1]
    /\ items = [c \in Caller |-> <<>>]
    /\ reply = [c \in Caller |-> "none"]
    /\ sapApplied = [c \in Caller |-> 0]
    /\ late = {}
    /\ events = 0
    /\ faults = 0

GoTo(c, label) == at' = [at EXCEPT ![c] = label]

FinishCall(c, result) ==
    /\ GoTo(c, "done")
    /\ reply' = [reply EXCEPT ![c] = result]

Fail == faults < MaxFaults /\ faults' = faults + 1

\* An attempt begins with nothing read: the pages of another are not kept.
Restarted(c) == items' = [items EXCEPT ![c] = <<>>]

Use(c, s) ==
    /\ cookie' = [cookie EXCEPT ![c] = s]
    /\ attempts' = [attempts EXCEPT ![c] = @ + 1]
    /\ page' = [page EXCEPT ![c] = 1]
    /\ Restarted(c)
    /\ GoTo(c, "call")
-----------------------------------------------------------------------------
(* getSessionCookie                                                          *)

\* readSession, then the lock (SET NX PX).
GetSession(c) ==
    /\ at[c] = "get"
    /\ IF cached # NoSession
       THEN Use(c, cached)
       ELSE GoTo(c, "lock") /\ UNCHANGED <<cookie, attempts, page, items>>
    /\ UNCHANGED <<cached, lock, alive, issued, callKind, reply, sessionGhosts, events, faults>>

TakeLock(c) ==
    /\ at[c] = "lock"
    /\ IF lock = Nobody
       THEN lock' = c /\ GoTo(c, "login")
       ELSE lock' = lock /\ GoTo(c, "wait")
    /\ UNCHANGED <<cached, alive, issued, callKind, cookie, attempts, page, items, reply, sessionGhosts, events, faults>>

\* loginAndStoreSession: SAP gives a session, which is stored afterwards.
Login(c) ==
    /\ at[c] = "login"
    /\ issued < MaxLogins
    /\ issued' = issued + 1
    /\ alive' = alive \union {issued + 1}
    /\ cookie' = [cookie EXCEPT ![c] = issued + 1]
    /\ GoTo(c, "store")
    /\ UNCHANGED <<cached, lock, callKind, attempts, page, items, reply, sessionGhosts, events, faults>>

\* SAP cannot be reached or answers without a cookie, or it refuses the login
\* (401, 403); the lock is released.
LoginFails(c) ==
    /\ at[c] = "login"
    /\ cookie' = [cookie EXCEPT ![c] = NoSession]
    /\ GoTo(c, "release") \/ GoTo(c, "refused")
    /\ UNCHANGED <<cached, lock, alive, issued, callKind, attempts, page, items, reply, sessionGhosts, events, faults>>

StoreSession(c) ==
    /\ at[c] = "store"
    /\ cached' = cookie[c]
    /\ GoTo(c, "release")
    /\ UNCHANGED <<lock, alive, issued, callKind, cookie, attempts, page, items, reply, sessionGhosts, events, faults>>

AnyHolder(c) == lock # Nobody

\* The script of releaseLock: only the lock that still holds the caller's value.
Owns(c) == lock = c

\* What an attempt that ends in an error leads to: withSession and runWithRetry.
AfterError(c, retried) ==
    IF retried /\ attempts[c] < 2
    THEN GoTo(c, "get") /\ UNCHANGED reply
    ELSE FinishCall(c, "error")

\* An attempt that ends without a session, and not for one SAP refuses.
AttemptEnds(c) ==
    IF callKind[c] = "price" /\ attempts[c] = 0
    THEN GoTo(c, "get") /\ UNCHANGED reply
    ELSE FinishCall(c, "error")

\* releaseLock, in `finally`. The login is part of the attempt: a refused one is
\* an error of the session like a rejected call; one that failed otherwise is an
\* error which withSession does not repeat and runWithRetry does.
ReleaseLock(c) ==
    /\ at[c] \in {"release", "refused"}
    /\ lock' = IF Owns(c) THEN Nobody ELSE lock
    /\ IF cookie[c] # NoSession
       THEN Use(c, cookie[c]) /\ UNCHANGED reply
       ELSE /\ attempts' = [attempts EXCEPT ![c] = @ + 1]
            /\ IF at[c] = "refused"
               THEN GoTo(c, "rejected") /\ UNCHANGED reply
               ELSE AttemptEnds(c)
            /\ UNCHANGED <<cookie, page, items>>
    /\ UNCHANGED <<cached, alive, issued, callKind, sessionGhosts, events, faults>>

\* waitForSession: reads until there is a session, but takes no lock.
FindSession(c) ==
    /\ at[c] = "wait"
    /\ cached # NoSession
    /\ Use(c, cached)
    /\ UNCHANGED <<cached, lock, alive, issued, callKind, reply, sessionGhosts, events, faults>>

\* WAIT_TIMEOUT_MS.
WaitTimesOut(c) ==
    /\ at[c] = "wait"
    /\ cached = NoSession
    /\ attempts' = [attempts EXCEPT ![c] = @ + 1]
    /\ AttemptEnds(c)
    /\ UNCHANGED <<cached, lock, alive, issued, callKind, cookie, page, items, sessionGhosts, events, faults>>
-----------------------------------------------------------------------------
(* The call to SAP.                                                          *)

Done(c) == page[c] = Pages \/ callKind[c] # "walk"

\* SAP accepts the session: it gives the next page, or applies the write.
Accepted(c) ==
    /\ at[c] = "call"
    /\ cookie[c] \in alive
    /\ items' = [items EXCEPT ![c] = Append(@, page[c])]
    /\ page' = [page EXCEPT ![c] = @ + 1]
    /\ sapApplied' = [sapApplied EXCEPT ![c] = IF callKind[c] = "write" THEN @ + 1 ELSE @]
    /\ IF Done(c) THEN FinishCall(c, "ok") ELSE UNCHANGED <<at, reply>>
    /\ UNCHANGED <<cached, lock, alive, issued, callKind, cookie, attempts, late, events, faults>>

RejectedCall(c) ==
    /\ at[c] = "call"
    /\ cookie[c] \notin alive
    /\ GoTo(c, "rejected")
    /\ UNCHANGED <<cached, lock, alive, issued, callKind, cookie, attempts, page, items, reply, sessionGhosts, events, faults>>

RepeatsEveryError(c) == TRUE

\* withSession repeats only what SAP has rejected for its session; runWithRetry
\* repeats whatever fails, and reads only.
RepeatsAnyError(c) == callKind[c] = "price"

\* The answer is lost, or is an error of another kind: the write may have been
\* applied.
LostAnswer(c) ==
    /\ at[c] = "call"
    /\ Fail
    /\ sapApplied' = [sapApplied EXCEPT ![c] =
                     IF callKind[c] = "write" /\ cookie[c] \in alive THEN @ + 1 ELSE @]
    /\ AfterError(c, RepeatsAnyError(c))
    /\ UNCHANGED <<cached, lock, alive, issued, callKind, cookie, attempts, page, items, late, events>>

\* invalidateSession deletes whatever is cached.
Invalidated == NoSession

\* isSessionInvalidError: SAP has rejected the session or refused the login.
\* withSession gives up the second time and leaves the cache alone; runWithRetry
\* invalidates after each.
Invalidate(c) ==
    /\ at[c] = "rejected"
    /\ cached' = IF attempts[c] < 2 \/ callKind[c] = "price" THEN Invalidated ELSE cached
    /\ AfterError(c, TRUE)
    /\ UNCHANGED <<lock, alive, issued, callKind, cookie, attempts, page, items, sessionGhosts, events, faults>>
-----------------------------------------------------------------------------
(* What happens around the calls.                                            *)

\* A Redis command of the manager fails, or the process dies: the call is over,
\* a lock it held stays until it runs out.
Breaks(c) ==
    /\ at[c] \in {"get", "lock", "store", "release", "refused", "wait", "rejected"}
    /\ Fail
    /\ FinishCall(c, "error")
    /\ UNCHANGED <<cached, lock, alive, issued, callKind, cookie, attempts, page, items, sessionGhosts, events>>

Ends == events < MaxEvents /\ events' = events + 1

\* LOCK_MS have passed.
LockExpires ==
    /\ lock # Nobody
    /\ Ends
    /\ late' = IF at[lock] \in {"login", "store", "release", "refused"} THEN late \union {lock} ELSE late
    /\ lock' = Nobody
    /\ UNCHANGED <<cached, alive, issued, local, sapApplied, faults>>

\* The key expires, before SAP's session does (SESSION_TTL_SAFETY_SECONDS).
CacheExpires ==
    /\ cached # NoSession
    /\ cached' = NoSession
    /\ Ends
    /\ UNCHANGED <<lock, alive, issued, local, sessionGhosts, faults>>

SapEnds ==
    /\ Ends
    /\ \E s \in alive : alive' = alive \ {s}
    /\ UNCHANGED <<cached, lock, issued, local, sessionGhosts, faults>>

AllDone == \A c \in Caller : at[c] = "done"
SessionIdle == AllDone /\ UNCHANGED sessionVars

SessionStep(c) ==
    \/ GetSession(c) \/ TakeLock(c) \/ Login(c) \/ LoginFails(c)
    \/ StoreSession(c) \/ ReleaseLock(c) \/ FindSession(c) \/ WaitTimesOut(c)
    \/ Accepted(c) \/ RejectedCall(c) \/ Invalidate(c)

SessionNext ==
    \/ \E c \in Caller : SessionStep(c) \/ LostAnswer(c) \/ Breaks(c)
    \/ LockExpires \/ CacheExpires \/ SapEnds
    \/ SessionIdle

SessionSpec == SessionInit /\ [][SessionNext]_sessionVars
-----------------------------------------------------------------------------
(* Properties.                                                               *)

SessionTypeOK ==
    /\ cached \in Session \union {NoSession}
    /\ lock \in Caller \union {Nobody}
    /\ alive \subseteq 1..issued
    /\ at \in [Caller -> {"get", "lock", "login", "store", "release", "refused", "wait",
                          "call", "rejected", "done"}]
    /\ attempts \in [Caller -> 0..2]
    /\ late \subseteq Caller

\* Two logins are under way at once only if the lock of one of them ran out:
\* nobody frees the lock of another (releaseLock compares its value).
OneLoginAtATime ==
    \A c, d \in Caller :
        /\ c # d
        /\ at[c] \in {"login", "store"} /\ at[d] \in {"login", "store"}
        => c \in late \/ d \in late

\* A walk that ends well has every page once and in order, although its session
\* was rejected on the way and it began again with another.
WholeCollection ==
    \A c \in Caller :
        (reply[c] = "ok" /\ callKind[c] = "walk") => items[c] = [p \in 1..Pages |-> p]

\* SAP applies a write at most once, whatever is rejected, lost or repeated.
WrittenAtMostOnce == \A c \in Caller : sapApplied[c] <= 1
=============================================================================
