----------------------------- MODULE PanelAccess -----------------------------
(* One account of the panel, its sessions and its personal API tokens, and the *)
(* requests that log in, change or reset its password, deactivate and          *)
(* reactivate it, create and revoke tokens, and log out.                       *)
(*                                                                            *)
(* A request reads the account, waits for a slot of the password hasher, and   *)
(* writes later; only tokenVersion and the conditional writes of the           *)
(* repositories stand between two requests. Redis and Mongo may fail.          *)
EXTENDS Integers, FiniteSets, Sequences

CONSTANTS
    PanelRequest,        \* requests, each made once; a request also stands for what it creates
    First,          \* what there is at the start: the password, a session, a token
    Kinds,          \* the operations requests may ask for (subset of PanelKind)
    MaxAttempts,    \* maxAttempts of RedisLoginAttempts
    MaxTokens,      \* MAX_ACTIVE_API_TOKENS
    MaxConcurrent,  \* maxConcurrent of ConcurrencyLimiter
    MaxQueue,       \* its maxQueue
    MaxOutages       \* bound of failing calls

ASSUME LimitsAssumption ==
    /\ MaxConcurrent \in Nat \ {0}
    /\ MaxQueue \in Nat
    /\ First \notin PanelRequest

VARIABLES
    account,        \* the PanelUser document: active, tokenVersion, password, mustChange
    sessions,       \* signed session tokens: sid, tv, and (ghost) the password they were given for
    revokedSids,    \* PanelRevokedSessions
    tokens,         \* PanelApiTokens: "none", "active" or "revoked"
    redis, memory,  \* attempts counted in Redis and in the process, for each counter
    degraded,       \* counters that avoid Redis: now < redisUnavailableUntil
    slots,          \* active of the limiter
    waiting,        \* its queue
    phase, kind, reply,
    arg,            \* the password tried, and the session or token named
    loaded,           \* the account as the request read it
    pending,        \* tokens that revokeAllForUser found
    before,         \* ghost: tokens that were active when the account was deactivated
    overlapped,     \* ghost: token creations that counted before another inserted
    over,           \* ghost: token creations that passed the limit
    passed,         \* ghost: attempts let through since the last correct password
    outages

attempts == <<redis, memory, degraded, passed>>
limiter == <<slots, waiting>>
store == <<account, sessions, revokedSids, tokens>>
locals == <<kind, arg, loaded, pending>>
accessGhosts == <<before, overlapped, over>>
accessVars == <<store, attempts, limiter, phase, reply, locals, accessGhosts, outages>>

PanelKind == {"login", "createToken", "revokeToken", "changePassword", "resetPassword",
         "deactivate", "reactivate", "logout"}
Counter == {"login", "createToken"}
Id == PanelRequest \union {First}
Password == Id
Wrong == "wrong"

AccessInit ==
    /\ account \in {u \in [active : BOOLEAN, tokenVersion : {0, 1}, password : {First},
                           mustChange : BOOLEAN] : u.tokenVersion = IF u.active THEN 0 ELSE 1}
    /\ sessions = {[sid |-> First, tv |-> 0, password |-> First]}
    /\ revokedSids = {}
    /\ tokens = [i \in Id |-> IF i = First /\ account.active THEN "active" ELSE "none"]
    /\ redis = [c \in Counter |-> 0]
    /\ memory = [c \in Counter |-> 0]
    /\ degraded = {}
    /\ passed = [c \in Counter |-> 0]
    /\ slots = 0
    /\ waiting = <<>>
    /\ phase = [r \in PanelRequest |-> "new"]
    /\ kind = [r \in PanelRequest |-> "none"]
    /\ reply = [r \in PanelRequest |-> "none"]
    /\ arg = [r \in PanelRequest |-> [password |-> Wrong, id |-> First]]
    /\ loaded = [r \in PanelRequest |-> account]
    /\ pending = [r \in PanelRequest |-> {}]
    /\ before = [r \in PanelRequest |-> {}]
    /\ overlapped = {}
    /\ over = {}
    /\ outages = 0

ActiveTokens == {i \in Id : tokens[i] = "active"}
Sids == {s.sid : s \in sessions}

\* ResolvePanelSession: the account is active, at the version the session was
\* signed for, and the session has not been closed.
SessionResolves(s) ==
    /\ account.active
    /\ s.tv = account.tokenVersion
    /\ s.sid \notin revokedSids

\* ResolveApiToken.
ResolvesToken(i) == tokens[i] = "active" /\ account.active

ResolvesByVersion(s) == account.active /\ s.tv = account.tokenVersion

GoTo(r, label) == phase' = [phase EXCEPT ![r] = label]

Finish(r, result) ==
    /\ GoTo(r, "done")
    /\ reply' = [reply EXCEPT ![r] = result]

AccessStep(r, from) == phase[r] = from /\ UNCHANGED <<kind, arg>>
Fail == outages < MaxOutages /\ outages' = outages + 1
-----------------------------------------------------------------------------
(* The start of a request: panelRequestGuard.                                *)

\* Login, logout and the administrator's requests need no session of this
\* account. The others resolve theirs, and all but a change of password are
\* refused while one is pending.
Admitted(k, sid) ==
    k \in {"createToken", "revokeToken", "changePassword"} =>
        /\ \E s \in sessions : s.sid = sid /\ SessionResolves(s)
        /\ account.mustChange => k = "changePassword"

\* revokeToken names a token, the other requests of the account's own a session.
Start(r) ==
    /\ phase[r] = "new"
    /\ \E k \in Kinds, p \in {account.password, First, Wrong}, i \in Id :
        /\ k \notin {"login", "createToken", "changePassword"} => p = Wrong
        /\ k \in {"login", "resetPassword", "deactivate", "reactivate"} => i = First
        /\ k = "revokeToken" => tokens[i] # "none"
        /\ k \in {"createToken", "changePassword", "logout"} => i \in Sids
        /\ kind' = [kind EXCEPT ![r] = k]
        /\ arg' = [arg EXCEPT ![r] = [password |-> p, id |-> i]]
        /\ IF ~Admitted(k, IF k = "revokeToken" THEN First ELSE i)
           THEN Finish(r, "unauthorized")
           ELSE /\ GoTo(r, CASE k \in Counter -> "consume"
                             [] k = "logout" -> "logout"
                             [] k = "revokeToken" -> "revokeToken"
                             [] OTHER -> "read")
                /\ UNCHANGED reply
    /\ UNCHANGED <<store, attempts, limiter, loaded, pending, accessGhosts, outages>>
-----------------------------------------------------------------------------
(* RedisLoginAttempts, within one window: a correct password resets a counter. *)

SlackBlocked(count) == count > MaxAttempts + 1

Blocked(count) == count > MaxAttempts

\* #memoryIncrement.
MemoryIncrement(c) == memory' = [memory EXCEPT ![c] = @ + 1]

\* What consume lets through, with the count it has reached.
LetThrough(r, c, count) ==
    IF Blocked(count)
    THEN Finish(r, "too_many_attempts") /\ UNCHANGED passed
    ELSE /\ passed' = [passed EXCEPT ![c] = @ + 1]
         /\ GoTo(r, "read")
         /\ UNCHANGED reply

ConsumeInRedis(r, c) ==
    /\ c \notin degraded
    /\ redis' = [redis EXCEPT ![c] = @ + 1]
    /\ LetThrough(r, c, redis[c] + 1)
    /\ UNCHANGED <<memory, degraded, outages>>

\* The command fails or times out; Redis may have run it, or run it yet.
ConsumeFails(r, c) ==
    /\ c \notin degraded
    /\ Fail
    /\ redis' \in {redis, [redis EXCEPT ![c] = @ + 1]}
    /\ degraded' = degraded \union {c}
    /\ MemoryIncrement(c)
    /\ LetThrough(r, c, memory[c] + 1)

ConsumeInMemory(r, c) ==
    /\ c \in degraded
    /\ MemoryIncrement(c)
    /\ LetThrough(r, c, memory[c] + 1)
    /\ UNCHANGED <<redis, degraded, outages>>

consume(r) ==
    /\ AccessStep(r, "consume")
    /\ \/ ConsumeInRedis(r, kind[r])
       \/ ConsumeFails(r, kind[r])
       \/ ConsumeInMemory(r, kind[r])
    /\ UNCHANGED <<store, limiter, loaded, pending, accessGhosts>>

\* reset: the memory always, Redis if it answers.
reset(r) ==
    /\ AccessStep(r, "resetAttempts")
    /\ memory' = [memory EXCEPT ![kind[r]] = 0]
    /\ passed' = [passed EXCEPT ![kind[r]] = 0]
    /\ \/ /\ kind[r] \notin degraded
          /\ redis' = [redis EXCEPT ![kind[r]] = 0]
          /\ UNCHANGED <<degraded, outages>>
       \/ /\ kind[r] \notin degraded
          /\ Fail
          /\ redis' \in {redis, [redis EXCEPT ![kind[r]] = 0]}
          /\ degraded' = degraded \union {kind[r]}
       \/ /\ kind[r] \in degraded
          /\ UNCHANGED <<redis, degraded, outages>>
    /\ GoTo(r, IF kind[r] = "login" THEN "sign" ELSE "count")
    /\ UNCHANGED <<store, limiter, reply, loaded, pending, accessGhosts>>

\* retryAfterMs have passed.
RetryRedis(c) ==
    /\ c \in degraded
    /\ degraded' = degraded \ {c}
    /\ UNCHANGED <<store, redis, memory, passed, limiter, phase, reply, locals, accessGhosts, outages>>
-----------------------------------------------------------------------------
(* ConcurrencyLimiter around scrypt. "verify" and "hash" ask for a slot,      *)
(* "verifying" and "hashing" hold one.                                        *)

Wants == {"verify", "hash"}
Holds == {"verifying", "hashing"}
Granted(want) == IF want = "verify" THEN "verifying" ELSE "hashing"

Waits(r) == \E i \in 1..Len(waiting) : waiting[i] = r
Holders == {r \in PanelRequest : phase[r] \in Holds}

AskSlot(r) ==
    /\ phase[r] \in Wants
    /\ ~Waits(r)
    /\ IF slots < MaxConcurrent
       THEN slots' = slots + 1 /\ GoTo(r, Granted(phase[r])) /\ UNCHANGED <<waiting, reply>>
       ELSE IF Len(waiting) < MaxQueue
       THEN waiting' = Append(waiting, r) /\ UNCHANGED <<slots, phase, reply>>
       ELSE Finish(r, "busy") /\ UNCHANGED limiter
    /\ UNCHANGED <<store, attempts, locals, accessGhosts, outages>>

ReleaseWithoutHandover(r, next) ==
    /\ slots' = slots - 1
    /\ waiting' = IF waiting = <<>> THEN waiting ELSE Tail(waiting)
    /\ phase' = IF waiting = <<>> THEN [phase EXCEPT ![r] = next]
             ELSE [phase EXCEPT ![r] = next, ![Head(waiting)] = Granted(phase[Head(waiting)])]

\* #release after r's task, with which r goes on at `next`: the slot passes to
\* the head of the queue.
ReleaseSlot(r, next) ==
    IF waiting = <<>>
    THEN slots' = slots - 1 /\ waiting' = waiting /\ GoTo(r, next)
    ELSE /\ waiting' = Tail(waiting)
         /\ slots' = slots
         /\ phase' = [phase EXCEPT ![r] = next, ![Head(waiting)] = Granted(phase[Head(waiting)])]
-----------------------------------------------------------------------------
(* Reading the account, and what a checked password leads to.                *)

\* findByEmail, findById. A login with an inactive account still spends the
\* work of a verification (verifyDummy).
Read(r) ==
    /\ AccessStep(r, "read")
    /\ loaded' = [loaded EXCEPT ![r] = account]
    /\ CASE kind[r] \in {"createToken", "changePassword"} ->
              IF account.active THEN GoTo(r, "verify") /\ UNCHANGED reply
                                ELSE Finish(r, "unauthorized")
         [] kind[r] = "login" -> GoTo(r, "verify") /\ UNCHANGED reply
         [] kind[r] = "resetPassword" -> GoTo(r, "hash") /\ UNCHANGED reply
         [] OTHER -> GoTo(r, "update") /\ UNCHANGED reply
    /\ UNCHANGED <<store, attempts, limiter, pending, accessGhosts, outages>>

Matches(r) == arg[r].password = loaded[r].password

\* passwordHasher.verify has answered.
Verify(r) ==
    /\ AccessStep(r, "verifying")
    /\ IF Matches(r) /\ loaded[r].active
       THEN /\ ReleaseSlot(r, IF kind[r] = "changePassword" THEN "hash" ELSE "resetAttempts")
            /\ UNCHANGED reply
       ELSE /\ ReleaseSlot(r, "done")
            /\ reply' = [reply EXCEPT ![r] = "invalid_credentials"]
    /\ UNCHANGED <<store, attempts, loaded, pending, accessGhosts, outages>>

\* passwordHasher.hash has answered.
Hash(r) ==
    /\ AccessStep(r, "hashing")
    /\ ReleaseSlot(r, "incrementTokenVersion")
    /\ UNCHANGED <<store, attempts, reply, loaded, pending, accessGhosts, outages>>

Session(r, u) == [sid |-> r, tv |-> u.tokenVersion, password |-> u.password]

\* LoginPanelUser signs for the account as it read it.
Sign(r) ==
    /\ AccessStep(r, "sign")
    /\ sessions' = sessions \union {Session(r, loaded[r])}
    /\ Finish(r, "ok")
    /\ UNCHANGED <<account, revokedSids, tokens, attempts, limiter, loaded, pending, accessGhosts, outages>>
-----------------------------------------------------------------------------
(* MongoosePanelUserRepository: one atomic write each.                       *)

\* update: $set alone.
Updated(u, change) == [change EXCEPT !.tokenVersion = u.tokenVersion]

NotIncremented(u, change) == [change EXCEPT !.tokenVersion = u.tokenVersion]

\* incrementTokenVersion: $set and $inc.
Incremented(u, change) == [change EXCEPT !.tokenVersion = u.tokenVersion + 1]

AnyVersion(r) == account.tokenVersion >= loaded[r].tokenVersion

\* The filter of incrementTokenVersion with an expectedVersion.
SameVersion(r) == account.tokenVersion = loaded[r].tokenVersion

\* ChangePanelPassword: the session goes on with a new token.
ChangePassword(r) ==
    /\ kind[r] = "changePassword"
    /\ IF SameVersion(r)
       THEN /\ account' = Incremented(account, [account EXCEPT !.password = r, !.mustChange = FALSE])
            /\ sessions' = sessions \union {Session(r, account')}
            /\ Finish(r, "ok")
       ELSE Finish(r, "unauthorized") /\ UNCHANGED <<account, sessions>>

\* ManagePanelUsers.resetPassword.
ResetPassword(r) ==
    /\ kind[r] = "resetPassword"
    /\ account' = Incremented(account, [account EXCEPT !.password = r, !.mustChange = TRUE])
    /\ GoTo(r, "findTokens")
    /\ UNCHANGED <<sessions, reply>>

SetPassword(r) ==
    /\ AccessStep(r, "incrementTokenVersion")
    /\ ChangePassword(r) \/ ResetPassword(r)
    /\ UNCHANGED <<revokedSids, tokens, attempts, limiter, loaded, pending, accessGhosts, outages>>

DeactivatesAsRead(r) == kind[r] = "deactivate" /\ ~loaded[r].active

\* ManagePanelUsers.update of `active`: whether it deactivates is decided on
\* the account as it was read.
Deactivates(r) == kind[r] = "deactivate" /\ loaded[r].active

Update(r) ==
    /\ AccessStep(r, "update")
    /\ LET change == [account EXCEPT !.active = (kind[r] = "reactivate")]
       IN IF Deactivates(r)
          THEN /\ account' = Incremented(account, change)
               /\ before' = [before EXCEPT ![r] = ActiveTokens]
               /\ GoTo(r, "findTokens")
               /\ UNCHANGED reply
          ELSE /\ account' = Updated(account, change)
               /\ Finish(r, "ok")
               /\ UNCHANGED before
    /\ UNCHANGED <<sessions, revokedSids, tokens, attempts, limiter, loaded, pending,
                   overlapped, over, outages>>
-----------------------------------------------------------------------------
(* API tokens.                                                               *)

\* MongoosePanelApiTokenRepository.revokeAllForUser: first it looks for the
\* tokens, then it revokes them one by one.
FindTokens(r) ==
    /\ AccessStep(r, "findTokens")
    /\ pending' = [pending EXCEPT ![r] = ActiveTokens]
    /\ GoTo(r, "revokeAll")
    /\ UNCHANGED <<store, attempts, limiter, reply, loaded, accessGhosts, outages>>

\* revoke: only a token that is not revoked yet.
Revoked(i) == [tokens EXCEPT ![i] = IF @ = "active" THEN "revoked" ELSE @]

RevokeNext(r) ==
    /\ AccessStep(r, "revokeAll")
    /\ \E i \in pending[r] :
        /\ tokens' = Revoked(i)
        /\ pending' = [pending EXCEPT ![r] = @ \ {i}]
    /\ UNCHANGED <<account, sessions, revokedSids, attempts, limiter, phase, reply, loaded, accessGhosts, outages>>

RevokeAllEnds(r) ==
    /\ AccessStep(r, "revokeAll")
    /\ pending[r] = {}
    /\ Finish(r, "ok")
    /\ UNCHANGED <<store, attempts, limiter, loaded, pending, accessGhosts, outages>>

SwallowsRevokeError(r) == IF kind[r] = "logout" THEN "internal_error" ELSE "ok"

\* A failing revocation is an error to the one who deactivates, and is
\* swallowed for a reset, which has a password to hand over.
AfterRevokeError(r) == IF kind[r] = "resetPassword" THEN "ok" ELSE "internal_error"

RevokeAllFails(r) ==
    /\ AccessStep(r, "revokeAll")
    /\ Fail
    /\ Finish(r, AfterRevokeError(r))
    /\ UNCHANGED <<store, attempts, limiter, loaded, pending, accessGhosts>>

\* ManageApiTokens.revoke, by the owner.
RevokeToken(r) ==
    /\ AccessStep(r, "revokeToken")
    /\ IF tokens[arg[r].id] = "active"
       THEN tokens' = Revoked(arg[r].id) /\ Finish(r, "ok")
       ELSE Finish(r, "not_found") /\ UNCHANGED tokens
    /\ UNCHANGED <<account, sessions, revokedSids, attempts, limiter, loaded, pending, accessGhosts, outages>>

PastLimit(count) == count > MaxTokens

AtLimit(count) == count >= MaxTokens

\* ManageApiTokens.create: countActiveByUser.
Count(r) ==
    /\ AccessStep(r, "count")
    /\ IF AtLimit(Cardinality(ActiveTokens))
       THEN Finish(r, "token_limit")
       ELSE GoTo(r, "insert") /\ UNCHANGED reply
    /\ UNCHANGED <<store, attempts, limiter, loaded, pending, accessGhosts, outages>>

Insert(r) ==
    /\ AccessStep(r, "insert")
    /\ tokens' = [tokens EXCEPT ![r] = "active"]
    /\ over' = IF Cardinality(ActiveTokens) >= MaxTokens THEN over \union {r} ELSE over
    /\ overlapped' = overlapped \union {q \in PanelRequest \ {r} : phase[q] = "insert"}
    /\ Finish(r, "created")
    /\ UNCHANGED <<account, sessions, revokedSids, attempts, limiter, loaded, pending, before, outages>>
-----------------------------------------------------------------------------
(* LogoutPanelSession: closes this session only, and never fails.            *)

Logout(r) ==
    /\ AccessStep(r, "logout")
    /\ \/ /\ revokedSids' = revokedSids \union {arg[r].id}
          /\ UNCHANGED outages
       \/ Fail /\ UNCHANGED revokedSids
    /\ Finish(r, "no_content")
    /\ UNCHANGED <<account, sessions, tokens, attempts, limiter, loaded, pending, accessGhosts>>
-----------------------------------------------------------------------------
AllAnswered == \A r \in PanelRequest : phase[r] = "done"

Idle == AllAnswered /\ UNCHANGED accessVars

AccessNext ==
    \/ \E r \in PanelRequest :
        \/ Start(r) \/ consume(r) \/ reset(r) \/ AskSlot(r)
        \/ Read(r) \/ Verify(r) \/ Hash(r) \/ Sign(r)
        \/ SetPassword(r) \/ Update(r)
        \/ FindTokens(r) \/ RevokeNext(r) \/ RevokeAllEnds(r) \/ RevokeAllFails(r)
        \/ RevokeToken(r) \/ Count(r) \/ Insert(r) \/ Logout(r)
    \/ \E c \in Counter : RetryRedis(c)
    \/ Idle

AccessSpec == AccessInit /\ [][AccessNext]_accessVars
-----------------------------------------------------------------------------
(* Properties.                                                               *)

Label == {"new", "consume", "resetAttempts", "read", "update", "findTokens", "revokeAll",
          "revokeToken", "count", "insert", "sign", "logout", "incrementTokenVersion",
          "done"} \union Wants \union Holds

Account == [active : BOOLEAN, tokenVersion : Nat, password : Password, mustChange : BOOLEAN]

\* Types of the variables; and the slots of the hasher add up: as many are
\* taken as requests hold one, never more than there are, and nobody waits
\* while one is free.
AccessTypeOK ==
    /\ account \in Account
    /\ sessions \subseteq [sid : Id, tv : Nat, password : Password]
    /\ revokedSids \subseteq Id
    /\ tokens \in [Id -> {"none", "active", "revoked"}]
    /\ phase \in [PanelRequest -> Label]
    /\ loaded \in [PanelRequest -> Account]
    /\ pending \in [PanelRequest -> SUBSET Id]
    /\ degraded \subseteq Counter
    /\ slots = Cardinality(Holders)
    /\ slots <= MaxConcurrent
    /\ waiting # <<>> => slots = MaxConcurrent

\* A session that resolves was given for the password the account has now: a
\* change or a reset of the password ends the sessions of the old one, those of
\* logins still on their way included.
SessionsKnowThePassword ==
    \A s \in sessions : SessionResolves(s) => s.password = account.password

\* A session that does not resolve any more (its account deactivated, its
\* password changed, itself closed) never resolves again, whatever is
\* reactivated later. The exception is the race of ManagePanelUsers.js:252: a
\* deactivation that had read the account inactive raises no version.
StaleDeactivation == \E r \in PanelRequest : kind[r] = "deactivate" /\ ~loaded[r].active

SessionsStayEnded ==
    [][\A s \in sessions : ~SessionResolves(s) => ~SessionResolves(s)' \/ StaleDeactivation]_accessVars

\* A change of password replaces only the password it has verified: it never
\* overwrites a reset, or another change, that came between.
ChangeReplacesWhatItVerified ==
    [][\A r \in PanelRequest :
        /\ kind[r] = "changePassword"
        /\ account'.password = r
        => account.password \in {arg[r].password, r}]_accessVars

\* A deactivation that raised the version and answered 200 has revoked every
\* token there was when it was saved: a reactivation revives none of them.
DeactivationRevokes ==
    \A r \in PanelRequest :
        reply[r] = "ok" /\ Deactivates(r) => before[r] \intersect ActiveTokens = {}

\* The limit of active tokens is passed only by creations that had counted
\* before another one inserted its own.
LimitPassedByOverlap == over \subseteq overlapped

\* Within a window, and between two correct passwords, no more attempts are let
\* through than Redis and the memory of the process count each; with Redis at
\* hand, no more than the limit.
AttemptsBounded ==
    \A c \in Counter :
        passed[c] <= IF outages = 0 THEN MaxAttempts ELSE 2 * MaxAttempts

\* What ManagePanelUsers.js:263-264 and contract 12 promise of a deactivation
\* whose revocation failed: the administrator tries again, and no token is left.
RetriedDeactivationRevokes ==
    \A r \in PanelRequest :
        (kind[r] = "deactivate" /\ reply[r] = "ok") =>
            \A q \in PanelRequest :
                /\ reply[q] = "internal_error"
                /\ loaded[r].tokenVersion > loaded[q].tokenVersion
                =>
                before[q] \intersect ActiveTokens = {}
=============================================================================
