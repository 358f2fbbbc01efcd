------------------------------ MODULE PanelProofs ------------------------------
(* Proofs about the panel, for any number of requests, tokens, sessions and     *)
(* keys: a session never outlives the password it was given for, a deactivation *)
(* leaves none of the tokens it found, an Idempotency-Key publishes once.       *)
EXTENDS PanelAccess, SupportTicket, TLAPS

-----------------------------------------------------------------------------
(* Sessions. *)

\* What a reading of the account may have seen: an older version, or the
\* password of the version there is.
Seen(version, password) ==
    /\ version <= account.tokenVersion
    /\ version = account.tokenVersion => password = account.password

VersionsBindPasswords ==
    /\ account \in Account
    /\ loaded \in [PanelRequest -> Account]
    /\ sessions \subseteq [sid : Id, tv : Nat, password : Password]
    /\ \A s \in sessions : Seen(s.tv, s.password)
    /\ \A r \in PanelRequest : Seen(loaded[r].tokenVersion, loaded[r].password)

LEMMA AccessInitVersions == AccessInit => VersionsBindPasswords
  BY DEF AccessInit, VersionsBindPasswords, Seen, Account, Password, Id

\* A write of the account that keeps the password of its version, or raises the
\* version, keeps the invariant.
LEMMA WriteKeepsVersions ==
    ASSUME VersionsBindPasswords, account' \in Account, UNCHANGED loaded,
           \/ /\ account'.tokenVersion = account.tokenVersion
              /\ account'.password = account.password
           \/ account'.tokenVersion = account.tokenVersion + 1,
           \/ UNCHANGED sessions
           \/ \E r \in PanelRequest : sessions' = sessions \union {Session(r, account')}
    PROVE  VersionsBindPasswords'
  <1>1. \A s \in sessions : s.tv \in Nat
    BY DEF VersionsBindPasswords
  <1>2. account.tokenVersion \in Nat /\ account'.tokenVersion \in Nat
    BY DEF VersionsBindPasswords, Account
  <1>3. \A s \in sessions : Seen(s.tv, s.password)'
    BY <1>1, <1>2 DEF VersionsBindPasswords, Seen
  <1>4. \A r \in PanelRequest : Seen(loaded[r].tokenVersion, loaded[r].password)'
    BY <1>2 DEF VersionsBindPasswords, Seen, Account
  <1>5. ASSUME NEW r \in PanelRequest
        PROVE  /\ Session(r, account') \in [sid : Id, tv : Nat, password : Password]
               /\ Session(r, account').tv = account'.tokenVersion
               /\ Session(r, account').password = account'.password
    BY <1>2 DEF Session, Account, Id
  <1>6. \A s \in sessions' : Seen(s.tv, s.password)'
    BY <1>2, <1>3, <1>5 DEF Seen
  <1> QED BY <1>4, <1>5, <1>6 DEF VersionsBindPasswords

LEMMA AccountWrites ==
    ASSUME NEW u \in Account, NEW change \in Account
    PROVE  /\ Incremented(u, change) \in Account
           /\ Incremented(u, change).tokenVersion = u.tokenVersion + 1
           /\ Updated(u, change) \in Account
           /\ Updated(u, change).tokenVersion = u.tokenVersion
           /\ Updated(u, change).password = change.password
  BY DEF Incremented, Updated, Account

LEMMA AccountChanges ==
    ASSUME NEW u \in Account, NEW flag \in BOOLEAN, NEW password \in Password
    PROVE  /\ [u EXCEPT !.active = flag] \in Account
           /\ [u EXCEPT !.active = flag].password = u.password
           /\ [u EXCEPT !.password = password, !.mustChange = flag] \in Account
  BY DEF Account

LEMMA UpdateKeepsVersions ==
    ASSUME VersionsBindPasswords, NEW r \in PanelRequest, Update(r)
    PROVE  VersionsBindPasswords'
  <1>1. UNCHANGED <<loaded, sessions>>
    BY DEF Update
  <1>2. account \in Account
    BY DEF VersionsBindPasswords
  <1> DEFINE change == [account EXCEPT !.active = (kind[r] = "reactivate")]
  <1>3. account' \in {Incremented(account, change), Updated(account, change)}
    BY DEF Update
  <1>4. change \in Account /\ change.password = account.password
    BY <1>2 DEF Account
  <1> HIDE DEF change
  <1>5. /\ account' \in Account
        /\ \/ /\ account'.tokenVersion = account.tokenVersion
              /\ account'.password = account.password
           \/ account'.tokenVersion = account.tokenVersion + 1
    BY <1>2, <1>3, <1>4, AccountWrites
  <1> QED BY <1>1, <1>5, WriteKeepsVersions

LEMMA SetPasswordKeepsVersions ==
    ASSUME VersionsBindPasswords, NEW r \in PanelRequest, SetPassword(r)
    PROVE  VersionsBindPasswords'
  <1>1. UNCHANGED loaded
    BY DEF SetPassword
  <1>2. account \in Account /\ r \in Password
    BY DEF VersionsBindPasswords, Password, Id
  <1>3. \/ UNCHANGED <<account, sessions>>
        \/ /\ \E must \in BOOLEAN : account' =
                 Incremented(account, [account EXCEPT !.password = r, !.mustChange = must])
           /\ UNCHANGED sessions \/ sessions' = sessions \union {Session(r, account')}
    BY DEF SetPassword, ChangePassword, ResetPassword
  <1>4. CASE UNCHANGED <<account, sessions>>
    BY <1>1, <1>4 DEF VersionsBindPasswords, Seen
  <1>5. ASSUME NEW must \in BOOLEAN, account' =
                 Incremented(account, [account EXCEPT !.password = r, !.mustChange = must]),
               UNCHANGED sessions \/ sessions' = sessions \union {Session(r, account')}
        PROVE  VersionsBindPasswords'
    <2>1. account' \in Account /\ account'.tokenVersion = account.tokenVersion + 1
      BY <1>2, <1>5, AccountWrites, AccountChanges
    <2> QED BY <1>1, <1>5, <2>1, WriteKeepsVersions
  <1> QED BY <1>3, <1>4, <1>5

LEMMA AccessNextKeepsVersions ==
    VersionsBindPasswords /\ [AccessNext]_accessVars => VersionsBindPasswords'
  <1> SUFFICES ASSUME VersionsBindPasswords, [AccessNext]_accessVars
               PROVE  VersionsBindPasswords'
    OBVIOUS
  <1>1. CASE UNCHANGED <<account, sessions, loaded>>
    BY <1>1 DEF VersionsBindPasswords, Seen
  <1>2. ASSUME NEW r \in PanelRequest, Read(r) PROVE VersionsBindPasswords'
    BY <1>2 DEF VersionsBindPasswords, Seen, Read, store, Account
  <1>3. ASSUME NEW r \in PanelRequest, Sign(r) PROVE VersionsBindPasswords'
    <2>1. sessions' = sessions \union {Session(r, loaded[r])} /\ UNCHANGED <<account, loaded>>
      BY <1>3 DEF Sign
    <2>2. Session(r, loaded[r]) \in [sid : Id, tv : Nat, password : Password]
      BY DEF Session, VersionsBindPasswords, Account, Id
    <2>3. Seen(Session(r, loaded[r]).tv, Session(r, loaded[r]).password)
      BY DEF Session, VersionsBindPasswords
    <2> QED BY <2>1, <2>2, <2>3 DEF VersionsBindPasswords, Seen
  <1>4. ASSUME NEW r \in PanelRequest,
               \/ Start(r) \/ consume(r) \/ reset(r) \/ AskSlot(r) \/ Verify(r) \/ Hash(r)
               \/ FindTokens(r) \/ RevokeNext(r) \/ RevokeAllEnds(r) \/ RevokeAllFails(r)
               \/ RevokeToken(r) \/ Count(r) \/ Insert(r) \/ Logout(r)
        PROVE  UNCHANGED <<account, sessions, loaded>>
    BY <1>4 DEF Start, consume, reset, AskSlot, Verify, Hash, FindTokens, RevokeNext,
       RevokeAllEnds, RevokeAllFails, RevokeToken, Count, Insert, Logout, store, locals
  <1>5. (\E c \in Counter : RetryRedis(c)) \/ Idle \/ UNCHANGED accessVars
          => UNCHANGED <<account, sessions, loaded>>
    BY DEF RetryRedis, Idle, accessVars, store, locals
  <1> QED
    BY <1>1, <1>2, <1>3, <1>4, <1>5, UpdateKeepsVersions, SetPasswordKeepsVersions DEF AccessNext

\* A session that resolves was given for the password the account has now: every
\* write of the password raises the version, and a login signs for the version
\* it has read together with the password it has verified.
THEOREM SessionsEndWithThePassword == AccessSpec => []SessionsKnowThePassword
  <1>1. VersionsBindPasswords => SessionsKnowThePassword
    BY DEF VersionsBindPasswords, Seen, SessionsKnowThePassword, SessionResolves
  <1> QED BY AccessInitVersions, AccessNextKeepsVersions, <1>1, PTL DEF AccessSpec

-----------------------------------------------------------------------------
(* Deactivations. *)

Replies == {"none", "unauthorized", "too_many_attempts", "busy", "invalid_credentials", "ok",
            "internal_error", "not_found", "token_limit", "created", "no_content"}
DeactivationPhase == {"read", "update", "findTokens", "revokeAll", "done"}

\* Those in the queue of the hasher are there once, and want a slot.
WaitersWant ==
    /\ waiting \in Seq(PanelRequest)
    /\ \A i \in 1..Len(waiting) : phase[waiting[i]] \in Wants
    /\ \A i, j \in 1..Len(waiting) : waiting[i] = waiting[j] => i = j

RequestTypes ==
    /\ phase \in [PanelRequest -> Label]
    /\ reply \in [PanelRequest -> Replies]
    /\ kind = [r \in PanelRequest |-> kind[r]]
    /\ loaded = [r \in PanelRequest |-> loaded[r]]
    /\ tokens \in [Id -> {"none", "active", "revoked"}]
    /\ pending \in [PanelRequest -> SUBSET Id]
    /\ before \in [PanelRequest -> SUBSET Id]

\* A token is inserted once, as the last step of its request, and a revoked one
\* never comes back: what a deactivation found active can only become less, and
\* what is left of it is what revokeAllForUser has still to revoke.
RevocationsOnTheWay ==
    /\ RequestTypes
    /\ \A r \in PanelRequest :
          /\ phase[r] # "done" => reply[r] = "none" /\ tokens[r] = "none"
          /\ kind[r] = "deactivate" => phase[r] \in DeactivationPhase
          /\ \A i \in before[r] : tokens[i] # "none"
          /\ phase[r] = "revokeAll" => before[r] \intersect ActiveTokens \subseteq pending[r]
    /\ DeactivationRevokes

LEMMA AccessInitRevocations == AccessInit => WaitersWant /\ RevocationsOnTheWay
  BY LimitsAssumption
  DEF AccessInit, WaitersWant, RevocationsOnTheWay, RequestTypes, DeactivationRevokes, Label,
      Replies, DeactivationPhase, Id, Wants, Holds

\* A request that neither writes tokens nor reads the account stays where it is,
\* or goes on without being told that a deactivation is done.
GoesOn(r) ==
    \/ phase'[r] = phase[r] /\ reply'[r] = reply[r]
    \/ /\ phase[r] # "done"
       /\ phase'[r] # "revokeAll"
       /\ phase'[r] # "done" => reply'[r] = reply[r]
       /\ kind[r] = "deactivate" => phase'[r] \in DeactivationPhase
       /\ reply'[r] = "ok" /\ Deactivates(r) => before[r] \intersect ActiveTokens = {}

LEMMA GoingOnKeepsRevocations ==
    ASSUME RevocationsOnTheWay, UNCHANGED <<kind, loaded, tokens, pending, before>>,
           phase' \in [PanelRequest -> Label], reply' \in [PanelRequest -> Replies],
           \A r \in PanelRequest : GoesOn(r)
    PROVE  RevocationsOnTheWay'
  <1>1. RequestTypes'
    BY DEF RevocationsOnTheWay, RequestTypes
  <1>2. DeactivationRevokes'
    BY DEF RevocationsOnTheWay, RequestTypes, DeactivationRevokes, Deactivates, ActiveTokens, GoesOn
  <1>3. ASSUME NEW r \in PanelRequest
        PROVE  /\ phase'[r] # "done" => reply'[r] = "none" /\ tokens'[r] = "none"
               /\ kind'[r] = "deactivate" => phase'[r] \in DeactivationPhase
               /\ \A i \in before'[r] : tokens'[i] # "none"
               /\ phase'[r] = "revokeAll" => before'[r] \intersect ActiveTokens' \subseteq pending'[r]
    BY DEF RevocationsOnTheWay, ActiveTokens, GoesOn
  <1> QED BY <1>1, <1>2, <1>3 DEF RevocationsOnTheWay

LEMMA OthersKeepWaiters ==
    ASSUME WaitersWant, UNCHANGED waiting, NEW r \in PanelRequest, phase[r] \notin Wants,
           \A q \in PanelRequest \ {r} : phase'[q] = phase[q]
    PROVE  WaitersWant'
  BY DEF WaitersWant

\* A step of r alone that touches no token: it goes on to `label`, or ends.
QuietStep(r) ==
    /\ phase[r] \notin Wants \union {"done"}
    /\ UNCHANGED <<kind, loaded, tokens, pending, before, waiting>>
    /\ \/ /\ UNCHANGED reply
          /\ \E label \in Label \ {"revokeAll", "done"} :
                /\ phase' = [phase EXCEPT ![r] = label]
                /\ kind[r] = "deactivate" => label \in DeactivationPhase
       \/ /\ phase' = [phase EXCEPT ![r] = "done"]
          /\ \E result \in Replies :
                /\ reply' = [reply EXCEPT ![r] = result]
                /\ result = "ok" /\ Deactivates(r) => before[r] \intersect ActiveTokens = {}

LEMMA QuietStepKeeps ==
    ASSUME WaitersWant, RevocationsOnTheWay, NEW r \in PanelRequest, QuietStep(r)
    PROVE  WaitersWant' /\ RevocationsOnTheWay'
  <1>1. phase' \in [PanelRequest -> Label] /\ reply' \in [PanelRequest -> Replies]
    BY DEF RevocationsOnTheWay, RequestTypes, QuietStep, Label
  <1>2. \A q \in PanelRequest \ {r} : phase'[q] = phase[q] /\ reply'[q] = reply[q]
    BY DEF RevocationsOnTheWay, RequestTypes, QuietStep
  <1>3. GoesOn(r)
    BY DEF RevocationsOnTheWay, RequestTypes, QuietStep, GoesOn, DeactivationPhase
  <1>4. WaitersWant'
    BY <1>2, OthersKeepWaiters DEF QuietStep
  <1> QED
    BY <1>1, <1>2, <1>3, <1>4, GoingOnKeepsRevocations DEF QuietStep, GoesOn

LEMMA QuietSteps ==
    ASSUME RevocationsOnTheWay, NEW r \in PanelRequest,
           \/ consume(r) \/ reset(r) \/ Sign(r) \/ SetPassword(r) \/ RevokeAllEnds(r)
           \/ RevokeAllFails(r) \/ Count(r) \/ Logout(r)
    PROVE  QuietStep(r)
  <1> USE DEF QuietStep, AccessStep, GoTo, Finish, Replies, Label, Wants, Holds, limiter, store,
          accessGhosts
  <1>1. CASE consume(r)
    <2>1. phase[r] = "consume" /\ kind[r] # "deactivate"
      BY <1>1 DEF consume, RevocationsOnTheWay, DeactivationPhase
    <2> QED
      BY <1>1, <2>1 DEF consume, ConsumeInRedis, ConsumeFails, ConsumeInMemory, LetThrough
  <1>2. CASE reset(r)
    <2>1. phase[r] = "resetAttempts" /\ kind[r] # "deactivate"
      BY <1>2 DEF reset, RevocationsOnTheWay, DeactivationPhase
    <2> QED BY <1>2, <2>1 DEF reset
  <1>3. CASE Sign(r)
    <2>1. kind[r] # "deactivate"
      BY <1>3 DEF Sign, RevocationsOnTheWay, DeactivationPhase
    <2> QED BY <1>3, <2>1 DEF Sign, Deactivates
  <1>4. CASE SetPassword(r)
    <2>1. kind[r] # "deactivate"
      BY <1>4 DEF SetPassword, RevocationsOnTheWay, DeactivationPhase
    <2> QED BY <1>4, <2>1 DEF SetPassword, ChangePassword, ResetPassword, Deactivates
  <1>5. CASE RevokeAllEnds(r)
    <2>1. before[r] \intersect ActiveTokens = {}
      BY <1>5 DEF RevokeAllEnds, RevocationsOnTheWay
    <2> QED BY <1>5, <2>1 DEF RevokeAllEnds
  <1>6. CASE RevokeAllFails(r)
    BY <1>6 DEF RevokeAllFails, AfterRevokeError, Deactivates
  <1>7. CASE Count(r)
    <2>1. kind[r] # "deactivate"
      BY <1>7 DEF Count, RevocationsOnTheWay, DeactivationPhase
    <2> QED BY <1>7, <2>1 DEF Count
  <1>8. CASE Logout(r)
    BY <1>8 DEF Logout
  <1> QED BY <1>1, <1>2, <1>3, <1>4, <1>5, <1>6, <1>7, <1>8

LEMMA AskSlotKeeps ==
    ASSUME WaitersWant, RevocationsOnTheWay, NEW r \in PanelRequest, AskSlot(r)
    PROVE  WaitersWant' /\ RevocationsOnTheWay'
  <1> USE DEF GoTo, Finish
  <1>1. /\ phase[r] \in Wants /\ \A i \in 1..Len(waiting) : waiting[i] # r
        /\ UNCHANGED <<kind, loaded, tokens, pending, before>>
    BY DEF AskSlot, Waits, locals, accessGhosts, store
  <1>2. kind[r] # "deactivate"
    BY <1>1 DEF RevocationsOnTheWay, DeactivationPhase, Wants
  <1>3. CASE phase' = [phase EXCEPT ![r] = Granted(phase[r])] /\ UNCHANGED <<waiting, reply>>
    <2>1. phase' \in [PanelRequest -> Label] /\ phase'[r] \in Holds
      BY <1>1, <1>3 DEF RevocationsOnTheWay, RequestTypes, Granted, Label, Wants, Holds
    <2>2. WaitersWant'
      BY <1>1, <1>3, <2>1 DEF WaitersWant, RevocationsOnTheWay, RequestTypes
    <2>3. \A q \in PanelRequest : GoesOn(q)
      BY <1>1, <1>2, <1>3, <2>1 DEF GoesOn, RevocationsOnTheWay, RequestTypes, Wants, Holds
    <2> QED BY <1>1, <1>3, <2>1, <2>2, <2>3, GoingOnKeepsRevocations DEF RevocationsOnTheWay, RequestTypes
  <1>4. CASE waiting' = Append(waiting, r) /\ UNCHANGED <<phase, reply>>
    <2>1. WaitersWant'
      BY <1>1, <1>4 DEF WaitersWant
    <2>2. \A q \in PanelRequest : GoesOn(q)
      BY <1>4 DEF GoesOn
    <2> QED BY <1>1, <1>4, <2>1, <2>2, GoingOnKeepsRevocations DEF RevocationsOnTheWay, RequestTypes
  <1>5. CASE /\ phase' = [phase EXCEPT ![r] = "done"] /\ reply' = [reply EXCEPT ![r] = "busy"]
             /\ UNCHANGED waiting
    <2>1. phase' \in [PanelRequest -> Label] /\ reply' \in [PanelRequest -> Replies]
      BY <1>5 DEF RevocationsOnTheWay, RequestTypes, Label, Replies
    <2>2. WaitersWant'
      BY <1>1, <1>5, <2>1 DEF WaitersWant, RevocationsOnTheWay, RequestTypes
    <2>3. \A q \in PanelRequest : GoesOn(q)
      BY <1>1, <1>2, <1>5 DEF GoesOn, RevocationsOnTheWay, RequestTypes, Wants
    <2> QED BY <1>1, <2>1, <2>2, <2>3, GoingOnKeepsRevocations
  <1> QED BY <1>3, <1>4, <1>5 DEF AskSlot, limiter

\* The slot of r passes to the head of the queue, which wants one.
LEMMA ReleaseSlotMoves ==
    ASSUME WaitersWant, phase \in [PanelRequest -> Label], NEW r \in PanelRequest,
           phase[r] \in Holds, NEW label \in Label, ReleaseSlot(r, label)
    PROVE  /\ WaitersWant'
           /\ phase' \in [PanelRequest -> Label] /\ phase'[r] = label
           /\ \A q \in PanelRequest \ {r} :
                 phase'[q] = phase[q] \/ (phase[q] \in Wants /\ phase'[q] \in Holds)
  <1>1. CASE waiting = <<>>
    BY <1>1 DEF ReleaseSlot, GoTo, WaitersWant
  <1>2. CASE waiting # <<>>
    <2> DEFINE head == Head(waiting)
    <2>1. /\ head = waiting[1] /\ head \in PanelRequest /\ phase[head] \in Wants /\ head # r
          /\ 1 \in 1..Len(waiting)
      BY <1>2 DEF WaitersWant, Wants, Holds
    <2>2. /\ waiting' = Tail(waiting)
          /\ phase' = [phase EXCEPT ![r] = label, ![head] = Granted(phase[head])]
      BY <1>2 DEF ReleaseSlot
    <2>3. Granted(phase[head]) \in Holds
      BY <2>1 DEF Granted, Wants, Holds
    <2> HIDE DEF head
    <2>4. phase' \in [PanelRequest -> Label] /\ phase'[r] = label
      BY <2>1, <2>2, <2>3 DEF Label
    <2>5. \A q \in PanelRequest \ {r} :
              phase'[q] = phase[q] \/ (phase[q] \in Wants /\ phase'[q] \in Holds)
      BY <2>1, <2>2, <2>3
    <2>6. /\ waiting' \in Seq(PanelRequest) /\ Len(waiting') = Len(waiting) - 1
          /\ \A i \in 1..Len(waiting') : waiting'[i] = waiting[i + 1] /\ i + 1 \in 1..Len(waiting)
      BY <1>2, <2>2 DEF WaitersWant
    <2>7. \A i \in 1..Len(waiting') : waiting'[i] # head /\ waiting'[i] # r
      BY <2>1, <2>6 DEF WaitersWant, Wants, Holds
    <2>8. \A i \in 1..Len(waiting') : phase'[waiting'[i]] \in Wants
      BY <2>1, <2>2, <2>6, <2>7 DEF WaitersWant
    <2>9. \A i, j \in 1..Len(waiting') : waiting'[i] = waiting'[j] => i = j
      BY <2>6 DEF WaitersWant
    <2> QED BY <2>4, <2>5, <2>6, <2>8, <2>9 DEF WaitersWant
  <1> QED BY <1>1, <1>2

LEMMA HasherKeeps ==
    ASSUME WaitersWant, RevocationsOnTheWay, NEW r \in PanelRequest, Verify(r) \/ Hash(r)
    PROVE  WaitersWant' /\ RevocationsOnTheWay'
  <1>1. /\ phase[r] \in Holds /\ kind[r] # "deactivate"
        /\ UNCHANGED <<kind, loaded, tokens, pending, before>>
    BY DEF Verify, Hash, AccessStep, Holds, RevocationsOnTheWay, DeactivationPhase, store, accessGhosts
  <1>2. PICK label \in Label \ {"revokeAll"} :
          /\ ReleaseSlot(r, label)
          /\ \/ label # "done" /\ UNCHANGED reply
             \/ label = "done" /\ reply' = [reply EXCEPT ![r] = "invalid_credentials"]
    BY DEF Verify, Hash, Label, Wants
  <1>3. /\ WaitersWant'
        /\ phase' \in [PanelRequest -> Label] /\ phase'[r] = label
        /\ \A q \in PanelRequest \ {r} :
              phase'[q] = phase[q] \/ (phase[q] \in Wants /\ phase'[q] \in Holds)
    BY <1>1, <1>2, ReleaseSlotMoves DEF RevocationsOnTheWay, RequestTypes
  <1>4. /\ reply' \in [PanelRequest -> Replies]
        /\ \A q \in PanelRequest \ {r} : reply'[q] = reply[q]
        /\ reply'[r] # "ok" /\ (label # "done" => reply'[r] = reply[r])
    BY <1>1, <1>2 DEF RevocationsOnTheWay, RequestTypes, Replies, Holds
  <1>5. GoesOn(r)
    BY <1>1, <1>2, <1>3, <1>4 DEF GoesOn, Holds
  <1>6. ASSUME NEW q \in PanelRequest \ {r} PROVE GoesOn(q)
    <2>1. CASE phase'[q] = phase[q]
      BY <1>4, <2>1 DEF GoesOn
    <2>2. CASE phase[q] \in Wants /\ phase'[q] \in Holds
      BY <1>4, <2>2 DEF GoesOn, RevocationsOnTheWay, DeactivationPhase, Wants, Holds
    <2> QED BY <1>3, <2>1, <2>2
  <1> QED BY <1>1, <1>3, <1>4, <1>5, <1>6, GoingOnKeepsRevocations

LEMMA ReadKeeps ==
    ASSUME WaitersWant, RevocationsOnTheWay, NEW r \in PanelRequest, Read(r)
    PROVE  WaitersWant' /\ RevocationsOnTheWay'
  <1>1. /\ phase[r] = "read" /\ UNCHANGED <<kind, tokens, pending, before, waiting>>
        /\ loaded' = [loaded EXCEPT ![r] = account]
    BY DEF Read, AccessStep, store, limiter, accessGhosts
  <1>2. PICK label \in Label \ {"revokeAll"} :
          /\ phase' = [phase EXCEPT ![r] = label]
          /\ kind[r] = "deactivate" => label \in DeactivationPhase
          /\ \/ UNCHANGED reply /\ label # "done"
             \/ reply' = [reply EXCEPT ![r] = "unauthorized"] /\ label = "done"
    BY DEF Read, GoTo, Finish, Label, Wants, DeactivationPhase
  <1>3. WaitersWant'
    BY <1>1, <1>2, OthersKeepWaiters DEF Wants, RevocationsOnTheWay, RequestTypes
  <1>4. RequestTypes'
    BY <1>1, <1>2 DEF RevocationsOnTheWay, RequestTypes, Replies
  <1>5. reply'[r] # "ok" /\ \A q \in PanelRequest \ {r} : reply'[q] = reply[q]
    BY <1>1, <1>2 DEF RevocationsOnTheWay, RequestTypes
  <1>6. DeactivationRevokes'
    BY <1>1, <1>5 DEF RevocationsOnTheWay, RequestTypes, DeactivationRevokes, Deactivates, ActiveTokens
  <1>7. \A q \in PanelRequest : phase'[q] # "done" => reply'[q] = "none" /\ tokens'[q] = "none"
    BY <1>1, <1>2 DEF RevocationsOnTheWay, RequestTypes
  <1>8. \A q \in PanelRequest :
           /\ kind'[q] = "deactivate" => phase'[q] \in DeactivationPhase
           /\ \A i \in before'[q] : tokens'[i] # "none"
           /\ phase'[q] = "revokeAll" => before'[q] \intersect ActiveTokens' \subseteq pending'[q]
    BY <1>1, <1>2 DEF RevocationsOnTheWay, RequestTypes, ActiveTokens
  <1> QED BY <1>3, <1>4, <1>6, <1>7, <1>8 DEF RevocationsOnTheWay

LEMMA StartKeeps ==
    ASSUME WaitersWant, RevocationsOnTheWay, NEW r \in PanelRequest, Start(r)
    PROVE  WaitersWant' /\ RevocationsOnTheWay'
  <1>1. phase[r] = "new" /\ UNCHANGED <<loaded, tokens, pending, before, waiting>>
    BY DEF Start, store, limiter, accessGhosts
  <1>2. PICK label, k :
          /\ label \in Label \ {"revokeAll"}
          /\ kind' = [kind EXCEPT ![r] = k]
          /\ phase' = [phase EXCEPT ![r] = label]
          /\ k = "deactivate" => label \in DeactivationPhase
          /\ \/ UNCHANGED reply /\ label # "done"
             \/ reply' = [reply EXCEPT ![r] = "unauthorized"] /\ label = "done"
    <2>1. PICK k \in Kinds, p \in {account.password, First, Wrong}, i \in Id :
            /\ kind' = [kind EXCEPT ![r] = k]
            /\ IF ~Admitted(k, IF k = "revokeToken" THEN First ELSE i)
               THEN Finish(r, "unauthorized")
               ELSE /\ GoTo(r, CASE k \in Counter -> "consume"
                                 [] k = "logout" -> "logout"
                                 [] k = "revokeToken" -> "revokeToken"
                                 [] OTHER -> "read")
                    /\ UNCHANGED reply
      BY DEF Start
    <2> QED BY <2>1, ZenonT(60) DEF GoTo, Finish, Label, DeactivationPhase, Counter
  <1>3. WaitersWant'
    BY <1>1, <1>2, OthersKeepWaiters DEF Wants, RevocationsOnTheWay, RequestTypes
  <1>4. RequestTypes'
    BY <1>1, <1>2 DEF RevocationsOnTheWay, RequestTypes, Replies
  <1>5. reply'[r] # "ok" /\ \A q \in PanelRequest \ {r} : reply'[q] = reply[q]
    BY <1>1, <1>2 DEF RevocationsOnTheWay, RequestTypes
  <1>6. DeactivationRevokes'
    BY <1>1, <1>2, <1>5 DEF RevocationsOnTheWay, RequestTypes, DeactivationRevokes, Deactivates,
       ActiveTokens
  <1>7. \A q \in PanelRequest : phase'[q] # "done" => reply'[q] = "none" /\ tokens'[q] = "none"
    BY <1>1, <1>2 DEF RevocationsOnTheWay, RequestTypes
  <1>8. \A q \in PanelRequest :
           /\ kind'[q] = "deactivate" => phase'[q] \in DeactivationPhase
           /\ \A i \in before'[q] : tokens'[i] # "none"
           /\ phase'[q] = "revokeAll" => before'[q] \intersect ActiveTokens' \subseteq pending'[q]
    BY <1>1, <1>2 DEF RevocationsOnTheWay, RequestTypes, ActiveTokens
  <1> QED BY <1>3, <1>4, <1>6, <1>7, <1>8 DEF RevocationsOnTheWay

\* What the deactivation finds active is noted when the account is saved.
LEMMA UpdateKeeps ==
    ASSUME WaitersWant, RevocationsOnTheWay, NEW r \in PanelRequest, Update(r)
    PROVE  WaitersWant' /\ RevocationsOnTheWay'
  <1>1. CASE ~Deactivates(r)
    <2>1. QuietStep(r)
      BY <1>1 DEF Update, QuietStep, AccessStep, Finish, GoTo, Replies, Wants, limiter
    <2> QED BY <2>1, QuietStepKeeps
  <1>2. CASE Deactivates(r)
    <2>1. /\ phase[r] = "update" /\ UNCHANGED <<kind, loaded, tokens, pending, waiting, reply>>
          /\ before' = [before EXCEPT ![r] = ActiveTokens]
          /\ phase' = [phase EXCEPT ![r] = "findTokens"]
      BY <1>2 DEF Update, AccessStep, GoTo, limiter
    <2>2. WaitersWant'
      BY <2>1, OthersKeepWaiters DEF Wants, RevocationsOnTheWay, RequestTypes
    <2>3. RequestTypes'
      BY <2>1 DEF RevocationsOnTheWay, RequestTypes, Label, ActiveTokens
    <2>4. reply'[r] = "none"
      BY <2>1 DEF RevocationsOnTheWay
    <2>5. DeactivationRevokes'
      BY <2>1, <2>4 DEF RevocationsOnTheWay, RequestTypes, DeactivationRevokes, Deactivates, ActiveTokens
    <2>6. \A q \in PanelRequest :
             /\ phase'[q] # "done" => reply'[q] = "none" /\ tokens'[q] = "none"
             /\ kind'[q] = "deactivate" => phase'[q] \in DeactivationPhase
             /\ \A i \in before'[q] : tokens'[i] # "none"
             /\ phase'[q] = "revokeAll" => before'[q] \intersect ActiveTokens' \subseteq pending'[q]
      BY <2>1 DEF RevocationsOnTheWay, RequestTypes, ActiveTokens, DeactivationPhase
    <2> QED BY <2>2, <2>3, <2>5, <2>6 DEF RevocationsOnTheWay
  <1> QED BY <1>1, <1>2

LEMMA FindTokensKeeps ==
    ASSUME WaitersWant, RevocationsOnTheWay, NEW r \in PanelRequest, FindTokens(r)
    PROVE  WaitersWant' /\ RevocationsOnTheWay'
  <1>1. /\ phase[r] = "findTokens" /\ UNCHANGED <<kind, loaded, tokens, before, waiting, reply>>
        /\ pending' = [pending EXCEPT ![r] = ActiveTokens]
        /\ phase' = [phase EXCEPT ![r] = "revokeAll"]
    BY DEF FindTokens, AccessStep, GoTo, limiter, store, accessGhosts
  <1>2. WaitersWant'
    BY <1>1, OthersKeepWaiters DEF Wants, RevocationsOnTheWay, RequestTypes
  <1>3. RequestTypes'
    BY <1>1 DEF RevocationsOnTheWay, RequestTypes, Label, ActiveTokens
  <1>4. DeactivationRevokes'
    BY <1>1 DEF RevocationsOnTheWay, DeactivationRevokes, Deactivates, ActiveTokens
  <1>5. \A q \in PanelRequest :
           /\ phase'[q] # "done" => reply'[q] = "none" /\ tokens'[q] = "none"
           /\ kind'[q] = "deactivate" => phase'[q] \in DeactivationPhase
           /\ \A i \in before'[q] : tokens'[i] # "none"
           /\ phase'[q] = "revokeAll" => before'[q] \intersect ActiveTokens' \subseteq pending'[q]
    BY <1>1 DEF RevocationsOnTheWay, RequestTypes, ActiveTokens, DeactivationPhase
  <1> QED BY <1>2, <1>3, <1>4, <1>5 DEF RevocationsOnTheWay

LEMMA RevokeNextKeeps ==
    ASSUME WaitersWant, RevocationsOnTheWay, NEW r \in PanelRequest, RevokeNext(r)
    PROVE  WaitersWant' /\ RevocationsOnTheWay'
  <1>1. PICK i \in pending[r] :
          /\ tokens' = [tokens EXCEPT ![i] = IF tokens[i] = "active" THEN "revoked" ELSE tokens[i]]
          /\ pending' = [pending EXCEPT ![r] = pending[r] \ {i}]
    BY DEF RevokeNext, Revoked
  <1>2. UNCHANGED <<phase, kind, loaded, before, waiting, reply>> /\ i \in Id
    BY DEF RevokeNext, AccessStep, limiter, accessGhosts, RevocationsOnTheWay, RequestTypes
  <1>3. WaitersWant'
    BY <1>2 DEF WaitersWant
  <1>4. RequestTypes'
    BY <1>1, <1>2 DEF RevocationsOnTheWay, RequestTypes
  <1>5. ActiveTokens' = ActiveTokens \ {i}
    BY <1>1, <1>2 DEF RevocationsOnTheWay, RequestTypes, ActiveTokens
  <1>6. \A j \in Id : tokens'[j] = "none" <=> tokens[j] = "none"
    BY <1>1, <1>2 DEF RevocationsOnTheWay, RequestTypes
  <1>7. DeactivationRevokes'
    BY <1>2, <1>5 DEF RevocationsOnTheWay, DeactivationRevokes, Deactivates
  <1>8. \A q \in PanelRequest :
           /\ phase'[q] # "done" => reply'[q] = "none" /\ tokens'[q] = "none"
           /\ kind'[q] = "deactivate" => phase'[q] \in DeactivationPhase
           /\ \A j \in before'[q] : tokens'[j] # "none"
           /\ phase'[q] = "revokeAll" => before'[q] \intersect ActiveTokens' \subseteq pending'[q]
    BY <1>1, <1>2, <1>5, <1>6 DEF RevocationsOnTheWay, RequestTypes, Id
  <1> QED BY <1>3, <1>4, <1>7, <1>8 DEF RevocationsOnTheWay

LEMMA OwnersTokensKeep ==
    ASSUME WaitersWant, RevocationsOnTheWay, NEW r \in PanelRequest, RevokeToken(r) \/ Insert(r)
    PROVE  WaitersWant' /\ RevocationsOnTheWay'
  <1>1. /\ phase[r] \in {"revokeToken", "insert"}
        /\ phase' = [phase EXCEPT ![r] = "done"]
        /\ UNCHANGED <<kind, loaded, pending, before, waiting>>
        /\ \E result \in Replies : reply' = [reply EXCEPT ![r] = result]
    BY DEF RevokeToken, Insert, AccessStep, Finish, GoTo, limiter, accessGhosts, Replies
  <1>2. kind[r] # "deactivate" /\ tokens[r] = "none"
    BY <1>1 DEF RevocationsOnTheWay, DeactivationPhase
  <1>3. WaitersWant'
    BY <1>1, OthersKeepWaiters DEF Wants, RevocationsOnTheWay, RequestTypes
  <1>4. /\ tokens' \in [Id -> {"none", "active", "revoked"}]
        /\ \A i \in Id : tokens[i] = "none" /\ i # r => tokens'[i] = "none"
        /\ \A i \in Id : tokens[i] # "none" => tokens'[i] # "none"
        /\ \A i \in Id : tokens'[i] = "active" => tokens[i] = "active" \/ i = r
    <2>1. CASE tokens' = Revoked(arg[r].id) \/ UNCHANGED tokens
      BY <2>1 DEF Revoked, RevocationsOnTheWay, RequestTypes
    <2>2. CASE tokens' = [tokens EXCEPT ![r] = "active"]
      BY <2>2 DEF RevocationsOnTheWay, RequestTypes, Id
    <2> QED BY <2>1, <2>2 DEF RevokeToken, Insert
  <1>5. RequestTypes'
    BY <1>1, <1>4 DEF RevocationsOnTheWay, RequestTypes, Label
  <1>6. \A q \in PanelRequest : before[q] \intersect ActiveTokens' \subseteq before[q] \intersect ActiveTokens
    BY <1>2, <1>4 DEF RevocationsOnTheWay, RequestTypes, ActiveTokens
  <1>7. \A q \in PanelRequest \ {r} : phase'[q] = phase[q] /\ reply'[q] = reply[q]
    BY <1>1 DEF RevocationsOnTheWay, RequestTypes
  <1>8. DeactivationRevokes'
    BY <1>1, <1>2, <1>6, <1>7 DEF RevocationsOnTheWay, DeactivationRevokes, Deactivates
  <1>9. \A q \in PanelRequest :
           /\ phase'[q] # "done" => reply'[q] = "none" /\ tokens'[q] = "none"
           /\ kind'[q] = "deactivate" => phase'[q] \in DeactivationPhase
           /\ \A j \in before'[q] : tokens'[j] # "none"
           /\ phase'[q] = "revokeAll" => before'[q] \intersect ActiveTokens' \subseteq pending'[q]
    BY <1>1, <1>2, <1>4, <1>6, <1>7 DEF RevocationsOnTheWay, RequestTypes, Id
  <1> QED BY <1>3, <1>5, <1>8, <1>9 DEF RevocationsOnTheWay

LEMMA AccessNextKeepsRevocations ==
    WaitersWant /\ RevocationsOnTheWay /\ [AccessNext]_accessVars
      => WaitersWant' /\ RevocationsOnTheWay'
  <1> SUFFICES ASSUME WaitersWant, RevocationsOnTheWay, [AccessNext]_accessVars
               PROVE  WaitersWant' /\ RevocationsOnTheWay'
    OBVIOUS
  <1>1. CASE UNCHANGED <<phase, reply, kind, loaded, tokens, pending, before, waiting>>
    BY <1>1 DEF WaitersWant, RevocationsOnTheWay, RequestTypes, DeactivationRevokes, Deactivates,
       ActiveTokens
  <1>2. (\E c \in Counter : RetryRedis(c)) \/ Idle \/ UNCHANGED accessVars
          => UNCHANGED <<phase, reply, kind, loaded, tokens, pending, before, waiting>>
    BY DEF RetryRedis, Idle, accessVars, store, locals, limiter, accessGhosts
  <1> QED
    BY <1>1, <1>2, QuietSteps, QuietStepKeeps, AskSlotKeeps, HasherKeeps, ReadKeeps, StartKeeps,
       UpdateKeeps, FindTokensKeeps, RevokeNextKeeps, OwnersTokensKeep DEF AccessNext

\* A deactivation that raised the version and answered 200 has revoked every
\* token there was when it was saved (revokeAllForUser looks for the tokens
\* after the save and answers only when it has come to the end of them).
THEOREM DeactivationLeavesNone == AccessSpec => []DeactivationRevokes
  <1>1. RevocationsOnTheWay => DeactivationRevokes
    BY DEF RevocationsOnTheWay
  <1> QED BY AccessInitRevocations, AccessNextKeepsRevocations, <1>1, PTL DEF AccessSpec
-----------------------------------------------------------------------------
(* SupportTicket: a key publishes once.                                      *)

TicketFields == {"status", "history", "messages", "log", "firstResponse", "note", "reopened",
                 "activity", "author", "seen"}

\* What a request on its way to a write is, and what it knows: a creation has
\* read that there is no ticket, a publication that there is one.
AtWork(r) ==
    /\ pc[r] \in {"find", "reserve", "takeOver", "load"} => op[r].kind = "publish"
    /\ pc[r] = "reload" => op[r].kind \in {"note", "publish"}
    /\ pc[r] \in {"store", "write"} =>
          /\ op[r].kind # "view"
          /\ op[r].kind = "create" => snap[r].status = "absent"
    /\ (pc[r] \in {"store", "write", "reload"} /\ op[r].kind = "publish") => Exists

\* The inductive invariant: entries are in the work log of a ticket that
\* exists, and of requests that have begun, whose key is settled.
EntriesSettled ==
    /\ pc \in [Request -> Place] /\ op \in [Request -> Op]
    /\ DOMAIN snap = Request /\ DOMAIN ticket = TicketFields
    /\ ticket.log \subseteq Request
    /\ ~Exists => ticket.log = {}
    /\ \A q \in ticket.log : pc[q] # "idle"
    /\ \A r \in Request : AtWork(r)

\* What is under a key depends on the work log and on what its requests asked.
LEMMA SameLogSamePublished ==
    ASSUME ticket'.log = ticket.log, \A q \in ticket.log : op'[q] = op[q]
    PROVE  UNCHANGED Published
  BY DEF Published

\* A step of a request that has begun and adds nothing to the work log.
LEMMA WorkGoesOn ==
    ASSUME EntriesSettled, NEW r \in Request, pc[r] # "idle",
           NEW p \in Place \ {"idle"}, pc' = [pc EXCEPT ![r] = p], UNCHANGED op,
           DOMAIN snap' = Request, \A q \in Request \ {r} : snap'[q] = snap[q],
           DOMAIN ticket' = TicketFields, ticket'.log = ticket.log,
           Exists => Exists',
           AtWork(r)'
    PROVE  EntriesSettled' /\ UNCHANGED Published
  <1>1. pc' \in [Request -> Place] /\ \A q \in Request \ {r} : pc'[q] = pc[q]
    BY DEF EntriesSettled
  <1>2. \A q \in ticket'.log : pc'[q] # "idle"
    BY <1>1 DEF EntriesSettled
  <1>3. ASSUME NEW q \in Request \ {r} PROVE AtWork(q)'
    BY <1>1, <1>3 DEF EntriesSettled, AtWork
  <1>4. UNCHANGED Published
    BY SameLogSamePublished
  <1> QED BY <1>1, <1>2, <1>3, <1>4 DEF EntriesSettled

\* The same for a step that leaves the ticket and what requests have read, and
\* takes r to a place where it has nothing to show.
LEMMA WorkEnds ==
    ASSUME EntriesSettled, NEW r \in Request, pc[r] # "idle",
           NEW p \in Place \ {"idle", "find", "reserve", "takeOver", "load", "reload", "store", "write"},
           pc' = [pc EXCEPT ![r] = p], UNCHANGED <<op, snap>>,
           DOMAIN ticket' = TicketFields, ticket'.log = ticket.log, ticket'.status = ticket.status
    PROVE  EntriesSettled' /\ UNCHANGED Published
  <1>1. AtWork(r)'
    BY DEF AtWork, EntriesSettled
  <1> QED BY <1>1, WorkGoesOn DEF EntriesSettled, Exists

LEMMA MovedKeepsLog ==
    ASSUME NEW t, DOMAIN t = TicketFields, NEW from, NEW to, NEW side
    PROVE  /\ DOMAIN Moved(t, from, to, side) = TicketFields
           /\ Moved(t, from, to, side).log = t.log
           /\ Moved(t, from, to, side).status = to
  BY DEF Moved, TicketFields

LEMMA SaidKeepsLog ==
    ASSUME NEW t, DOMAIN t = TicketFields, NEW r, NEW side
    PROVE  /\ DOMAIN Said(t, r, side) = TicketFields
           /\ Said(t, r, side).log = t.log
           /\ Said(t, r, side).status = t.status
  BY DEF Said, TicketFields

\* A write by r: the work log is as it was but for a publication, and a ticket
\* that exists goes on existing.
LEMMA WritesOfATicket ==
    ASSUME EntriesSettled, NEW r \in Request, pc[r] = "write", Writable(r), ticket' = Changed(r)
    PROVE  /\ DOMAIN ticket' = TicketFields
           /\ ticket'.log = IF op[r].kind = "publish" THEN ticket.log \union {r} ELSE ticket.log
           /\ Exists => Exists'
  <1> DEFINE from == snap[r].status
  <1>1. /\ op[r] \in Op /\ AtWork(r) /\ DOMAIN ticket = TicketFields
        /\ ticket.status = from /\ (~Exists => ticket.log = {}) /\ op[r].kind # "view"
    BY DEF EntriesSettled, Writable, SameStatus, AtWork
  <1>2. op[r].kind \in {"create", "clientReply", "reopen", "staffReply", "setStatus", "resolve",
                        "note", "publish"}
        /\ op[r].arg # "absent"
    BY <1>1 DEF Op, Kind, Status, Side
  <1> HIDE DEF from
  <1>3. CASE op[r].kind = "create"
    <2>1. ticket' = Created(r)
      BY <1>3 DEF Changed
    <2>2. ticket.log = {}
      BY <1>1, <1>3 DEF AtWork, Exists, from
    <2> QED BY <1>3, <2>1, <2>2 DEF Created, NoTicket, TicketFields, Exists
  <1>4. CASE op[r].kind = "clientReply"
    <2> DEFINE to == statusAfterClientMessage(from)
    <2>1. ticket' = Said(Moved(ticket, from, to, "cliente"), r, "cliente")
      BY <1>4 DEF Changed, clientReply, from
    <2>2. from # "absent" => to # "absent"
      BY DEF statusAfterClientMessage, Refused
    <2> HIDE DEF to
    <2> QED BY <1>1, <1>4, <2>1, <2>2, MovedKeepsLog, SaidKeepsLog DEF Exists
  <1>5. CASE op[r].kind = "reopen"
    <2> DEFINE to == statusAfterReopen(from)
               said == Said(Moved(ticket, from, to, "cliente"), r, "cliente")
    <2>1. ticket' = [said EXCEPT !.reopened = @ + 1]
      BY <1>5 DEF Changed, reopen, from
    <2>2. to # "absent"
      BY DEF statusAfterReopen, Refused
    <2> HIDE DEF to
    <2>3. DOMAIN said = TicketFields /\ said.log = ticket.log /\ said.status = to
      BY <1>1, MovedKeepsLog, SaidKeepsLog
    <2> HIDE DEF said
    <2> QED BY <1>5, <2>1, <2>2, <2>3 DEF Exists, TicketFields
  <1>6. CASE op[r].kind = "staffReply"
    <2> DEFINE to == statusAfterStaffMessage(from)
    <2>1. ticket' = Said(Moved(ticket, from, to, "smarteam"), r, "smarteam")
      BY <1>6 DEF Changed, staffReply, from
    <2>2. from # "absent" => to # "absent"
      BY DEF statusAfterStaffMessage, Refused
    <2> HIDE DEF to
    <2> QED BY <1>1, <1>6, <2>1, <2>2, MovedKeepsLog, SaidKeepsLog DEF Exists
  <1>7. CASE op[r].kind = "setStatus"
    <2> DEFINE moved == Moved(ticket, from, op[r].arg, "smarteam")
    <2>1. ticket' = [moved EXCEPT !.activity = at[r]]
      BY <1>7 DEF Changed, setStatus, from
    <2>2. DOMAIN moved = TicketFields /\ moved.log = ticket.log /\ moved.status = op[r].arg
      BY <1>1, MovedKeepsLog
    <2> HIDE DEF moved
    <2> QED BY <1>2, <1>7, <2>1, <2>2 DEF Exists, TicketFields
  <1>8. ASSUME NEW t, t = resolve(r, from)
        PROVE  DOMAIN t = TicketFields /\ t.log = ticket.log /\ t.status # "absent"
    <2> DEFINE said == Said(Moved(ticket, from, "resuelto", "smarteam"), r, "smarteam")
    <2>1. t = [said EXCEPT !.note = r]
      BY <1>8 DEF resolve
    <2>2. DOMAIN said = TicketFields /\ said.log = ticket.log /\ said.status = "resuelto"
      BY <1>1, MovedKeepsLog, SaidKeepsLog
    <2> HIDE DEF said
    <2> QED BY <2>1, <2>2 DEF TicketFields
  <1>9. CASE op[r].kind = "resolve"
    <2>1. ticket' = resolve(r, from)
      BY <1>9 DEF Changed, from
    <2> QED BY <1>8, <1>9, <2>1 DEF Exists
  <1>10. CASE op[r].kind = "note"
    <2>1. ticket' = [ticket EXCEPT !.note = r]
      BY <1>10 DEF Changed, setInternalResolution
    <2> QED BY <1>1, <1>10, <2>1 DEF Exists, TicketFields
  <1>11. CASE op[r].kind = "publish"
    <2> DEFINE planned == IF Resolves(op[r]) THEN resolve(r, from) ELSE staffReply(r, from)
    <2>1. ticket' = [planned EXCEPT !.log = @ \union {r}]
      BY <1>11 DEF Changed, plan, from
    <2>2. DOMAIN planned = TicketFields /\ planned.log = ticket.log
          /\ (from # "absent" => planned.status # "absent")
      <3>1. CASE Resolves(op[r])
        BY <1>8, <3>1
      <3>2. CASE ~Resolves(op[r])
        <4> DEFINE to == statusAfterStaffMessage(from)
        <4>1. planned = Said(Moved(ticket, from, to, "smarteam"), r, "smarteam")
          BY <3>2 DEF staffReply
        <4>2. from # "absent" => to # "absent"
          BY DEF statusAfterStaffMessage, Refused
        <4> HIDE DEF to, planned
        <4> QED BY <1>1, <4>1, <4>2, MovedKeepsLog, SaidKeepsLog
      <3> QED BY <3>1, <3>2
    <2> HIDE DEF planned
    <2> QED BY <1>1, <1>11, <2>1, <2>2 DEF Exists, TicketFields
  <1> QED BY <1>2, <1>3, <1>4, <1>5, <1>6, <1>7, <1>9, <1>10, <1>11

\* A write adds the publication of r, if that is what r asks for, under a key
\* that had none.
LEMMA AppliedPublishes ==
    ASSUME EntriesSettled, NEW r \in Request, pc[r] = "write", Writable(r), ticket' = Changed(r),
           UNCHANGED <<op, snap>>,
           NEW p \in Place \ {"idle", "find", "reserve", "takeOver", "load", "reload", "store", "write"},
           pc' = [pc EXCEPT ![r] = p]
    PROVE  EntriesSettled' /\ (Once!Next \/ UNCHANGED Published)
  <1>1. CASE op[r].kind # "publish"
    <2>1. AtWork(r)'
      BY DEF AtWork, EntriesSettled
    <2> QED BY <1>1, <2>1, WritesOfATicket, WorkGoesOn DEF EntriesSettled
  <1>2. CASE op[r].kind = "publish"
    <2>1. /\ DOMAIN ticket' = TicketFields /\ ticket'.log = ticket.log \union {r}
          /\ Exists /\ Exists' /\ op[r] \in Op /\ DOMAIN snap = Request
      BY <1>2, WritesOfATicket DEF EntriesSettled, AtWork
    <2>2. pc' \in [Request -> Place] /\ pc'[r] = p /\ \A q \in Request \ {r} : pc'[q] = pc[q]
      BY DEF EntriesSettled
    <2>3. \A q \in Request : AtWork(q)'
      BY <2>1, <2>2 DEF EntriesSettled, AtWork
    <2>4. EntriesSettled'
      BY <2>1, <2>2, <2>3 DEF EntriesSettled
    <2>5. CASE op[r].key \in Key
      <3> DEFINE k == op[r].key
      <3>1. Published[k] = {}
        <4>1. Under(r, ticket.log) = {}
          BY <1>2, <2>5, OpsAssumption DEF Writable, Unpublished, Keyed
        <4> QED BY <2>5, <4>1 DEF Published, Under
      <3>2. Published' = [Published EXCEPT ![k] = {r}]
        <4>1. Published' = [j \in Key |-> {q \in ticket.log \union {r} : op[q].key = j}]
          BY <2>1 DEF Published
        <4>2. Published = [j \in Key |-> {q \in ticket.log : op[q].key = j}]
          BY DEF Published
        <4>3. {q \in ticket.log \union {r} : op[q].key = k} = {r}
          BY <2>5, <3>1, <4>2
        <4>4. \A j \in Key \ {k} : {q \in ticket.log \union {r} : op[q].key = j} = Published[j]
          BY <4>2
        <4> HIDE DEF k
        <4>5. \A j \in Key : Published'[j] = [Published EXCEPT ![k] = {r}][j]
          BY <4>1, <4>2, <4>3, <4>4
        <4> QED BY <4>1, <4>2, <4>5
      <3> QED BY <2>4, <2>5, <3>1, <3>2 DEF Once!Next, Once!Publish
    <2>6. CASE op[r].key \notin Key
      <3>1. Published' = Published
        BY <2>1, <2>6 DEF Published
      <3> QED BY <2>4, <3>1
    <2> QED BY <2>5, <2>6
  <1> QED BY <1>1, <1>2

\* A request that begins has no entry yet.
LEMMA BeginSettles ==
    ASSUME EntriesSettled, NEW r \in Request, NEW o \in Op, pc[r] = "idle",
           NEW p \in Place \ {"idle"}, pc' = [pc EXCEPT ![r] = p],
           op' = [op EXCEPT ![r] = o], UNCHANGED ticket,
           DOMAIN snap' = Request, \A q \in Request \ {r} : snap'[q] = snap[q],
           AtWork(r)'
    PROVE  EntriesSettled' /\ UNCHANGED Published
  <1>1. /\ pc' \in [Request -> Place] /\ op' \in [Request -> Op]
        /\ \A q \in Request \ {r} : pc'[q] = pc[q] /\ op'[q] = op[q]
    BY DEF EntriesSettled
  <1>2. \A q \in ticket.log : q \in Request \ {r} /\ pc'[q] # "idle"
    BY <1>1 DEF EntriesSettled
  <1>3. ASSUME NEW q \in Request \ {r} PROVE AtWork(q)'
    BY <1>1, <1>3 DEF EntriesSettled, AtWork, Exists
  <1>4. UNCHANGED Published
    BY <1>1, <1>2, SameLogSamePublished
  <1> QED BY <1>1, <1>2, <1>3, <1>4 DEF EntriesSettled, Exists

LEMMA BeginKeepsEntries ==
    ASSUME EntriesSettled, NEW r \in Request, NEW o \in Op, Begin(r, o) \/ BeginPublish(r, o)
    PROVE  EntriesSettled' /\ UNCHANGED Published
  <1>1. CASE BeginPublish(r, o)
    <2>1. /\ pc[r] = "idle" /\ pc' = [pc EXCEPT ![r] = "find"] /\ op' = [op EXCEPT ![r] = o]
          /\ UNCHANGED <<ticket, snap>> /\ o.kind = "publish"
      BY <1>1 DEF BeginPublish, Goto, Keyed
    <2>2. AtWork(r)'
      BY <2>1 DEF AtWork, EntriesSettled
    <2> QED BY <2>1, <2>2, BeginSettles DEF EntriesSettled, Place
  <1>2. CASE Begin(r, o)
    <2>1. /\ pc[r] = "idle" /\ op' = [op EXCEPT ![r] = o] /\ UNCHANGED ticket
          /\ snap' = [snap EXCEPT ![r] = [status |-> ticket.status, log |-> ticket.log,
                                          count |-> Len(ticket.messages)]]
          /\ o.kind = "create" => ~Exists
      BY <1>2 DEF Begin, Reads
    <2>2. PICK p \in {"seen", "store", "write", "done"} :
            /\ pc' = [pc EXCEPT ![r] = p]
            /\ p \in {"store", "write"} => o.kind # "view" /\ (o.kind # "create" => Exists)
      <3> DEFINE place == CASE o.kind = "view" -> "seen" 
                                [] o.kind # "view" /\ o.image -> "store"
                                [] OTHER -> "write"
      <3>1. place \in {"seen", "store", "write"} /\ (place # "seen" => o.kind # "view")
        <4>1. CASE o.kind = "view"
          BY <4>1
        <4>2. CASE o.kind # "view" /\ o.image
          BY <4>2
        <4>3. CASE o.kind # "view" /\ ~o.image
          BY <4>3
        <4> QED BY <4>1, <4>2, <4>3
      <3>2. \/ pc' = [pc EXCEPT ![r] = "done"]
            \/ pc' = [pc EXCEPT ![r] = place] /\ (o.kind # "create" => Exists)
        BY <1>2 DEF Begin, Goto
      <3> HIDE DEF place
      <3> QED BY <3>1, <3>2
    <2>3. DOMAIN snap' = Request /\ snap'[r].status = ticket.status
          /\ \A q \in Request \ {r} : snap'[q] = snap[q]
      BY <2>1 DEF EntriesSettled
    <2>4. AtWork(r)'
      BY <2>1, <2>2, <2>3 DEF AtWork, EntriesSettled, Exists
    <2> QED BY <2>1, <2>2, <2>3, <2>4, BeginSettles DEF Place
  <1> QED BY <1>1, <1>2

\* Steps that take r on towards its write.
LEMMA OnTheWayKeepsEntries ==
    ASSUME EntriesSettled, NEW r \in Request,
           StoreImage(r) \/ LoseWrite(r) \/ Reload(r) \/ FindKey(r) \/ Reserve(r) \/ TakeOver(r)
           \/ LoadForPublish(r)
    PROVE  EntriesSettled' /\ UNCHANGED Published
  <1> DEFINE AsRead == [status |-> ticket.status, log |-> ticket.log, count |-> Len(ticket.messages)]
             Ends == {"done", "release", "complete", "discard", "replay"}
  <1>1. AtWork(r) /\ DOMAIN snap = Request /\ pc \in [Request -> Place] /\ DOMAIN ticket = TicketFields
    BY DEF EntriesSettled
  <1>2. CASE StoreImage(r)
    <2>1. pc[r] = "store" /\ pc' = [pc EXCEPT ![r] = "write"] /\ UNCHANGED <<op, snap, ticket>>
      BY <1>2 DEF StoreImage, Goto, KeepTicket
    <2>2. AtWork(r)'
      BY <1>1, <2>1 DEF AtWork, Exists
    <2> QED BY <1>1, <2>1, <2>2, WorkGoesOn DEF Place, Exists
  <1>3. CASE LoseWrite(r)
    <2>1. PICK p \in Ends \union {"reload"} :
            /\ pc[r] = "write" /\ pc' = [pc EXCEPT ![r] = p] /\ UNCHANGED <<op, snap, ticket>>
            /\ p = "reload" => op[r].kind \in {"note", "publish"}
      BY <1>3 DEF LoseWrite, Goto, KeepTicket, Retries, AfterFailure
    <2>2. AtWork(r)'
      BY <1>1, <2>1 DEF AtWork, Exists
    <2> QED BY <1>1, <2>1, <2>2, WorkGoesOn DEF Place, Exists
  <1>4. CASE Reload(r)
    <2>1. PICK p \in Ends \union {"write"} :
            /\ pc[r] = "reload" /\ pc' = [pc EXCEPT ![r] = p] /\ UNCHANGED <<op, ticket>>
            /\ snap' = [snap EXCEPT ![r] = AsRead]
      BY <1>4 DEF Reload, Goto, AfterFailure, Reads
    <2>2. AtWork(r)'
      BY <1>1, <2>1 DEF AtWork, Exists
    <2> QED BY <1>1, <2>1, <2>2, WorkGoesOn DEF Place, Exists
  <1>5. CASE FindKey(r) \/ Reserve(r) \/ TakeOver(r)
    <2>1. PICK p \in Ends \union {"find", "reserve", "takeOver", "load"} :
            /\ pc[r] \in {"find", "reserve", "takeOver"} /\ pc' = [pc EXCEPT ![r] = p]
            /\ UNCHANGED <<op, snap, ticket>>
      BY <1>5 DEF FindKey, Reserve, TakeOver, Goto
    <2>2. AtWork(r)'
      BY <1>1, <2>1 DEF AtWork, Exists
    <2> QED BY <1>1, <2>1, <2>2, WorkGoesOn DEF Place, Exists
  <1>6. CASE LoadForPublish(r)
    <2>1. PICK p \in Ends \union {"write"} :
            /\ pc[r] = "load" /\ pc' = [pc EXCEPT ![r] = p] /\ UNCHANGED <<op, ticket>>
            /\ snap' = [snap EXCEPT ![r] = AsRead]
            /\ p = "write" => Exists
      BY <1>6 DEF LoadForPublish, Goto, Reads
    <2>2. AtWork(r)'
      BY <1>1, <2>1 DEF AtWork, Exists
    <2> QED BY <1>1, <2>1, <2>2, WorkGoesOn DEF Place, Exists
  <1> QED BY <1>2, <1>3, <1>4, <1>5, <1>6

\* Steps after the write, and deaths.
LEMMA EndingKeepsEntries ==
    ASSUME EntriesSettled, NEW r \in Request,
           \/ StoreFails(r) \/ SetFirstResponse(r) \/ FirstResponseFails(r) \/ Discard(r)
           \/ MarkSeen(r) \/ SeenFails(r) \/ Complete(r) \/ Release(r) \/ Replay(r) \/ Die(r)
    PROVE  EntriesSettled' /\ UNCHANGED Published
  <1>1. PICK p \in {"done", "complete", "discard", "dead"} :
          pc[r] # "idle" /\ pc' = [pc EXCEPT ![r] = p] /\ UNCHANGED <<op, snap>>
    BY DEF StoreFails, SetFirstResponse, FirstResponseFails, Discard, MarkSeen, SeenFails,
       Complete, Release, Replay, Die, Goto, AfterFirstResponse
  <1>2. \/ UNCHANGED ticket
        \/ ticket' = [ticket EXCEPT !.firstResponse = ticket'.firstResponse]
        \/ ticket' = [ticket EXCEPT !.seen = ticket'.seen]
    <2>1. CASE SetFirstResponse(r)
      BY <2>1 DEF SetFirstResponse, EntriesSettled, TicketFields
    <2>2. CASE MarkSeen(r)
      BY <2>2 DEF MarkSeen, EntriesSettled, TicketFields
    <2> QED BY <2>1, <2>2 DEF StoreFails, FirstResponseFails, Discard, SeenFails, Complete,
            Release, Replay, Die, KeepTicket
  <1>3. DOMAIN ticket' = TicketFields /\ ticket'.log = ticket.log /\ ticket'.status = ticket.status
    BY <1>2 DEF EntriesSettled, TicketFields
  <1> QED BY <1>1, <1>3, WorkEnds DEF Place

LEMMA WritingKeepsEntries ==
    ASSUME EntriesSettled, NEW r \in Request, WriteTicket(r) \/ WriteThrows(r)
    PROVE  EntriesSettled' /\ (Once!Next \/ UNCHANGED Published)
  <1>1. PICK p \in {"done", "firstResponse", "release", "discard"} :
          pc[r] = "write" /\ pc' = [pc EXCEPT ![r] = p] /\ UNCHANGED <<op, snap>>
    BY DEF WriteTicket, WriteThrows, Goto, AfterWrite, AfterFailure
  <1>2. UNCHANGED ticket \/ (Writable(r) /\ ticket' = Changed(r))
    BY DEF WriteTicket, WriteThrows, Applied, KeepTicket
  <1> QED BY <1>1, <1>2, AppliedPublishes, WorkEnds DEF Place, EntriesSettled

LEMMA NextPublishesOnce ==
    EntriesSettled /\ [Next]_vars => EntriesSettled' /\ [Once!Next]_Published
  <1> SUFFICES ASSUME EntriesSettled, [Next]_vars
               PROVE  EntriesSettled' /\ (Once!Next \/ UNCHANGED Published)
    OBVIOUS
  <1>1. CASE \E r \in Request, o \in Ops : Begin(r, o) \/ BeginPublish(r, o)
    BY <1>1, BeginKeepsEntries, OpsAssumption
  <1>2. CASE \E r \in Request : Step(r) \/ Die(r)
    BY <1>2, OnTheWayKeepsEntries, EndingKeepsEntries, WritingKeepsEntries DEF Step
  <1>3. CASE (\E k \in Key : ForgetKey(k)) \/ Tick \/ UNCHANGED vars
    <2>1. UNCHANGED <<ticket, pc, op, snap>>
      BY <1>3 DEF ForgetKey, Tick, vars, requestVars
    <2>2. UNCHANGED Published
      BY <2>1, SameLogSamePublished
    <2> QED BY <2>1, <2>2 DEF EntriesSettled, AtWork, Exists
  <1> QED BY <1>1, <1>2, <1>3 DEF Next

LEMMA InitPublishesOnce == Init => EntriesSettled /\ Once!Init
  <1> SUFFICES ASSUME Init PROVE EntriesSettled /\ Once!Init
    OBVIOUS
  <1>1. NoOp \in Op
    BY DEF NoOp, Op, Kind
  <1>2. DOMAIN ticket = TicketFields /\ ticket.log = {}
    <2>1. DOMAIN NoTicket = TicketFields /\ NoTicket.log = {}
      BY DEF NoTicket, TicketFields
    <2>2. DOMAIN Opened = TicketFields /\ Opened.log = {}
      BY <2>1 DEF Opened, TicketFields
    <2> QED BY <2>1, <2>2 DEF Init
  <1>3. pc = [r \in Request |-> "idle"] /\ op = [r \in Request |-> NoOp] /\ DOMAIN snap = Request
    BY DEF Init
  <1> QED BY <1>1, <1>2, <1>3 DEF EntriesSettled, AtWork, Place, Published, Once!Init

\* However publications are retried, taken over, lost, expired or asked for
\* again with another body, the work log implements PublishOnce: an
\* Idempotency-Key publishes at most once, and its entry stays.
THEOREM KeysPublishOnce == Spec => PublishesOnce
  BY InitPublishesOnce, NextPublishesOnce, PTL DEF Spec, PublishesOnce, Once!Spec
=============================================================================
