--------------------------- MODULE ConnectionsProofs ---------------------------
(* Proofs about the connections of a tenant, for any number of calls, admins    *)
(* and processes: who is at the login of SAP's session, how often SAP performs  *)
(* a write that is rejected, lost or sent again, what the callers of HubSpot    *)
(* are told of their creates, which grant the tenant's credentials bear, and    *)
(* what the audit of an event can be lost to, and that it owns up to its calls. *)
EXTENDS SapSession, SapGateway, HubspotTransport, HubspotAuth, CallAudit, FiniteSetTheorems, SequenceTheorems,
        WellFoundedInduction, TLAPS

-----------------------------------------------------------------------------
(* HubspotTransport. *)


\* A create is sent again only after a 429, which has not applied it: as long
\* as it has not ended it has not been applied.
PendingNotApplied ==
    /\ pc \in [Call -> {"ask", "flight", "done"} \cup Waiting]
    /\ kind \in [Call -> Kind]
    /\ answer \in [Call -> {"none", "ok", "error", "unknown"}]
    /\ applied \in [Call -> Nat]
    /\ \A c \in Call : kind[c] = "create" =>
          /\ pc[c] # "done" => applied[c] = 0 /\ answer[c] = "none"
          /\ applied[c] <= 1
          /\ answer[c] = "ok" => applied[c] = 1
          /\ answer[c] = "error" => applied[c] = 0

\* The callers that are answered nothing new: their progress is not lost.
LEMMA WaitingKeepsPending ==
    ASSUME PendingNotApplied, NEW c \in Call,
           pc[c] # "done", UNCHANGED <<kind, answer, applied>>,
           NEW label \in {"ask", "flight"} \cup Waiting,
           pc' = [pc EXCEPT ![c] = label]
    PROVE  PendingNotApplied'
  BY DEF PendingNotApplied, Waiting

LEMMA InitPending == Init => PendingNotApplied
  BY DEF Init, PendingNotApplied, Waiting

LEMMA TakeSlotMoves ==
    ASSUME NEW c \in Call, TakeSlot(c)
    PROVE  \E label \in {"ask", "flight"} \cup Waiting : pc' = [pc EXCEPT ![c] = label]
  <1>1. (pc' = [pc EXCEPT ![c] = "slotted"]) \/ (pc' = [pc EXCEPT ![c] = "flight"])
    BY DEF TakeSlot, Sleep, Send
  <1> QED BY <1>1 DEF Waiting

LEMMA OkKeepsPending ==
    ASSUME PendingNotApplied, NEW c \in Call, Ok(c)
    PROVE  PendingNotApplied'
  BY DEF PendingNotApplied, Ok, Apply, Finish, Waiting

LEMMA LimitedKeepsPending ==
    ASSUME PendingNotApplied, NEW c \in Call, Limited(c)
    PROVE  PendingNotApplied'
  <1>1. UNCHANGED <<kind, applied>> /\ pc[c] = "flight"
    BY DEF Limited
  <1>2. CASE ~AttemptLeft(c) /\ Finish(c, "error")
    BY <1>1, <1>2 DEF PendingNotApplied, Finish, Waiting
  <1>3. CASE /\ NextAttempt(c)
             /\ (Ask(c) \/ \E d \in Backoff(attempt[c] + 1) : Sleep(c, "backoff", d))
    <2>1. UNCHANGED answer
      BY <1>3 DEF NextAttempt
    <2>2. (pc' = [pc EXCEPT ![c] = "ask"]) \/ (pc' = [pc EXCEPT ![c] = "backoff"])
      BY <1>3 DEF Ask, Sleep
    <2> QED BY <1>1, <2>1, <2>2, WaitingKeepsPending DEF Waiting
  <1> QED BY <1>2, <1>3 DEF Limited

LEMMA UnansweredKeepsPending ==
    ASSUME PendingNotApplied, NEW c \in Call, Unanswered(c)
    PROVE  PendingNotApplied'
  <1>1. UNCHANGED kind /\ pc[c] = "flight" /\ (Apply(c) \/ UNCHANGED applied)
    BY DEF Unanswered
  <1>2. CASE ~(Replayable(c) /\ AttemptLeft(c)) /\ Finish(c, UnknownOutcome(c))
    <2>1. kind[c] = "create" => UnknownOutcome(c) = "unknown"
      BY DEF UnknownOutcome, Replayable
    <2>2. UnknownOutcome(c) \in {"error", "unknown"}
      BY DEF UnknownOutcome
    <2> QED BY <1>1, <1>2, <2>1, <2>2 DEF PendingNotApplied, Finish, Apply, Waiting
  <1>3. CASE /\ Replayable(c)
             /\ NextAttempt(c)
             /\ \E d \in Backoff(attempt[c] + 1) : Sleep(c, "backoff", d)
    <2>1. kind[c] # "create" /\ UNCHANGED answer /\ pc' = [pc EXCEPT ![c] = "backoff"]
      BY <1>3 DEF Replayable, NextAttempt, Sleep
    <2> QED BY <1>1, <2>1 DEF PendingNotApplied, Apply, Waiting
  <1> QED BY <1>2, <1>3 DEF Unanswered

LEMMA StepKeepsPending ==
    ASSUME PendingNotApplied, NEW c \in Call, Step(c)
    PROVE  PendingNotApplied'
  <1>1. CASE Acquire(c)
    <2>1. pc[c] # "done" /\ UNCHANGED <<kind, answer, applied>>
      BY <1>1 DEF Acquire
    <2>2. \E label \in {"ask", "flight"} \cup Waiting : pc' = [pc EXCEPT ![c] = label]
      BY <1>1, TakeSlotMoves DEF Acquire, Sleep, Waiting
    <2> QED BY <2>1, <2>2, WaitingKeepsPending
  <1>2. CASE PauseOver(c)
    BY <1>2, TakeSlotMoves, WaitingKeepsPending DEF PauseOver
  <1>3. CASE SlotDue(c)
    <2>1. pc[c] # "done" /\ UNCHANGED <<kind, answer, applied>>
      BY <1>3 DEF SlotDue
    <2>2. pc' = [pc EXCEPT ![c] = "flight"]
      BY <1>3 DEF SlotDue, Send
    <2> QED BY <2>1, <2>2, WaitingKeepsPending
  <1>4. CASE Refused(c)
    BY <1>4 DEF PendingNotApplied, Refused, Finish, Waiting
  <1>5. CASE BackedOff(c)
    <2>1. pc[c] # "done" /\ UNCHANGED <<kind, answer, applied>>
      BY <1>5 DEF BackedOff
    <2>2. pc' = [pc EXCEPT ![c] = "ask"]
      BY <1>5 DEF BackedOff, Ask
    <2> QED BY <2>1, <2>2, WaitingKeepsPending
  <1> QED
    BY <1>1, <1>2, <1>3, <1>4, <1>5, OkKeepsPending, LimitedKeepsPending,
       UnansweredKeepsPending DEF Step

LEMMA NextKeepsPending == PendingNotApplied /\ [Next]_vars => PendingNotApplied'
  <1> SUFFICES ASSUME PendingNotApplied, [Next]_vars PROVE PendingNotApplied'
    OBVIOUS
  <1>1. CASE UNCHANGED <<pc, kind, answer, applied>>
    BY <1>1 DEF PendingNotApplied
  <1>2. CASE \E c \in Call : Step(c)
    BY <1>2, StepKeepsPending
  <1> QED BY <1>1, <1>2 DEF Next, Tick, Idle, vars

\* A create is applied at most once, and what its caller is told of it is true:
\* sendWithRateLimit repeats it only after a 429 and says "outcome unknown"
\* whenever it may have been applied without an answer.
THEOREM CreatesToldTrue == Spec => []CreateToldTrue
  <1>1. PendingNotApplied => CreateToldTrue
    BY DEF PendingNotApplied, CreateToldTrue
  <1> QED BY InitPending, NextKeepsPending, <1>1, PTL DEF Spec

-----------------------------------------------------------------------------
(* SapSession. *)

SessionLabel == {"get", "lock", "login", "store", "release", "refused", "wait", "call", "rejected", "done"}
LoggingIn == {"login", "store", "release", "refused"}

\* A call that logs in holds the lock as long as it has not run out on it.
LockHeld ==
    /\ at \in [Caller -> SessionLabel]
    /\ \A c \in Caller : at[c] \in LoggingIn /\ c \notin late => lock = c

LEMMA SessionInitLockHeld == SessionInit => LockHeld
  BY DEF SessionInit, LockHeld, SessionLabel, LoggingIn

\* Only TakeLock brings a call to the login, and only with a free lock; only
\* ReleaseLock, by its own holder, and LockExpires free it.
LEMMA SessionStepKeepsLockHeld ==
    ASSUME LockHeld, NEW c \in Caller, SessionStep(c)
    PROVE  LockHeld'
  <1> USE DEF SessionLabel, LoggingIn, GoTo, FinishCall, Use, AttemptEnds
  <1>1. CASE GetSession(c)
    BY <1>1 DEF LockHeld, GetSession, sessionGhosts
  <1>2. CASE TakeLock(c)
    <2>1. lock = Nobody => \A d \in Caller : ~(at[d] \in LoggingIn /\ d \notin late)
      BY NobodyAssumption DEF LockHeld
    <2> QED BY <1>2, <2>1 DEF LockHeld, TakeLock, sessionGhosts
  <1>3. CASE Login(c) \/ LoginFails(c) \/ StoreSession(c)
    BY <1>3 DEF LockHeld, Login, LoginFails, StoreSession, sessionGhosts
  <1>4. CASE ReleaseLock(c)
    <2>1. at[c] \in {"release", "refused"} /\ lock' = (IF lock = c THEN Nobody ELSE lock) /\ late' = late
      BY <1>4 DEF ReleaseLock, Owns, sessionGhosts
    <2>2. \E label \in SessionLabel \ LoggingIn : at' = [at EXCEPT ![c] = label]
      BY <1>4 DEF ReleaseLock
    <2> QED BY <2>1, <2>2 DEF LockHeld
  <1>5. CASE FindSession(c) \/ WaitTimesOut(c)
    BY <1>5 DEF LockHeld, FindSession, WaitTimesOut, sessionGhosts
  <1>6. CASE Accepted(c) \/ RejectedCall(c) \/ Invalidate(c)
    BY <1>6 DEF LockHeld, Accepted, RejectedCall, Invalidate, AfterError, sessionGhosts
  <1> QED BY <1>1, <1>2, <1>3, <1>4, <1>5, <1>6 DEF SessionStep

LEMMA SessionNextKeepsLockHeld == LockHeld /\ [SessionNext]_sessionVars => LockHeld'
  <1> SUFFICES ASSUME LockHeld, [SessionNext]_sessionVars PROVE LockHeld'
    OBVIOUS
  <1>1. CASE UNCHANGED <<at, late, lock>>
    BY <1>1 DEF LockHeld
  <1>2. ASSUME NEW c \in Caller, LostAnswer(c) \/ Breaks(c) PROVE LockHeld'
    BY <1>2 DEF LockHeld, SessionLabel, LoggingIn, LostAnswer, Breaks, AfterError, GoTo,
       FinishCall, sessionGhosts
  <1>3. CASE LockExpires
    BY <1>3 DEF LockHeld, LoggingIn, LockExpires, local
  <1> QED
    BY <1>1, <1>2, <1>3, SessionStepKeepsLockHeld
    DEF SessionNext, SessionIdle, CacheExpires, SapEnds, sessionVars, local, sessionGhosts

\* Two logins are under way at once only if the lock of one of them ran out:
\* releaseLock frees the caller's own lock and no other.
THEOREM LoginsExclude == SessionSpec => []OneLoginAtATime
  <1>1. LockHeld => OneLoginAtATime
    BY DEF LockHeld, OneLoginAtATime, LoggingIn
  <1> QED BY SessionInitLockHeld, SessionNextKeepsLockHeld, <1>1, PTL DEF SessionSpec

\* A write is repeated only while it has not been applied: what withSession
\* repeats, SAP has rejected.
UnendedNotApplied ==
    /\ at \in [Caller -> SessionLabel]
    /\ callKind \in [Caller -> CallKind]
    /\ sapApplied \in [Caller -> Nat]
    /\ \A c \in Caller :
          /\ sapApplied[c] <= 1
          /\ at[c] # "done" \/ callKind[c] # "write" => sapApplied[c] = 0

LEMMA SessionInitUnended == SessionInit => UnendedNotApplied
  BY DEF SessionInit, UnendedNotApplied, SessionLabel, CallKind

LEMMA CallKeepsUnended ==
    ASSUME UnendedNotApplied, NEW c \in Caller, at[c] # "done", UNCHANGED <<callKind, sapApplied>>,
           NEW label \in SessionLabel, at' = [at EXCEPT ![c] = label]
    PROVE  UnendedNotApplied'
  BY DEF UnendedNotApplied

LEMMA SessionStepKeepsUnended ==
    ASSUME UnendedNotApplied, NEW c \in Caller, SessionStep(c) \/ LostAnswer(c) \/ Breaks(c)
    PROVE  UnendedNotApplied'
  <1> USE DEF GoTo, FinishCall, Use, AfterError, AttemptEnds
  <1>1. CASE Accepted(c)
    <2>1. /\ at[c] = "call" /\ UNCHANGED callKind
          /\ sapApplied' = [sapApplied EXCEPT ![c] =
                 IF callKind[c] = "write" THEN sapApplied[c] + 1 ELSE sapApplied[c]]
      BY <1>1 DEF Accepted
    <2>2. (at' = [at EXCEPT ![c] = "done"]) \/ (callKind[c] = "walk" /\ UNCHANGED at)
      BY <1>1 DEF Accepted, Done, UnendedNotApplied, CallKind
    <2> QED BY <2>1, <2>2 DEF UnendedNotApplied, SessionLabel, CallKind
  <1>2. CASE LostAnswer(c)
    BY <1>2 DEF UnendedNotApplied, SessionLabel, CallKind, LostAnswer, RepeatsAnyError
  <1>3. CASE ~Accepted(c) /\ ~LostAnswer(c)
    <2>1. at[c] # "done" /\ UNCHANGED <<callKind, sapApplied>>
      BY <1>3 DEF SessionStep, GetSession, TakeLock, Login, LoginFails, StoreSession, ReleaseLock,
         FindSession, WaitTimesOut, RejectedCall, Invalidate, Breaks, sessionGhosts
    <2>2. \E label \in SessionLabel : at' = [at EXCEPT ![c] = label]
      BY <1>3 DEF SessionLabel, SessionStep, GetSession, TakeLock, Login, LoginFails,
         StoreSession, ReleaseLock, FindSession, WaitTimesOut, RejectedCall, Invalidate, Breaks
    <2> QED BY <2>1, <2>2, CallKeepsUnended
  <1> QED BY <1>1, <1>2, <1>3

LEMMA SessionNextKeepsUnended ==
    UnendedNotApplied /\ [SessionNext]_sessionVars => UnendedNotApplied'
  <1> SUFFICES ASSUME UnendedNotApplied, [SessionNext]_sessionVars PROVE UnendedNotApplied'
    OBVIOUS
  <1>1. CASE UNCHANGED <<at, callKind, sapApplied>>
    BY <1>1 DEF UnendedNotApplied
  <1> QED
    BY <1>1, SessionStepKeepsUnended
    DEF SessionNext, SessionIdle, LockExpires, CacheExpires, SapEnds, sessionVars, local,
        sessionGhosts

\* SAP applies a write at most once: withSession sends again only what SAP has
\* rejected for its session, and runWithRetry repeats reads alone.
THEOREM WritesAreNotRepeated == SessionSpec => []WrittenAtMostOnce
  <1>1. UnendedNotApplied => WrittenAtMostOnce
    BY DEF UnendedNotApplied, WrittenAtMostOnce
  <1> QED BY SessionInitUnended, SessionNextKeepsUnended, <1>1, PTL DEF SessionSpec

-----------------------------------------------------------------------------
(* SapGateway. *)

RequestField == {"pc", "kind", "tries", "tried", "page", "asked", "url", "rows"}

\* A write that SAP has performed is over: only a refused token is worth another
\* try, and SAP refuses a token before it looks at the write.
PerformedIsOver ==
    /\ request = [r \in Request |-> request[r]]
    /\ \A r \in Request : DOMAIN request[r] = RequestField
    /\ performed \in [Request -> Nat]
    /\ \A r \in Request :
          /\ performed[r] <= 1
          /\ performed[r] # 0 => request[r].pc \in {"done", "failed"}

LEMMA UpdateOfPc ==
    ASSUME PerformedIsOver, NEW r \in Request, NEW changes, Update(r, changes),
           DOMAIN changes \subseteq RequestField, "pc" \in DOMAIN changes
    PROVE  /\ request' = [q \in Request |-> request'[q]]
           /\ \A q \in Request \ {r} : request'[q] = request[q]
           /\ DOMAIN request'[r] = RequestField
           /\ request'[r].pc = changes.pc
  BY DEF PerformedIsOver, Update, RequestField

LEMMA GatewayInitPerformed == GatewayInit => PerformedIsOver
  BY DEF GatewayInit, PerformedIsOver, Fresh, RequestField

LEMMA QuietKeepsPerformed ==
    ASSUME PerformedIsOver, NEW r \in Request, NEW changes, Update(r, changes),
           DOMAIN changes \subseteq RequestField, "pc" \in DOMAIN changes,
           request[r].pc \notin {"done", "failed"}, UNCHANGED performed
    PROVE  PerformedIsOver'
  BY UpdateOfPc DEF PerformedIsOver

LEMMA TokenKeepsPerformed ==
    ASSUME PerformedIsOver, NEW r \in Request, StartWrite(r) \/ UseToken(r) \/ FetchToken(r)
    PROVE  PerformedIsOver'
  <1>1. CASE StartWrite(r)
    BY <1>1, QuietKeepsPerformed DEF StartWrite, RequestField
  <1>2. CASE UseToken(r)
    BY <1>2, QuietKeepsPerformed DEF UseToken, RequestField
  <1>3. CASE FetchToken(r)
    <2>1. UNCHANGED performed /\ request[r].pc \in {"token", "refresh"}
      BY <1>3 DEF FetchToken
    <2>2. CASE Update(r, [pc |-> "send", tried |-> request[r].tried \cup {csrfTokens + 1}])
      BY <2>1, <2>2, QuietKeepsPerformed DEF RequestField
    <2>3. CASE Update(r, [pc |-> "failed"])
      BY <2>1, <2>3, QuietKeepsPerformed DEF RequestField
    <2> QED BY <1>3, <2>2, <2>3 DEF FetchToken
  <1> QED BY <1>1, <1>2, <1>3

LEMMA WriteKeepsPerformed ==
    ASSUME PerformedIsOver, NEW r \in Request, PerformWrite(r)
    PROVE  PerformedIsOver'
  <1> DEFINE Failing(error) == [pc |-> AfterRefusal(r, error), tries |-> request[r].tries + 1]
  <1>1. request[r].pc = "send"
    BY DEF PerformWrite
  <1>2. performed[r] = 0
    BY <1>1 DEF PerformedIsOver
  <1>3. CASE UNCHANGED performed /\ Update(r, Failing("csrf"))
    BY <1>1, <1>3, QuietKeepsPerformed DEF RequestField
  <1>4. ASSUME performed' = [performed EXCEPT ![r] = @ + 1], NEW changes, Update(r, changes),
               DOMAIN changes \subseteq RequestField, "pc" \in DOMAIN changes,
               changes.pc \in {"done", "failed"}
        PROVE  PerformedIsOver'
    BY <1>2, <1>4, UpdateOfPc DEF PerformedIsOver
  <1>5. CASE performed' = [performed EXCEPT ![r] = @ + 1] /\ Update(r, [pc |-> "done"])
    BY <1>4, <1>5 DEF RequestField
  <1>6. CASE performed' = [performed EXCEPT ![r] = @ + 1] /\ Update(r, Failing("other"))
    <2>1. AfterRefusal(r, "other") = "failed"
      BY DEF AfterRefusal, Repeated
    <2> QED BY <1>4, <1>6, <2>1 DEF RequestField
  <1> QED BY <1>3, <1>5, <1>6 DEF PerformWrite

LEMMA ReadKeepsPerformed ==
    ASSUME PerformedIsOver, NEW r \in Request, StartRead(r) \/ ReadPage(r)
    PROVE  PerformedIsOver'
  <1>1. UNCHANGED performed /\ request[r].pc \in {"idle", "page"}
    BY DEF StartRead, ReadPage, GatewayOnly
  <1>2. CASE StartRead(r)
    BY <1>1, <1>2, QuietKeepsPerformed DEF StartRead, RequestField
  <1>3. CASE ReadPage(r)
    <2>1. PICK rows : \/ Update(r, [pc |-> "done", rows |-> rows])
                      \/ \E link : Update(r, [page |-> request[r].page + 1, rows |-> rows,
                                              url |-> Followed(link)])
                      \/ Update(r, [pc |-> "failed", rows |-> {}])
      BY <1>3 DEF ReadPage
    <2>2. CASE Update(r, [pc |-> "done", rows |-> rows])
      BY <1>1, <2>2, QuietKeepsPerformed DEF RequestField
    <2>3. CASE Update(r, [pc |-> "failed", rows |-> {}])
      BY <1>1, <2>3, QuietKeepsPerformed DEF RequestField
    <2>4. ASSUME NEW link, Update(r, [page |-> request[r].page + 1, rows |-> rows,
                                      url |-> Followed(link)])
          PROVE  PerformedIsOver'
      <3>1. /\ request' = [q \in Request |-> request'[q]]
            /\ \A q \in Request \ {r} : request'[q] = request[q]
            /\ DOMAIN request'[r] = RequestField
        BY <2>4 DEF PerformedIsOver, Update
      <3>2. request'[r].pc = request[r].pc
        BY <2>4 DEF PerformedIsOver, Update, RequestField
      <3> QED BY <1>1, <3>1, <3>2 DEF PerformedIsOver
    <2> QED BY <2>1, <2>2, <2>3, <2>4
  <1> QED BY <1>2, <1>3

LEMMA GatewayNextKeepsPerformed ==
    PerformedIsOver /\ [GatewayNext]_gatewayVars => PerformedIsOver'
  <1> SUFFICES ASSUME PerformedIsOver, [GatewayNext]_gatewayVars PROVE PerformedIsOver'
    OBVIOUS
  <1>1. CASE UNCHANGED <<request, performed>>
    BY <1>1 DEF PerformedIsOver
  <1>2. (\E a \in Admin :
           \/ Get(a) \/ Delete(a)
           \/ \E password \in Password, param \in Param : Create(a, password, param)
           \/ \E offer \in Offered(a), param \in {"left out", "own", "none", "blank"} :
                 Patch(a, offer, param))
        => UNCHANGED <<request, performed>>
    BY DEF Get, Delete, Create, Patch, CredentialsOnly
  <1>3. WriteStraight \/ Build \/ (\E t \in valid : Forget(t)) => UNCHANGED <<request, performed>>
    BY DEF WriteStraight, Build, Forget, CredentialsOnly
  <1> QED
    BY <1>1, <1>2, <1>3, TokenKeepsPerformed, WriteKeepsPerformed, ReadKeepsPerformed
    DEF GatewayNext, gatewayVars

\* SAP performs no write twice, although a refused one is sent again: only the
\* refusal of a token is worth another try (S4GatewayTransport.request).
THEOREM WritesPerformedOnce == GatewaySpec => []PerformedOnce
  <1>1. PerformedIsOver => PerformedOnce
    BY DEF PerformedIsOver, PerformedOnce
  <1> QED BY GatewayInitPerformed, GatewayNextKeepsPerformed, <1>1, PTL DEF GatewaySpec

-----------------------------------------------------------------------------
(* HubspotAuth. *)

Grant == Installer \cup {"none"}
Document == [access : Nat, refresh : Grant, portal : Portal \cup {"none"}]

AuthTypes ==
    /\ docs \in Seq(Document)
    /\ held \in Seq(Installer)
    /\ Len(held) = Len(docs)
    /\ loaded \in [Process -> [at : {0, 1}, copy : Document]]
    /\ granted \in [Process -> Document]
    /\ step \in [Process -> {"start", "post", "save", "find", "store", "done"}]
    /\ tokens \in Nat

\* A refresh sends back the grant it read, so its save leaves the refresh token
\* alone; a grant is stored once, so the copy an exchange has read never bears
\* the grant it is about to store.
GrantsKept ==
    /\ AuthTypes
    /\ GrantKept
    /\ \A p \in Process : loaded[p].at = 1 => docs # <<>>
    /\ \A r \in Refresher :
          /\ step[r] \in {"start", "post", "save"}
          /\ step[r] \in {"post", "save"} => loaded[r].at = 1
          /\ step[r] = "save" => granted[r].refresh = loaded[r].copy.refresh
    /\ \A i \in Installer :
          /\ step[i] \in {"start", "find", "store", "done"}
          /\ step[i] \in {"find", "store"} => granted[i].refresh = i
          /\ step[i] # "done" =>
                /\ \A d \in DOMAIN held : held[d] # i
                /\ \A p \in Process : loaded[p].at = 1 => loaded[p].copy.refresh # i

LEMMA AuthInitKept == AuthInit => GrantsKept
  BY DEF AuthInit, GrantsKept, AuthTypes, GrantKept, Document, Grant, Nothing, NoDoc, Process

LEMMA SaveWrites ==
    ASSUME AuthTypes, NEW p \in Process, loaded[p].at = 1, docs # <<>>,
           NEW new \in Document, Save(p, new)
    PROVE  /\ docs' \in Seq(Document)
           /\ Len(docs') = Len(docs)
           /\ \A d \in DOMAIN docs : d # 1 => docs'[d] = docs[d]
           /\ docs'[1].refresh = IF new.refresh # loaded[p].copy.refresh
                                 THEN new.refresh ELSE docs[1].refresh
  <1> DEFINE saved == [f \in Fields |-> IF f \in Modified(p, new) THEN new[f] ELSE docs[1][f]]
  <1>1. docs[1] \in Document /\ 1 \in DOMAIN docs
    BY DEF AuthTypes
  <1>2. saved \in Document
    BY <1>1 DEF Document, Fields
  <1>3. docs' = [docs EXCEPT ![1] = saved]
    BY DEF Save
  <1>4. saved.refresh = IF new.refresh # loaded[p].copy.refresh THEN new.refresh ELSE docs[1].refresh
    BY DEF Fields, Modified
  <1> HIDE DEF saved
  <1> QED BY <1>1, <1>2, <1>3, <1>4 DEF AuthTypes

LEMMA FoundDoc ==
    ASSUME AuthTypes, NEW p \in Process, FindDoc(p)
    PROVE  /\ loaded' \in [Process -> [at : {0, 1}, copy : Document]]
           /\ \A q \in Process \ {p} : loaded'[q] = loaded[q]
           /\ docs = <<>> => loaded'[p].at = 0
           /\ docs # <<>> => loaded'[p].at = 1 /\ loaded'[p].copy = docs[1]
  <1>1. docs # <<>> => docs[1] \in Document
    BY DEF AuthTypes
  <1>2. Nothing \in Document
    BY DEF Nothing, Document, Grant
  <1> QED BY <1>1, <1>2 DEF AuthTypes, FindDoc, NoDoc

LEMMA RefreshKeepsGrants ==
    ASSUME GrantsKept, NEW r \in Refresher,
           LoadForRefresh(r) \/ RefreshAnswered(r) \/ SaveRefreshed(r)
    PROVE  GrantsKept'
  <1>1. r \in Process /\ r \notin Installer
    BY ProcessesAssumption DEF Process
  <1>2. CASE LoadForRefresh(r)
    <2>1. /\ loaded' \in [Process -> [at : {0, 1}, copy : Document]]
          /\ \A q \in Process \ {r} : loaded'[q] = loaded[q]
          /\ loaded'[r].at = 1 /\ loaded'[r].copy = docs[1]
      BY <1>1, <1>2, FoundDoc DEF GrantsKept, LoadForRefresh
    <2>2. UNCHANGED <<docs, granted, tokens, held>> /\ step' = [step EXCEPT ![r] = "post"]
      BY <1>2 DEF LoadForRefresh, Goto
    <2>3. docs # <<>> /\ docs[1].refresh = held[1] /\ 1 \in DOMAIN held
      BY <1>2 DEF LoadForRefresh, GrantsKept, AuthTypes, GrantKept
    <2>4. \A j \in Installer : step[j] # "done" => loaded'[r].copy.refresh # j
      BY <2>1, <2>3 DEF GrantsKept
    <2>5. AuthTypes' /\ GrantKept'
      BY <1>1, <2>1, <2>2 DEF GrantsKept, AuthTypes, GrantKept
    <2>6. \A q \in Process : q # r => step'[q] = step[q]
      BY <2>2 DEF GrantsKept, AuthTypes
    <2>7. step'[r] = "post"
      BY <1>1, <2>2 DEF GrantsKept, AuthTypes
    <2> QED BY <1>1, <2>1, <2>2, <2>3, <2>4, <2>5, <2>6, <2>7 DEF GrantsKept, Process
  <1>3. CASE RefreshAnswered(r)
    <2>1. loaded[r].copy \in Document
      BY <1>1 DEF GrantsKept, AuthTypes
    <2>2. /\ granted' = [granted EXCEPT ![r] = [access |-> tokens + 1,
                             refresh |-> loaded[r].copy.refresh, portal |-> loaded[r].copy.portal]]
          /\ tokens' = tokens + 1
          /\ UNCHANGED <<docs, loaded, held>> /\ step' = [step EXCEPT ![r] = "save"]
          /\ step[r] = "post"
      BY <1>3 DEF RefreshAnswered, GiveToken, Goto
    <2>3. granted' \in [Process -> Document]
      BY <1>1, <2>1, <2>2 DEF GrantsKept, AuthTypes, Document
    <2> QED BY <1>1, <2>1, <2>2, <2>3 DEF GrantsKept, AuthTypes, GrantKept, Process
  <1>4. CASE SaveRefreshed(r)
    <2> DEFINE new == [loaded[r].copy EXCEPT !.access = granted[r].access,
                                             !.refresh = granted[r].refresh]
    <2>1. /\ loaded[r].at = 1 /\ docs # <<>>
          /\ granted[r].refresh = loaded[r].copy.refresh
          /\ loaded[r].copy \in Document /\ granted[r] \in Document
      BY <1>1, <1>4 DEF GrantsKept, AuthTypes, SaveRefreshed
    <2>2. new \in Document /\ new.refresh = loaded[r].copy.refresh
      BY <2>1 DEF Document
    <2>3. /\ Save(r, new) /\ UNCHANGED <<loaded, granted, tokens, held>>
          /\ step' = [step EXCEPT ![r] = "start"]
      BY <1>4 DEF SaveRefreshed, Goto
    <2> HIDE DEF new
    <2>4. /\ docs' \in Seq(Document) /\ Len(docs') = Len(docs)
          /\ \A d \in DOMAIN docs : docs'[d].refresh = docs[d].refresh
      BY <1>1, <2>1, <2>2, <2>3, SaveWrites, SMTT(30) DEF GrantsKept, AuthTypes
    <2>5. docs' # <<>> /\ DOMAIN docs' = DOMAIN docs
      BY <2>1, <2>4 DEF GrantsKept, AuthTypes
    <2>6. AuthTypes' /\ GrantKept'
      BY <1>1, <2>3, <2>4, <2>5 DEF GrantsKept, AuthTypes, GrantKept
    <2> QED BY <1>1, <2>3, <2>5, <2>6 DEF GrantsKept, AuthTypes, Process
  <1> QED BY <1>2, <1>3, <1>4

LEMMA ExchangeKeepsGrants ==
    ASSUME GrantsKept, NEW i \in Installer, Exchange(i) \/ FindExisting(i)
    PROVE  GrantsKept'
  <1>1. i \in Process /\ i \notin Refresher
    BY ProcessesAssumption DEF Process
  <1>2. CASE Exchange(i)
    <2>1. PICK portal \in Portal :
            /\ granted' = [granted EXCEPT ![i] = [access |-> tokens + 1, refresh |-> i,
                                                  portal |-> portal]]
            /\ step' = [step EXCEPT ![i] = IF PortalMatches(portal) THEN "find" ELSE "done"]
      BY <1>2 DEF Exchange, GiveToken, Goto
    <2>2. step[i] = "start" /\ UNCHANGED <<docs, loaded, held>> /\ tokens' = tokens + 1
      BY <1>2 DEF Exchange, GiveToken
    <2>3. granted' \in [Process -> Document]
      BY <1>1, <2>1, <2>2 DEF GrantsKept, AuthTypes, Document, Grant
    <2> QED BY <1>1, <2>1, <2>2, <2>3 DEF GrantsKept, AuthTypes, GrantKept, Process
  <1>3. CASE FindExisting(i)
    <2>1. UNCHANGED <<docs, granted, tokens, held>> /\ step' = [step EXCEPT ![i] = "store"]
          /\ step[i] = "find"
      BY <1>3 DEF FindExisting, Goto
    <2>2. /\ loaded' \in [Process -> [at : {0, 1}, copy : Document]]
          /\ \A q \in Process \ {i} : loaded'[q] = loaded[q]
          /\ docs = <<>> => loaded'[i].at = 0
          /\ docs # <<>> => loaded'[i].at = 1 /\ loaded'[i].copy = docs[1]
      BY <1>1, <1>3, FoundDoc DEF GrantsKept, FindExisting
    <2>3. docs # <<>> => docs[1].refresh = held[1] /\ 1 \in DOMAIN held
      BY DEF GrantsKept, AuthTypes, GrantKept
    <2> QED BY <1>1, <2>1, <2>2, <2>3, SMTT(30) DEF GrantsKept, AuthTypes, GrantKept, Process
  <1> QED BY <1>2, <1>3

LEMMA StoreKeepsGrants ==
    ASSUME GrantsKept, NEW i \in Installer, StoreGrant(i)
    PROVE  GrantsKept'
  <1>1. i \in Process /\ i \notin Refresher
    BY ProcessesAssumption DEF Process
  <1>2. /\ step[i] = "store" /\ step' = [step EXCEPT ![i] = "done"]
        /\ UNCHANGED <<loaded, granted, tokens>>
        /\ granted[i] \in Document /\ granted[i].refresh = i
    BY <1>1 DEF StoreGrant, Goto, GrantsKept, AuthTypes
  <1>3. ASSUME docs' # <<>>, AuthTypes', GrantKept',
               \A d \in DOMAIN held' : held'[d] = i \/ (d \in DOMAIN held /\ held'[d] = held[d])
        PROVE  GrantsKept'
    BY <1>1, <1>2, <1>3 DEF GrantsKept, AuthTypes, Process
  <1>4. CASE loaded[i].at = NoDoc /\ docs' = Append(docs, granted[i]) /\ held' = Append(held, i)
    <2>1. docs' # <<>> /\ AuthTypes' /\ GrantKept'
      BY <1>1, <1>2, <1>4 DEF GrantsKept, AuthTypes, GrantKept
    <2>2. \A d \in DOMAIN held' : held'[d] = i \/ (d \in DOMAIN held /\ held'[d] = held[d])
      BY <1>4 DEF GrantsKept, AuthTypes
    <2> QED BY <1>3, <2>1, <2>2
  <1>5. CASE /\ loaded[i].at # NoDoc /\ Save(i, granted[i])
             /\ held' = [held EXCEPT ![loaded[i].at] = i]
    <2>1. loaded[i].at = 1 /\ docs # <<>> /\ loaded[i].copy.refresh # i
      BY <1>1, <1>2, <1>5 DEF GrantsKept, AuthTypes, NoDoc
    <2>2. /\ docs' \in Seq(Document) /\ Len(docs') = Len(docs)
          /\ \A d \in DOMAIN docs : d # 1 => docs'[d] = docs[d]
          /\ docs'[1].refresh = i
      BY <1>1, <1>2, <1>5, <2>1, SaveWrites DEF GrantsKept
    <2>3. 1 \in DOMAIN held /\ DOMAIN docs = DOMAIN held /\ docs' # <<>> /\ DOMAIN docs' = DOMAIN docs
      BY <2>1, <2>2 DEF GrantsKept, AuthTypes
    <2>4. /\ held' \in Seq(Installer) /\ Len(held') = Len(held) /\ held'[1] = i
          /\ \A d \in DOMAIN held : d # 1 => held'[d] = held[d]
      BY <1>5, <2>1, <2>3 DEF GrantsKept, AuthTypes
    <2>5. AuthTypes'
      BY <1>1, <1>2, <2>2, <2>4 DEF GrantsKept, AuthTypes
    <2>6. GrantKept'
      BY <2>2, <2>3, <2>4 DEF GrantsKept, GrantKept
    <2>7. DOMAIN held' = DOMAIN held
      BY <2>4 DEF GrantsKept, AuthTypes
    <2> QED BY <1>3, <2>3, <2>4, <2>5, <2>6, <2>7
  <1> QED BY <1>4, <1>5 DEF StoreGrant

LEMMA AuthNextKept == GrantsKept /\ [AuthNext]_authVars => GrantsKept'
  <1> SUFFICES ASSUME GrantsKept, [AuthNext]_authVars PROVE GrantsKept'
    OBVIOUS
  <1>1. CASE UNCHANGED authVars
    BY <1>1 DEF GrantsKept, AuthTypes, GrantKept, authVars
  <1> QED
    BY <1>1, RefreshKeepsGrants, ExchangeKeepsGrants, StoreKeepsGrants DEF AuthNext, AuthIdle

\* The refresh token of a document is that of the last grant stored in it: a
\* refresh under way with the previous grant saves the access token alone.
THEOREM LastGrantIsKept == AuthSpec => []GrantKept
  <1>1. GrantsKept => GrantKept
    BY DEF GrantsKept
  <1> QED BY AuthInitKept, AuthNextKept, <1>1, PTL DEF AuthSpec

-----------------------------------------------------------------------------
(* A least counterexample takes the place of induction over data.              *)

LEMMA Least == ASSUME NEW T, T \subseteq Nat, T # {}
               PROVE  \E x \in T : \A y \in T : x <= y
<1>1. PICK m \in T : TRUE
  OBVIOUS
<1> PICK S : S = 0 .. m
  OBVIOUS
<1>2. IsFiniteSet(S)
  BY <1>1, FS_Interval
<1>3. IsWellFoundedOn(StrictSubsetOrdering(S), FiniteSubsetsOf(S))
  BY FS_StrictSubsetOrderingWellFounded
<1> PICK C : C = {0 .. x : x \in {t \in T : t <= m}}
  OBVIOUS
<1>4. C # {} /\ C \subseteq FiniteSubsetsOf(S)
  <2>1. C # {}
    BY <1>1
  <2>2. FiniteSubsetsOf(S) = SUBSET S
    BY <1>2, FS_FiniteSubsetsOfFinite
  <2>3. \A x \in T : x <= m => 0 .. x \subseteq S
    BY <1>1
  <2>4. C \subseteq SUBSET S
    BY <2>3
  <2> QED
    BY <2>1, <2>2, <2>4
<1>5. \E x \in C : \A y \in C : ~(<<y, x>> \in StrictSubsetOrdering(S))
  BY <1>3, <1>4, WFMin
<1>6. PICK x \in T : x <= m /\ \A y \in C : ~(<<y, 0 .. x>> \in StrictSubsetOrdering(S))
  BY <1>5
<1>7. ASSUME NEW y \in T, y < x PROVE FALSE
  <2>1. 0 .. y \in C
    BY <1>1, <1>6, <1>7
  <2>2. 0 .. y \subseteq 0 .. x /\ 0 .. y # 0 .. x
    BY <1>7
  <2>3. (0 .. y) \in SUBSET S /\ (0 .. x) \in SUBSET S
    BY <1>1, <1>6, <1>7
  <2> QED
    BY <1>6, <2>1, <2>2, <2>3 DEF StrictSubsetOrdering
<1> QED
  BY <1>6, <1>7

\* Without its first element a set is smaller.
LEMMA OneLess ==
    ASSUME NEW n \in Nat, NEW s \in SUBSET (1 .. n)
    PROVE  /\ Cardinality(s) \in 0 .. n
           /\ s = {} <=> Cardinality(s) = 0
           /\ s # {} => /\ (CHOOSE x \in s : TRUE) \in s
                        /\ s \ {CHOOSE x \in s : TRUE} \in SUBSET (1 .. n)
                        /\ Cardinality(s \ {CHOOSE x \in s : TRUE}) = Cardinality(s) - 1
<1>1. IsFiniteSet(1 .. n) /\ Cardinality(1 .. n) = n
  BY FS_Interval
<1>2. IsFiniteSet(s) /\ Cardinality(s) <= n
  BY <1>1, FS_Subset
<1>3. Cardinality(s) \in Nat /\ (Cardinality(s) = 0 <=> s = {})
  BY <1>2, FS_CardinalityType, FS_EmptySet
<1>4. ASSUME s # {} PROVE /\ (CHOOSE x \in s : TRUE) \in s
                          /\ Cardinality(s \ {CHOOSE x \in s : TRUE}) = Cardinality(s) - 1
  <2>1. PICK p : p = CHOOSE x \in s : TRUE
    OBVIOUS
  <2>2. p \in s
    BY <1>4, <2>1
  <2>3. Cardinality(s \ {p}) = Cardinality(s) - 1
    BY <1>2, <2>2, FS_RemoveElement
  <2> QED BY <2>1, <2>2, <2>3
<1> QED BY <1>2, <1>3, <1>4

\* The sizes of calls that are no longer than a cap add up to no more than the cap of each.
LEMMA SizesAddUp ==
    ASSUME NEW n \in Nat, NEW audit, DOMAIN audit.calls = 1 .. n, NEW cap \in Nat,
           \A i \in 1 .. n : SizeOf(audit.calls[i]) \in Nat /\ SizeOf(audit.calls[i]) <= cap
    PROVE  CallsSize(audit) \in Nat /\ CallsSize(audit) <= n * cap
<1> DEFINE size(i) == SizeOf(audit.calls[i])
           First(s) == CHOOSE x \in s : TRUE
           Rest(s) == s \ {First(s)}
           Sum(f) == [s \in SUBSET (1 .. n) |-> IF s = {} THEN 0 ELSE f[Rest(s)] + size(First(s))]
           Good(k, f) == \A s \in SUBSET (1 .. n) :
                            Cardinality(s) <= k
                              => f[s] = IF s = {} THEN 0 ELSE f[Rest(s)] + size(First(s))
           Bad == {k \in 0 .. n : ~\E f : Good(k, f)}
<1>1. \A s \in SUBSET (1 .. n) :
         /\ Cardinality(s) \in 0 .. n
         /\ s = {} <=> Cardinality(s) = 0
         /\ s # {} => First(s) \in s /\ Rest(s) \in SUBSET (1 .. n) /\ Cardinality(Rest(s)) = Cardinality(s) - 1
  BY OneLess
<1>2. Bad = {}
  <2> SUFFICES ASSUME Bad # {} PROVE FALSE
    OBVIOUS
  <2>1. PICK k \in Bad : \A x \in Bad : k <= x
    <3>1. Bad \subseteq Nat
      OBVIOUS
    <3> HIDE DEF Bad
    <3> QED BY <3>1, Least
  <2>2. k \in 0 .. n /\ ~\E f : Good(k, f)
    <3> HIDE DEF Good
    <3> QED BY <2>1
  <2>3. k # 0
    <3>1. ASSUME k = 0 PROVE Good(k, [s \in SUBSET (1 .. n) |-> 0])
      <4> HIDE DEF Rest, First, size
      <4> QED BY <1>1, <3>1
    <3> HIDE DEF Good
    <3> QED BY <2>2, <3>1
  <2>4. PICK f : Good(k - 1, f)
    <3>1. k - 1 \in 0 .. n /\ k - 1 \notin Bad
      <4> HIDE DEF Bad
      <4> QED BY <2>1, <2>2, <2>3
    <3> HIDE DEF Good
    <3> QED BY <3>1
  <2> HIDE DEF Rest, First, size
  <2> DEFINE g == [s \in SUBSET (1 .. n) |->
                     IF Cardinality(s) <= k - 1 THEN f[s] ELSE f[Rest(s)] + size(First(s))]
  <2>5. ASSUME NEW s \in SUBSET (1 .. n), Cardinality(s) <= k
        PROVE  g[s] = IF s = {} THEN 0 ELSE g[Rest(s)] + size(First(s))
    <3>1. ASSUME s = {} PROVE g[s] = 0
      <4>1. Cardinality(s) <= k - 1
        <5>1. Cardinality(s) = 0
          BY <1>1, <3>1
        <5> QED BY <2>2, <2>3, <5>1
      <4>2. f[s] = 0
        BY <2>4, <3>1, <4>1
      <4> QED BY <4>1, <4>2
    <3>2. ASSUME s # {} PROVE g[s] = g[Rest(s)] + size(First(s))
      <4>1. g[Rest(s)] = f[Rest(s)]
        <5>1. Rest(s) \in SUBSET (1 .. n) /\ Cardinality(Rest(s)) = Cardinality(s) - 1 /\ Cardinality(s) \in 0 .. n
          BY <1>1, <3>2
        <5>2. Cardinality(Rest(s)) <= k - 1
          BY <2>2, <2>5, <5>1
        <5> QED BY <5>1, <5>2
      <4>2. CASE Cardinality(s) <= k - 1
        BY <2>4, <3>2, <4>1, <4>2
      <4>3. CASE ~(Cardinality(s) <= k - 1)
        BY <4>1, <4>3
      <4> QED BY <4>2, <4>3
    <3> HIDE DEF g
    <3> QED BY <3>1, <3>2
  <2>6. Good(k, g)
    <3> HIDE DEF g
    <3> QED BY <2>5
  <2> HIDE DEF Good, g
  <2> QED BY <2>2, <2>6
<1>3. PICK f : Good(n, f)
  <2>1. n \in 0 .. n /\ n \notin Bad
    <3> HIDE DEF Bad
    <3> QED BY <1>2
  <2> HIDE DEF Good
  <2> QED BY <2>1
<1> PICK h : h = [s \in SUBSET (1 .. n) |-> f[s]]
  OBVIOUS
<1>4. h = Sum(h)
  <2> HIDE DEF Rest, First, size
  <2>1. \A s \in SUBSET (1 .. n) : h[s] = IF s = {} THEN 0 ELSE h[Rest(s)] + size(First(s))
    BY <1>1, <1>3
  <2> QED BY <2>1
<1> DEFINE sum == CHOOSE g : g = Sum(g)
<1>5. sum = Sum(sum)
  <2> HIDE DEF Sum
  <2> QED BY <1>4
<1>6. CallsSize(audit) = sum[1 .. n]
  BY DEF CallsSize, FoldSeq, FoldFunction, FoldFunctionOnSet, MapThenFoldSet
<1> PICK g : g = sum
  OBVIOUS
<1>7. \A s \in SUBSET (1 .. n) : g[s] = IF s = {} THEN 0 ELSE g[Rest(s)] + size(First(s))
  <2>1. g = Sum(g)
    <3> HIDE DEF Sum, sum
    <3> QED BY <1>5
  <2> HIDE DEF sum, Rest, First, size
  <2> QED BY <2>1
<1>8. \A s \in SUBSET (1 .. n) : s # {} => size(First(s)) \in Nat /\ size(First(s)) <= cap
  BY <1>1
<1> HIDE DEF sum, Sum, Rest, First, size, Good, Bad
<1> DEFINE Wrong == {k \in 0 .. n : \E s \in SUBSET (1 .. n) :
                        Cardinality(s) = k /\ ~(g[s] \in Nat /\ g[s] <= k * cap)}
<1>9. Wrong = {}
  <2> SUFFICES ASSUME Wrong # {} PROVE FALSE
    OBVIOUS
  <2>1. PICK k \in Wrong : \A x \in Wrong : k <= x
    <3>1. Wrong \subseteq Nat
      OBVIOUS
    <3> HIDE DEF Wrong
    <3> QED BY <3>1, Least
  <2>2. PICK s \in SUBSET (1 .. n) : Cardinality(s) = k /\ ~(g[s] \in Nat /\ g[s] <= k * cap)
    BY <2>1
  <2>3. s # {}
    <3>1. s = {} => k = 0 /\ g[s] = 0
      BY <1>1, <1>7, <2>2
    <3>2. 0 * cap = 0
      OBVIOUS
    <3> QED BY <2>2, <3>1, <3>2
  <2>4. PICK r, j : r = Rest(s) /\ j = k - 1
    OBVIOUS
  <2>5. r \in SUBSET (1 .. n) /\ Cardinality(r) = j /\ j \in 0 .. n /\ k = j + 1 /\ j \notin Wrong
    <3>1. r \in SUBSET (1 .. n) /\ Cardinality(r) = j /\ k \in 0 .. n /\ k # 0
      BY <1>1, <2>2, <2>3, <2>4
    <3>2. j \in 0 .. n /\ k = j + 1 /\ ~(k <= j)
      BY <2>4, <3>1
    <3> HIDE DEF Wrong
    <3> QED BY <2>1, <3>1, <3>2
  <2>6. g[r] \in Nat /\ g[r] <= j * cap
    BY <2>5
  <2>7. (j + 1) * cap = j * cap + cap /\ j * cap \in Nat
    BY <2>5
  <2>8. g[s] = g[r] + size(First(s)) /\ size(First(s)) \in Nat /\ size(First(s)) <= cap
    BY <1>7, <1>8, <2>3, <2>4
  <2>9. g[s] \in Nat /\ g[s] <= j * cap + cap
    BY <2>6, <2>7, <2>8
  <2> QED BY <2>2, <2>5, <2>7, <2>9
<1>10. 1 .. n \in SUBSET (1 .. n) /\ Cardinality(1 .. n) = n /\ n \in 0 .. n
  <2>1. Cardinality(1 .. n) = IF 1 > n THEN 0 ELSE n - 1 + 1
    BY FS_Interval
  <2> QED BY <2>1
<1>11. g[1 .. n] \in Nat /\ g[1 .. n] <= n * cap
  BY <1>9, <1>10
<1> QED BY <1>6, <1>11

-----------------------------------------------------------------------------
(* CallAudit.  An audit whose bodies are all cut fits: the recorder holds no   *)
(* more calls than its cap, and each object is cut to the body's cap.          *)

\* The recorder keeps to its cap and counts what it drops, and the flow of an event to its audit.
AuditInv ==
    /\ flow \in {"document", "prices", "run"} /\ maxCalls \in RecorderCaps /\ beside \in BesideSizes
    /\ recorder.calls \in Seq(AuditCall) /\ Len(recorder.calls) <= maxCalls
    /\ DOMAIN recorder = {"calls", "dropped"} /\ recorder.dropped \in Nat
    /\ made \in Seq(AuditCall)
    /\ flow # "run" => Len(recorder.calls) + recorder.dropped = Len(made)
    /\ IsWritten => outcome # "working"
    /\ LostToWhatIsWhole /\ CallsAddUp

\* A call as it is written, its bodies at their caps.
IsCut(call) ==
    /\ SizeOf(call) \in Nat /\ SizeOf(call) <= 2 * BodyCap
    /\ Unwanted \cap (call.request.keys \cup call.answer.keys) = {}

LEMMA BodiesAreCut ==
    ASSUME NEW body \in Body
    PROVE  /\ Clean(body).size = body.size /\ Unwanted \cap Clean(body).keys = {}
           /\ Unwanted \cap Preview(Clean(body)).keys = {}
           /\ Preview(Clean(body)).size \in Nat
           /\ ~(body.text /\ body.size > BodyCap) => Preview(Clean(body)).size <= BodyCap
<1>1. /\ body \in [keys : SUBSET {"plain", "$", "dotted", "@odata."}, size : Nat, text : BOOLEAN]
      /\ BodyCap \in Nat
  BY CapsAssumption DEF Body
<1> PICK kept : kept = Clean(body)
  OBVIOUS
<1>2. /\ kept.size = body.size /\ kept.keys = Sanitized(body.keys) /\ kept.text = body.text
      /\ DOMAIN kept = {"keys", "size", "text"}
  BY <1>1 DEF Clean
<1>3. Unwanted \cap Sanitized(body.keys) = {}
  BY <1>1 DEF Unwanted, Sanitized
<1>4. /\ Unwanted \cap Preview(kept).keys = {} /\ Preview(kept).size \in Nat
      /\ ~(body.text /\ body.size > BodyCap) => Preview(kept).size <= BodyCap
  BY <1>1, <1>2, <1>3 DEF Preview
<1> QED BY <1>2, <1>3, <1>4

LEMMA SerializedIsCut ==
    ASSUME NEW call \in AuditCall, ~LongAndWhole(call)
    PROVE  /\ flow = "prices" => IsCut(SerializeAuditCall(call))
           /\ flow = "document" => IsCut(SerializeSapCall(call))
<1>1. /\ call \in [ok : BOOLEAN, request : Body, answer : Body] /\ BodyCap \in Nat
      /\ call.request.size \in Nat /\ call.answer.size \in Nat
  BY CapsAssumption DEF Body
<1> PICK req, ans, snapshot : /\ req = Preview(Clean(call.request))
                                    /\ ans = Preview(Clean(call.answer))
                                    /\ snapshot = Clean(call.answer)
  OBVIOUS
<1>2. /\ req.size \in Nat /\ ans.size \in Nat /\ snapshot.size = call.answer.size
      /\ Unwanted \cap req.keys = {} /\ Unwanted \cap ans.keys = {} /\ Unwanted \cap snapshot.keys = {}
      /\ ~(call.request.text /\ call.request.size > BodyCap) => req.size <= BodyCap
      /\ ~(call.answer.text /\ call.answer.size > BodyCap) => ans.size <= BodyCap
  BY <1>1, BodiesAreCut
<1>3. ASSUME ~(flow = "prices" /\ call.ok) PROVE IsCut(SerializeSapCall(call))
  <2> PICK written : written = SerializeSapCall(call)
    OBVIOUS
  <2>1. written.request = req /\ written.answer = IF call.ok THEN ans ELSE snapshot
    BY <1>1 DEF SerializeSapCall
  <2>2. /\ ~(call.request.text /\ call.request.size > BodyCap)
        /\ ~(call.answer.text /\ call.answer.size > BodyCap)
        /\ ~call.ok => call.answer.size <= BodyCap
    BY <1>1, <1>3 DEF LongAndWhole
  <2>3. /\ written.request.size \in Nat /\ written.request.size <= BodyCap
        /\ written.answer.size \in Nat /\ written.answer.size <= BodyCap
        /\ Unwanted \cap (written.request.keys \cup written.answer.keys) = {}
    BY <1>1, <1>2, <2>1, <2>2
  <2>4. IsCut(written)
    BY <1>1, <2>3 DEF IsCut, SizeOf
  <2> QED BY <2>4
<1>4. ASSUME call.ok PROVE IsCut(SerializeAuditCall(call))
  BY <1>1, <1>4 DEF SerializeAuditCall, IsCut, SizeOf, NoBody
<1>5. ~call.ok => SerializeAuditCall(call) = SerializeSapCall(call)
  BY DEF SerializeAuditCall
<1> QED BY <1>3, <1>4, <1>5

\* Calls that are cut, and no more than the recorder holds, fit in a document beside little else.
LEMMA CutCallsFit ==
    ASSUME AuditInv, NEW n \in Nat, n <= maxCalls, NEW audit, DOMAIN audit.calls = 1 .. n,
           audit.beside = beside, beside <= BesideRoom, \A i \in 1 .. n : IsCut(audit.calls[i])
    PROVE  Storable(audit)
<1> PICK cap : cap = 2 * BodyCap
  OBVIOUS
<1>1. /\ maxCalls \in Nat /\ cap \in Nat /\ DocumentLimit \in Nat /\ BesideRoom \in Nat /\ beside \in Nat
      /\ maxCalls * cap + BesideRoom <= DocumentLimit
  <2>1. maxCalls \in RecorderCaps /\ beside \in BesideSizes
    BY DEF AuditInv
  <2>2. /\ RecorderCaps \subseteq Nat /\ BesideSizes \subseteq Nat
        /\ DocumentLimit \in Nat /\ BesideRoom \in Nat /\ BodyCap \in Nat
    BY CapsAssumption
  <2>3. maxCalls * (2 * BodyCap) + BesideRoom <= DocumentLimit
    BY <2>1, CapsAssumption
  <2> QED BY <2>1, <2>2, <2>3
<1>2. CallsSize(audit) \in Nat /\ CallsSize(audit) <= n * cap
  BY <1>1, SizesAddUp DEF IsCut
<1>3. n * cap <= maxCalls * cap /\ n * cap \in Nat /\ maxCalls * cap \in Nat
  BY <1>1
<1>4. CallsSize(audit) + audit.beside <= DocumentLimit
  BY <1>1, <1>2, <1>3
<1>5. \A call \in ToSet(audit.calls) : Unwanted \cap (call.request.keys \cup call.answer.keys) = {}
  BY DEF ToSet, IsCut
<1> QED BY <1>4, <1>5 DEF Storable

LEMMA AuditsStart == ASSUME AuditInit PROVE AuditInv
<1>1. recorder = [calls |-> <<>>, dropped |-> 0] /\ maxCalls \in Nat /\ stored.status = "working" /\ made = <<>>
  BY CapsAssumption DEF AuditInit
<1>2. recorder.calls \in Seq(AuditCall) /\ Len(recorder.calls) = 0 /\ DOMAIN recorder = {"calls", "dropped"}
        /\ recorder.dropped = 0 /\ made \in Seq(AuditCall) /\ Len(made) = 0
  BY <1>1
<1> QED BY <1>1, <1>2 DEF AuditInit, AuditInv, LostToWhatIsWhole, IsWritten, CallsAddUp

LEMMA AuditsGoOn == ASSUME AuditInv, [AuditNext]_auditVars PROVE AuditInv'
<1>1. ASSUME NEW call \in AuditCall, Answer(call) PROVE AuditInv'
  <2>1. /\ Recorded(call).calls \in Seq(AuditCall) /\ Len(Recorded(call).calls) <= maxCalls
        /\ DOMAIN Recorded(call) = {"calls", "dropped"} /\ Recorded(call).dropped \in Nat
        /\ Len(Recorded(call).calls) + Recorded(call).dropped = Len(recorder.calls) + recorder.dropped + 1
    <3>1. maxCalls \in Nat
      BY CapsAssumption DEF AuditInv
    <3>2. PICK longer : longer = Append(recorder.calls, call)
      OBVIOUS
    <3>3. longer \in Seq(AuditCall) /\ Len(longer) = Len(recorder.calls) + 1 /\ Len(recorder.calls) \in Nat
      BY <1>1, <3>2 DEF AuditInv
    <3> QED BY <3>1, <3>2, <3>3 DEF AuditInv, Recorded
  <2>2. made' \in Seq(AuditCall) /\ Len(made') = Len(made) + 1 /\ Len(made) \in Nat
    BY <1>1 DEF Answer, AuditInv
  <2>3. /\ recorder' = IF flow = "run" THEN recorder ELSE Recorded(call)
        /\ outcome = "working" /\ UNCHANGED <<flow, maxCalls, beside, stored>>
    BY <1>1 DEF Answer
  <2>4. ~IsWritten /\ ~IsWritten'
    BY <2>3 DEF AuditInv, IsWritten
  <2>5. flow # "run" => Len(recorder'.calls) + recorder'.dropped = Len(made')
    <3>1. Len(recorder.calls) \in Nat
      BY DEF AuditInv
    <3> QED BY <2>1, <2>2, <2>3, <3>1 DEF AuditInv
  <2>6. /\ recorder'.calls \in Seq(AuditCall) /\ Len(recorder'.calls) <= maxCalls
        /\ DOMAIN recorder' = {"calls", "dropped"} /\ recorder'.dropped \in Nat
    BY <2>1, <2>3 DEF AuditInv
  <2> QED BY <2>2, <2>3, <2>4, <2>5, <2>6 DEF AuditInv, LostToWhatIsWhole, CallsAddUp
<1>2. CASE AuditEnds
  BY <1>2 DEF AuditEnds, AuditInv, LostToWhatIsWhole, CallsAddUp, IsWritten
<1>3. CASE Write
  <2>0. PICK short : /\ short \in BOOLEAN
                     /\ short <=> beside <= BesideRoom
                                   /\ \A i \in DOMAIN recorder.calls : ~LongAndWhole(recorder.calls[i])
    OBVIOUS
  <2>1. maxCalls \in Nat /\ AuditCap \in Nat /\ DOMAIN recorder.calls = 1 .. Len(recorder.calls)
        /\ Len(recorder.calls) \in Nat /\ \A i \in 1 .. Len(recorder.calls) : recorder.calls[i] \in AuditCall
    BY CapsAssumption DEF AuditInv
  <2>2. SapAudit.written /\ (flow = "document" /\ short => Storable(SapAudit))
    <3> PICK audit : audit = SapAudit
      OBVIOUS
    <3>1. /\ audit.calls = [i \in DOMAIN recorder.calls |-> SerializeSapCall(recorder.calls[i])]
          /\ audit.written /\ audit.beside = beside
      BY DEF SapAudit, NoAudit
    <3>2. ASSUME flow = "document", short PROVE Storable(audit)
      <4>1. \A i \in 1 .. Len(recorder.calls) : IsCut(audit.calls[i])
        BY <2>0, <2>1, <3>1, <3>2, SerializedIsCut
      <4>2. DOMAIN audit.calls = 1 .. Len(recorder.calls) /\ Len(recorder.calls) <= maxCalls
        BY <2>1, <3>1 DEF AuditInv
      <4> QED BY <2>0, <2>1, <3>1, <3>2, <4>1, <4>2, CutCallsFit
    <3> QED BY <3>1, <3>2
  <2>3. /\ PriceAudit.written /\ (flow = "prices" /\ short => Storable(PriceAudit))
        /\ Len(PriceAudit.calls) + PriceAudit.dropped = Len(recorder.calls) + recorder.dropped
    <3> PICK audit : audit = PriceAudit
      OBVIOUS
    <3> PICK n : n = IF Len(recorder.calls) > AuditCap THEN AuditCap ELSE Len(recorder.calls)
      OBVIOUS
    <3> PICK kept : kept = SubSeq(recorder.calls, 1, n)
      OBVIOUS
    <3>1. n \in Nat /\ n <= maxCalls /\ n <= Len(recorder.calls)
      BY <2>1 DEF AuditInv
    <3>2. DOMAIN kept = 1 .. n /\ \A i \in 1 .. n : kept[i] = recorder.calls[i]
      BY <2>1, <3>1, SubSeqProperties DEF AuditInv
    <3>3. /\ audit.calls = [i \in DOMAIN kept |-> SerializeAuditCall(kept[i])]
          /\ audit.written /\ audit.beside = beside
      BY DEF PriceAudit, NoAudit
    <3>4. DOMAIN audit.calls = 1 .. n
      BY <3>2, <3>3
    <3>5. ASSUME flow = "prices", short PROVE Storable(audit)
      <4>1. \A i \in 1 .. n : kept[i] \in AuditCall /\ ~LongAndWhole(kept[i])
        BY <2>0, <2>1, <3>1, <3>2, <3>5
      <4>2. \A i \in 1 .. n : IsCut(audit.calls[i])
        BY <3>2, <3>3, <3>5, <4>1, SerializedIsCut
      <4> QED BY <2>0, <3>1, <3>3, <3>4, <3>5, <4>2, CutCallsFit
    <3>6. Len(audit.calls) = n
      BY <3>1, <3>3, <3>4
    <3>7. audit.dropped = DroppedCalls(recorder.calls, recorder.dropped)
      BY DEF PriceAudit, NoAudit
    <3>8. n + DroppedCalls(recorder.calls, recorder.dropped) = Len(recorder.calls) + recorder.dropped
      BY <2>1 DEF DroppedCalls, AuditInv
    <3> QED BY <3>3, <3>5, <3>6, <3>7, <3>8
  <2>4. outcome # "working" /\ UNCHANGED <<flow, maxCalls, beside, made, recorder, outcome>>
    BY <1>3 DEF Write
  <2>5. flow # "run" /\ ~stored'.audit.written => ~short
    <3>1. ASSUME flow = "document", short PROVE stored'.audit.written
      <4>1. stored' = Written(SapAudit)
        BY <1>3, <3>1 DEF Write
      <4> QED BY <2>2, <3>1, <4>1 DEF Written
    <3>2. ASSUME flow = "prices", short PROVE stored'.audit.written
      <4>1. stored' = Written(PriceAudit)
        BY <1>3, <3>2 DEF Write
      <4> QED BY <2>3, <3>2, <4>1 DEF Written
    <3> QED BY <3>1, <3>2 DEF AuditInv
  <2>6. LostToWhatIsWhole'
    <3> SUFFICES ASSUME flow # "run", ~stored'.audit.written
                 PROVE  beside > BesideRoom \/ \E i \in DOMAIN recorder.calls : LongAndWhole(recorder.calls[i])
      BY <2>4 DEF LostToWhatIsWhole, LongAndWhole
    <3>1. beside \in Nat /\ BesideRoom \in Nat
      BY CapsAssumption DEF AuditInv
    <3> QED BY <2>0, <2>5, <3>1
  <2>7. flow = "prices" /\ stored'.audit.written => Len(stored'.audit.calls) + stored'.audit.dropped = Len(made)
    <3>1. ASSUME flow = "prices", stored'.audit.written PROVE stored'.audit = PriceAudit
      <4>1. stored' = Written(PriceAudit)
        BY <1>3, <3>1 DEF Write
      <4>2. ~NoAudit.written
        BY DEF NoAudit
      <4> QED BY <3>1, <4>1, <4>2 DEF Written
    <3> QED BY <2>3, <3>1 DEF AuditInv
  <2>8. CallsAddUp'
    BY <2>4, <2>7 DEF CallsAddUp
  <2> QED BY <2>4, <2>6, <2>8 DEF AuditInv
<1>4. CASE UNCHANGED auditVars
  BY <1>4 DEF auditVars, AuditInv, LostToWhatIsWhole, LongAndWhole, CallsAddUp, IsWritten
<1> QED BY <1>1, <1>2, <1>3, <1>4 DEF AuditNext


LEMMA AuditInvariant == AuditSpec => []AuditInv
  BY AuditsStart, AuditsGoOn, PTL DEF AuditSpec

\* LostToWhatIsWhole: MongoDB refuses the audit of an event for no key and no object of its
\* calls, only for the texts and errors truncateAuditBody leaves whole or for what goes beside
\* the calls (sanitizeAuditKeys, truncateAuditBody, MAX_AUDIT_CALLS).
THEOREM AuditsAreLostToWhatIsWhole == AuditSpec => []LostToWhatIsWhole
<1>1. AuditInv => LostToWhatIsWhole
  BY DEF AuditInv
<1> QED BY <1>1, AuditInvariant, PTL

\* CallsAddUp: the calls a stored audit of prices shows and those it says it dropped are all
\* the calls of the event, with both caps in the way (MAX_AUDIT_CALLS, maxCalls).
THEOREM CallsAreAccounted == AuditSpec => []CallsAddUp
<1>1. AuditInv => CallsAddUp
  BY DEF AuditInv
<1> QED BY <1>1, AuditInvariant, PTL
================================================================================
