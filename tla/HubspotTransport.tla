--------------------------- MODULE HubspotTransport ---------------------------
(* The one way to HubSpot: every call takes a slot of its policy's bucket      *)
(* (hubspotRateLimiter.js) and is sent, and sent again, by sendWithRateLimit   *)
(* (hubspotTransport.js). The module has one bucket. Time is counted in        *)
(* intervals of the bucket and every instant relative to now: a slot of -2 is  *)
(* two intervals old.                                                          *)
EXTENDS Integers, FiniteSets, FiniteSetsExt, Functions

CONSTANTS
    Call,
    Burst,          \* slots an idle bucket has saved
    Retries,        \* attempts after the first
    RetryAfter,     \* intervals a 429 may ask for
    Late,           \* intervals a timer may fire late
    Window          \* intervals the sends are remembered for

ASSUME BucketAssumption ==
    /\ Burst \in Nat \ {0}
    /\ Retries \in Nat
    /\ RetryAfter \subseteq Nat
    /\ Late \in Nat
    /\ Window \in Nat \ {0}

VARIABLES
    nextSlot,       \* nextSlotAt - now
    pause,          \* pausedUntil - now, 0 when it is over
    pc,
    kind,
    wait,           \* what is left of a caller's timer, negative when it is late
    attempt,
    answer,
    applied,        \* ghost: how often HubSpot has applied the call's write
    sent,           \* ghost: sent[a] calls went out a intervals ago
    parked          \* ghost: intervals the pause a caller asked in still lasts

bucket == <<nextSlot, pause>>
vars == <<bucket, pc, kind, wait, attempt, answer, applied, sent, parked>>

\* "create": a POST that creates; "replay": every other request.
Kind == {"create", "replay"}
Waiting == {"paused", "slotted", "backoff"}
Floor == -(Burst - 1)

\* Slots older than this are not told apart: it stands for -Infinity too.
Oldest == Floor - Window - 2

Init ==
    /\ nextSlot = Oldest
    /\ pause = 0
    /\ pc = [c \in Call |-> "ask"]
    /\ kind \in [Call -> Kind]
    /\ wait = [c \in Call |-> 0]
    /\ attempt = [c \in Call |-> 0]
    /\ answer = [c \in Call |-> "none"]
    /\ applied = [c \in Call |-> 0]
    /\ sent = [a \in 0..Window |-> 0]
    /\ parked = [c \in Call |-> 0]

Sleep(c, label, t) ==
    /\ pc' = [pc EXCEPT ![c] = label]
    /\ wait' = [wait EXCEPT ![c] = t]

Send(c) ==
    /\ pc' = [pc EXCEPT ![c] = "flight"]
    /\ wait' = [wait EXCEPT ![c] = 0]
    /\ sent' = [sent EXCEPT ![0] = @ + 1]
-----------------------------------------------------------------------------
(* PolicyBucket                                                              *)

UnboundedSlot == nextSlot

\* Idle time earns slots, Burst of them at most.
FreeSlot == IF nextSlot < Floor THEN Floor ELSE nextSlot

FreeForever(slot) == slot

\* The next slot is reserved before anything is awaited.
SlotAfter(slot) == slot + 1

TakeSlot(c) ==
    LET slot == FreeSlot
    IN  /\ nextSlot' = SlotAfter(slot)
        /\ \/ /\ slot > 0
              /\ Sleep(c, "slotted", slot)
              /\ UNCHANGED sent
           \/ /\ slot <= 0
              /\ Send(c)

NeverPaused == FALSE

Paused == pause > 0

Acquire(c) ==
    /\ pc[c] = "ask"
    /\ IF Paused
       THEN /\ Sleep(c, "paused", pause)
            /\ UNCHANGED <<nextSlot, sent>>
       ELSE TakeSlot(c)
    /\ parked' = [parked EXCEPT ![c] = pause]
    /\ UNCHANGED <<pause, kind, attempt, answer, applied>>

\* The timer of the pause: the bucket is not asked again whether it is paused.
PauseOver(c) ==
    /\ pc[c] = "paused"
    /\ wait[c] <= 0
    /\ TakeSlot(c)
    /\ UNCHANGED <<pause, kind, attempt, answer, applied, parked>>

SlotDue(c) ==
    /\ pc[c] = "slotted"
    /\ wait[c] <= 0
    /\ Send(c)
    /\ UNCHANGED <<bucket, kind, attempt, answer, applied, parked>>

PauseFor(t) == pause' = Max({pause, t})
-----------------------------------------------------------------------------
(* sendWithRateLimit                                                         *)

Apply(c) == applied' = [applied EXCEPT ![c] = @ + 1]

Finish(c, result) ==
    /\ pc' = [pc EXCEPT ![c] = "done"]
    /\ answer' = [answer EXCEPT ![c] = result]
    /\ UNCHANGED <<wait, attempt>>

Ask(c) == pc' = [pc EXCEPT ![c] = "ask"] /\ UNCHANGED wait

\* backoffMs, for a bucket of four slots a second: 250 ms is an interval.
Backoff(n) == 2^(n - 1) .. 2^n

AlwaysAgain(c) == TRUE

AttemptLeft(c) == attempt[c] < Retries

NextAttempt(c) ==
    /\ attempt' = [attempt EXCEPT ![c] = @ + 1]
    /\ UNCHANGED answer

Ok(c) ==
    /\ pc[c] = "flight"
    /\ Apply(c)
    /\ Finish(c, "ok")
    /\ UNCHANGED <<bucket, kind, sent, parked>>

\* A 429 has had no effect: it is repeated whatever the request is.
Limited(c) ==
    /\ pc[c] = "flight"
    /\ \E t \in RetryAfter \cup {-1} :
          /\ IF t >= 0 THEN PauseFor(t) ELSE UNCHANGED pause
          /\ \/ /\ AttemptLeft(c)
                /\ NextAttempt(c)
                /\ \/ t >= 0 /\ Ask(c)
                   \/ t < 0 /\ \E d \in Backoff(attempt[c] + 1) : Sleep(c, "backoff", d)
             \/ /\ ~AttemptLeft(c)
                /\ Finish(c, "error")
    /\ UNCHANGED <<nextSlot, kind, applied, sent, parked>>

EverythingReplayable(c) == TRUE

Replayable(c) == kind[c] = "replay"

PlainError(c) == "error"

UnknownOutcome(c) == IF Replayable(c) THEN "error" ELSE "unknown"

\* A 5xx or no answer at all: HubSpot may or may not have applied the request.
Unanswered(c) ==
    /\ pc[c] = "flight"
    /\ (Apply(c) \/ UNCHANGED applied)
    /\ \/ /\ Replayable(c) /\ AttemptLeft(c)
          /\ NextAttempt(c)
          /\ \E d \in Backoff(attempt[c] + 1) : Sleep(c, "backoff", d)
       \/ /\ ~(Replayable(c) /\ AttemptLeft(c))
          /\ Finish(c, UnknownOutcome(c))
    /\ UNCHANGED <<bucket, kind, sent, parked>>

\* Any other status: HubSpot refused the request.
Refused(c) ==
    /\ pc[c] = "flight"
    /\ Finish(c, "error")
    /\ UNCHANGED <<bucket, kind, applied, sent, parked>>

BackedOff(c) ==
    /\ pc[c] = "backoff"
    /\ wait[c] <= 0
    /\ Ask(c)
    /\ UNCHANGED <<bucket, kind, attempt, answer, applied, sent, parked>>
-----------------------------------------------------------------------------
(* Time passes one interval; no timer is more than Late behind.              *)

Earlier(t) == IF t > 0 THEN t - 1 ELSE 0

Tick ==
    /\ \E c \in Call : pc[c] # "done"
    /\ \A c \in Call : pc[c] \in Waiting => wait[c] > -Late
    /\ nextSlot' = Max({nextSlot - 1, Oldest})
    /\ pause' = Earlier(pause)
    /\ wait' = [c \in Call |-> IF pc[c] \in Waiting THEN wait[c] - 1 ELSE wait[c]]
    /\ sent' = [a \in 0..Window |-> IF a = 0 THEN 0 ELSE sent[a - 1]]
    /\ parked' = [c \in Call |-> Earlier(parked[c])]
    /\ UNCHANGED <<pc, kind, attempt, answer, applied>>

Step(c) ==
    \/ Acquire(c) \/ PauseOver(c) \/ SlotDue(c)
    \/ Ok(c) \/ Limited(c) \/ Unanswered(c) \/ Refused(c) \/ BackedOff(c)

\* Every call has ended: the only state without a successor of its own.
Idle == (\A c \in Call : pc[c] = "done") /\ UNCHANGED vars

Next == (\E c \in Call : Step(c)) \/ Tick \/ Idle

Spec == Init /\ [][Next]_vars
-----------------------------------------------------------------------------
(* Properties                                                                *)

\* Types of the state; no call is tried more often than its retries allow, and
\* the bucket never owes more slots than there are calls.
TypeOK ==
    /\ nextSlot \in Oldest..Cardinality(Call) + Max(RetryAfter \cup {0})
    /\ pause \in 0..Max(RetryAfter \cup {0})
    /\ pc \in [Call -> {"ask", "flight", "done"} \cup Waiting]
    /\ kind \in [Call -> Kind]
    /\ \A c \in Call : wait[c] \in Int /\ wait[c] >= -Late
    /\ attempt \in [Call -> 0..Retries]
    /\ answer \in [Call -> {"none", "ok", "error", "unknown"}]
    /\ applied \in [Call -> 0..Retries + 1]

\* In any stretch of n intervals the bucket lets at most Burst + n calls out,
\* and as many more as timers may have fired late: an idle bucket releases its
\* savings once, and no two callers are handed the same slot (acquire).
SendsBounded ==
    \A n \in 0..Window :
        SumFunctionOnSet(sent, 0..n) <= Burst + n + Late

\* A call that asks while the bucket is paused is not sent before that pause,
\* as long as it was when the call asked, is over (acquire, pauseFor).
PausedCallersWait ==
    \A c \in Call : pc[c] = "flight" => parked[c] = 0

\* What a create's caller is told is true: it is applied once after "ok", not at
\* all after "error", and never twice; only "unknown" leaves it open (the
\* callers reconcile on outcomeUnknown and on nothing else).
CreateToldTrue ==
    \A c \in Call : kind[c] = "create" =>
        /\ applied[c] <= 1
        /\ answer[c] = "ok" => applied[c] = 1
        /\ answer[c] = "error" => applied[c] = 0

\* What the comment of pauseFor says of the calls already under way: a 429
\* stops them from being sent. A caller that has its slot is not stopped.
NothingSentInPause ==
    [][\A c \in Call : (pc[c] # "flight" /\ pc'[c] = "flight") => pause = 0]_vars
=============================================================================
