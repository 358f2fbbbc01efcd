---------------------------- MODULE SupportTicket ----------------------------
(* One support ticket of the panel and the requests that work on it: client   *)
(* and staff replies with an image, changes of status, resolution, the work   *)
(* log of StaffWorkLog.js with its Idempotency-Keys, and views.               *)
(*                                                                            *)
(* A request reads the ticket, decides on what it read, and writes under a     *)
(* compare-and-set on the status alone (ticketCommon.js). Requests overlap;    *)
(* calls fail and processes die between any two calls.                        *)
EXTENDS Naturals, Sequences

CONSTANTS
    Request,        \* requests, each made once; also stands for its message, image, entry
    Ops,            \* the operations a request may ask for (subset of Op)
    Key,            \* Idempotency-Keys of one owner
    NoKey,
    Nobody,         \* no request
    Stale,          \* PENDING_STALE_MS
    KeyTTL,         \* KEY_TTL_MS
    MaxTime,        \* bound of the clock
    MaxFaults,      \* bound of failing calls and deaths
    UnackedWrites   \* a write that is reported as failed may have been applied

VARIABLES
    ticket,         \* the document, see Ticket
    images,         \* requests whose image is in GridFS
    keys,           \* PanelIdempotencyKeys
    now,            \* clock of the requests
    pc,             \* where a request is
    op,             \* what it asks for
    at,             \* its time
    snap,           \* what it decided on: the status and work log as it read them
    tries,          \* writes it has lost
    answer,         \* its answer
    entry,          \* the work log entry its answer names
    dirty,          \* ghost: requests that took their time before a write of another
    raced,          \* ghost: such a request has written
    shown,          \* ghost: messages a side has been shown
    leaked,         \* ghost: images whose removal failed, or whose process died
    faults

requestVars == <<pc, op, at, snap, tries, answer, entry>>
ghosts == <<dirty, raced, shown, leaked>>
vars == <<ticket, images, keys, now, requestVars, ghosts, faults>>

Side == {"cliente", "smarteam"}
Status == {"abierto", "en_progreso", "esperando_cliente", "resuelto"}
Refused == "refused"

Kind == {"create", "clientReply", "reopen", "staffReply", "setStatus",
         "resolve", "note", "publish", "view"}

\* arg: the target of setStatus, the side of a view, the body of a publication.
Op == [kind : Kind, arg : Status \union Side \union {"work", "final", "none"},
       image : BOOLEAN, key : Key \union {NoKey}]

ASSUME OpsAssumption == Ops \subseteq Op /\ NoKey \notin Key

NoOp == [kind |-> "view", arg |-> "none", image |-> FALSE, key |-> NoKey]

SideOf(o) ==
    CASE o.kind \in {"create", "clientReply", "reopen"} -> "cliente"
      [] o.kind = "view" -> o.arg
      [] OTHER -> "smarteam"

Resolves(o) == o.kind = "resolve" \/ (o.kind = "publish" /\ o.arg = "final")
Speaks(o) == o.kind \notin {"setStatus", "note", "view"}
StaffSpeaks(o) == Speaks(o) /\ SideOf(o) = "smarteam"
-----------------------------------------------------------------------------
(* tickets.js: the status a request leaves, or Refused.                      *)

statusAfterClientMessage(s) ==
    CASE s = "resuelto" -> Refused
      [] s = "esperando_cliente" -> "en_progreso"
      [] OTHER -> s

statusAfterStaffMessage(s) ==
    CASE s = "resuelto" -> Refused
      [] s = "abierto" -> "en_progreso"
      [] OTHER -> s

canStaffSetStatus(s, to) ==
    <<s, to>> \in {<<"abierto", "en_progreso">>, <<"en_progreso", "esperando_cliente">>,
                   <<"resuelto", "en_progreso">>}

canResolve(s) == s # "resuelto"

UnknownStatus(s) == IF s = "resuelto" THEN "reabierto" ELSE Refused

statusAfterReopen(s) == IF s = "resuelto" THEN "abierto" ELSE Refused

NextStatus(o, s) ==
    CASE o.kind = "clientReply" -> statusAfterClientMessage(s)
      [] o.kind = "reopen" -> statusAfterReopen(s)
      [] o.kind = "setStatus" -> IF canStaffSetStatus(s, o.arg) THEN o.arg ELSE Refused
      [] Resolves(o) -> IF canResolve(s) THEN "resuelto" ELSE Refused
      [] StaffSpeaks(o) /\ ~Resolves(o) -> statusAfterStaffMessage(s)
      [] OTHER -> s

NewsOfSpoken(t, side) == t.author # side /\ t.activity > t.seen[t.author]

\* hasNewsFor: the other side spoke last, after this side's last view.
hasNewsFor(t, side) ==
    /\ t.author # side
    /\ t.activity > t.seen[side]
-----------------------------------------------------------------------------
(* The document.                                                             *)

NoTicket ==
    [status |-> "absent", history |-> <<>>, messages |-> <<>>, log |-> {},
     firstResponse |-> 0, note |-> Nobody, reopened |-> 0,
     activity |-> 0, author |-> "cliente", seen |-> [s \in Side |-> 0]]

Exists == ticket.status # "absent"

\* ClientTickets.create and MongooseTicketRepository.create.
Created(r) ==
    [NoTicket EXCEPT !.status = "abierto",
                     !.history = <<[from |-> "absent", to |-> "abierto", by |-> "cliente"]>>,
                     !.messages = <<r>>,
                     !.activity = at[r],
                     !.seen["cliente"] = at[r]]

\* The changes of a ticket by r, each of which r has built on the status `from`
\* that it read ($set, $inc and $push of one update).
Moved(t, from, to, side) ==
    [t EXCEPT !.status = to,
              !.history = IF to = from THEN @
                          ELSE Append(@, [from |-> from, to |-> to, by |-> side])]

Said(t, r, side) ==
    [t EXCEPT !.messages = Append(@, r), !.author = side,
              !.activity = at[r], !.seen[side] = at[r]]

clientReply(r, from) ==
    Said(Moved(ticket, from, statusAfterClientMessage(from), "cliente"), r, "cliente")

reopen(r, from) ==
    [Said(Moved(ticket, from, statusAfterReopen(from), "cliente"), r, "cliente")
        EXCEPT !.reopened = @ + 1]

staffReply(r, from) ==
    Said(Moved(ticket, from, statusAfterStaffMessage(from), "smarteam"), r, "smarteam")

setStatus(r, from) ==
    [Moved(ticket, from, op[r].arg, "smarteam") EXCEPT !.activity = at[r]]

resolve(r, from) ==
    [Said(Moved(ticket, from, "resuelto", "smarteam"), r, "smarteam") EXCEPT !.note = r]

setInternalResolution(r) == [ticket EXCEPT !.note = r]

\* StaffWorkLog's plan: a reply or a resolution, with its work log entry.
plan(r, from) ==
    [(IF Resolves(op[r]) THEN resolve(r, from) ELSE staffReply(r, from))
        EXCEPT !.log = @ \union {r}]

Changed(r) ==
    LET from == snap[r].status IN
    CASE op[r].kind = "create" -> Created(r)
      [] op[r].kind = "clientReply" -> clientReply(r, from)
      [] op[r].kind = "reopen" -> reopen(r, from)
      [] op[r].kind = "staffReply" -> staffReply(r, from)
      [] op[r].kind = "setStatus" -> setStatus(r, from)
      [] op[r].kind = "resolve" -> resolve(r, from)
      [] op[r].kind = "note" -> setInternalResolution(r)
      [] op[r].kind = "publish" -> plan(r, from)

Keyed(o) == o.kind = "publish" /\ o.key # NoKey

\* Entries under the key of r in a work log.
Under(r, log) == {q \in log : op[q].key = op[r].key}

LostUpdate(r) == TRUE
NoGuard(r) == TRUE

\* MongooseTicketRepository.update writes if the status is the one r read and
\* no entry carries the key r publishes under.
SameStatus(r) == ticket.status = snap[r].status
Unpublished(r) == Keyed(op[r]) => Under(r, ticket.log) = {}
Writable(r) == SameStatus(r) /\ Unpublished(r)
-----------------------------------------------------------------------------
(* Steps shared by all requests.                                             *)

\* Has taken its time, has not written the ticket.
Deciding == {"find", "reserve", "takeOver", "load", "store", "write", "reload", "seen"}

Goto(r, place) == pc' = [pc EXCEPT ![r] = place]
Reply(r, a) == answer' = [answer EXCEPT ![r] = a]
Fault == faults < MaxFaults /\ faults' = faults + 1

KeepTicket == UNCHANGED <<ticket, dirty, raced, shown>>

\* What r reads of the ticket, and where its checks send it.
Reads(r) ==
    /\ snap' = [snap EXCEPT ![r] = [status |-> ticket.status, log |-> ticket.log,
                                    count |-> Len(ticket.messages)]]
    /\ UNCHANGED <<dirty, raced, shown>>

\* The ghosts of a write of the ticket by r.
Wrote(r) ==
    /\ dirty' = dirty \union {q \in Request \ {r} : pc[q] \in Deciding}
    /\ raced' = (raced \/ r \in dirty)

\* Every other operation reads the ticket first and then takes its time.
Begin(r, o) ==
    /\ pc[r] = "idle" /\ ~Keyed(o) /\ now < MaxTime
    /\ o.kind = "create" => ~Exists /\ \A q \in Request : op[q].kind # "create"
    /\ now' = now + 1
    /\ at' = [at EXCEPT ![r] = now + 1]
    /\ op' = [op EXCEPT ![r] = o]
    /\ Reads(r)
    /\ LET place == CASE o.kind = "view" -> "seen"
                      [] o.kind # "view" /\ o.image -> "store"
                      [] OTHER -> "write"
       IN IF o.kind # "create" /\ ~Exists
          THEN Reply(r, "not_found") /\ Goto(r, "done")
          ELSE IF NextStatus(o, ticket.status) = Refused
          THEN Reply(r, "invalid_transition") /\ Goto(r, "done")
          ELSE Goto(r, place) /\ UNCHANGED answer
    /\ UNCHANGED <<ticket, images, keys, tries, entry, leaked, faults>>

\* GridFsTicketAttachmentStore.put, and storeImages when it throws.
StoreImage(r) ==
    /\ pc[r] = "store"
    /\ images' = images \union {r}
    /\ Goto(r, "write")
    /\ KeepTicket
    /\ UNCHANGED <<keys, now, op, at, snap, tries, answer, entry, leaked, faults>>

StoreFails(r) ==
    /\ pc[r] = "store" /\ Fault
    /\ images' \in {images, images \union {r}}
    /\ Reply(r, "error") /\ Goto(r, "discard")
    /\ KeepTicket
    /\ UNCHANGED <<keys, now, op, at, snap, tries, entry, leaked>>

\* setIfNull follows the main write of the first staff message.
AfterWrite(o) ==
    IF StaffSpeaks(o) THEN "firstResponse" ELSE "done"

KeepsImage(o) == IF Keyed(o) THEN "release" ELSE "done"

AfterFailure(o) ==
    CASE Keyed(o) -> "release"
      [] ~Keyed(o) /\ o.image -> "discard"
      [] OTHER -> "done"

Applied(r) ==
    /\ ticket' = Changed(r)
    /\ Wrote(r)
    /\ shown' = IF op[r].kind = "publish" THEN shown
                ELSE [shown EXCEPT ![SideOf(op[r])] = Len(ticket'.messages)]

\* The write goes through.
WriteTicket(r) ==
    /\ pc[r] = "write" /\ Writable(r)
    /\ Applied(r)
    /\ entry' = [entry EXCEPT ![r] = IF op[r].kind = "publish" THEN r ELSE @]
    /\ Reply(r, IF op[r].kind = "publish" THEN "created" ELSE "ok")
    /\ Goto(r, AfterWrite(op[r]))
    /\ UNCHANGED <<images, keys, now, op, at, snap, tries, leaked, faults>>

\* setInternalResolution and StaffWorkLog.publish read again and try once more.
Retries(o) == o.kind \in {"note", "publish"}

\* The compare-and-set does not match.
LoseWrite(r) ==
    /\ pc[r] = "write" /\ ~Writable(r)
    /\ tries' = [tries EXCEPT ![r] = @ + 1]
    /\ IF Retries(op[r])
       THEN Goto(r, "reload") /\ UNCHANGED answer
       ELSE Reply(r, "invalid_transition") /\ Goto(r, AfterFailure(op[r]))
    /\ KeepTicket
    /\ UNCHANGED <<images, keys, now, op, at, snap, entry, leaked, faults>>

\* The write throws: applyTicketChange, create and publish clean up after it.
WriteThrows(r) ==
    /\ pc[r] = "write" /\ Fault
    /\ \/ KeepTicket
       \/ UnackedWrites /\ Writable(r) /\ Applied(r)
    /\ Reply(r, "error") /\ Goto(r, AfterFailure(op[r]))
    /\ UNCHANGED <<images, keys, now, op, at, snap, tries, entry, leaked>>

\* As a failure of setIfNull would, if it were thrown to the caller.
FailsAfterFirstResponse(o) == IF Keyed(o) THEN "release" ELSE IF o.image THEN "discard" ELSE "done"

AfterFirstResponse(o) == IF Keyed(o) THEN "complete" ELSE "done"

Always(old, new) == new
IfNull(old, new) == IF old = 0 THEN new ELSE old

SetFirstResponse(r) ==
    /\ pc[r] = "firstResponse"
    /\ ticket' = [ticket EXCEPT !.firstResponse = IfNull(@, at[r])]
    /\ Goto(r, AfterFirstResponse(op[r]))
    /\ UNCHANGED <<images, keys, now, op, at, snap, tries, answer, entry, ghosts, faults>>

\* The main write is saved: a failure here does not reach the caller.
FirstResponseFails(r) ==
    /\ pc[r] = "firstResponse" /\ Fault
    /\ Goto(r, AfterFirstResponse(op[r]))
    /\ KeepTicket
    /\ UNCHANGED <<images, keys, now, op, at, snap, tries, answer, entry, leaked>>

\* removeImages never throws.
Discard(r) ==
    /\ pc[r] = "discard"
    /\ Goto(r, "done")
    /\ KeepTicket
    /\ \/ images' = images \ {r} /\ UNCHANGED <<leaked, faults>>
       \/ Fault /\ leaked' = leaked \union {r} /\ UNCHANGED images
    /\ UNCHANGED <<keys, now, op, at, snap, tries, answer, entry>>

\* markSeen: $max, so that a view that arrives late does not set it back.
MarkSeen(r) ==
    LET side == SideOf(op[r]) IN
    /\ pc[r] = "seen"
    /\ ticket' = [ticket EXCEPT !.seen[side] = IF at[r] > @ THEN at[r] ELSE @]
    /\ Wrote(r)
    /\ shown' = [shown EXCEPT ![side] = IF snap[r].count > @ THEN snap[r].count ELSE @]
    /\ Reply(r, "ok") /\ Goto(r, "done")
    /\ UNCHANGED <<images, keys, now, op, at, snap, tries, entry, leaked, faults>>

SeenFails(r) ==
    /\ pc[r] = "seen" /\ Fault
    /\ Reply(r, "error") /\ Goto(r, "done")
    /\ KeepTicket
    /\ UNCHANGED <<images, keys, now, op, at, snap, tries, entry, leaked>>
-----------------------------------------------------------------------------
(* StaffWorkLog.publish under an Idempotency-Key.                            *)

NoRecord == [state |-> "absent", body |-> "none", createdAt |-> 0, expiresAt |-> 0,
             entry |-> Nobody]

Record(r) == keys[op[r].key]
SetRecord(r, record) == keys' = [keys EXCEPT ![op[r].key] = record]

BeginPublish(r, o) ==
    /\ pc[r] = "idle" /\ Keyed(o) /\ now < MaxTime
    /\ now' = now + 1
    /\ at' = [at EXCEPT ![r] = now + 1]
    /\ op' = [op EXCEPT ![r] = o]
    /\ Goto(r, "find")
    /\ UNCHANGED <<ticket, images, keys, snap, tries, answer, entry, ghosts, faults>>

Expired(record, time) == record.expiresAt <= time
IsFresh(record, time) == time - record.createdAt < Stale

\* #claim: find, and what it means.
FindKey(r) ==
    LET record == Record(r) IN
    /\ pc[r] = "find"
    /\ IF record.state = "absent" \/ Expired(record, at[r])
       THEN Goto(r, "reserve") /\ UNCHANGED answer
       ELSE IF record.body # op[r].arg
       THEN Reply(r, "key_reused") /\ Goto(r, "done")
       ELSE IF record.state = "done"
       THEN Goto(r, "replay") /\ UNCHANGED answer
       ELSE IF IsFresh(record, at[r])
       THEN Reply(r, "in_progress") /\ Goto(r, "done")
       ELSE Goto(r, "takeOver") /\ UNCHANGED answer
    /\ entry' = [entry EXCEPT ![r] = IF pc'[r] = "replay" THEN record.entry ELSE @]
    /\ UNCHANGED <<ticket, images, keys, now, op, at, snap, tries, ghosts, faults>>

\* reserve: an insert under the unique index; the second collision gives up.
Reserve(r) ==
    /\ pc[r] = "reserve"
    /\ IF Record(r).state = "absent"
       THEN /\ SetRecord(r, [state |-> "pending", body |-> op[r].arg, createdAt |-> at[r],
                             expiresAt |-> at[r] + KeyTTL, entry |-> Nobody])
            /\ Goto(r, "load")
            /\ UNCHANGED <<tries, answer>>
       ELSE /\ IF tries[r] = 0
               THEN Goto(r, "find") /\ tries' = [tries EXCEPT ![r] = 1] /\ UNCHANGED answer
               ELSE Goto(r, "done") /\ Reply(r, "in_progress") /\ UNCHANGED tries
            /\ UNCHANGED keys
    /\ UNCHANGED <<ticket, images, now, op, at, snap, entry, ghosts, faults>>

TakeOver(r) ==
    LET record == Record(r) IN
    /\ pc[r] = "takeOver"
    /\ IF record.state = "pending" /\ record.body = op[r].arg /\ at[r] - record.createdAt > Stale
       THEN /\ SetRecord(r, [record EXCEPT !.createdAt = at[r]])
            /\ Goto(r, "load") /\ UNCHANGED answer
       ELSE /\ Reply(r, "in_progress") /\ Goto(r, "done")
            /\ UNCHANGED keys
    /\ UNCHANGED <<ticket, images, now, op, at, snap, tries, entry, ghosts, faults>>

\* Steps 3 and 4: read the ticket, look for an entry of an earlier attempt,
\* and only then ask whether the ticket admits the publication.
AnyBody(q, r) == TRUE

SameBody(q, r) == op[q].arg = op[r].arg

LoadForPublish(r) ==
    LET previous == Under(r, ticket.log) IN
    /\ pc[r] = "load"
    /\ Reads(r)
    /\ tries' = [tries EXCEPT ![r] = 0]
    /\ IF ~Exists
       THEN Reply(r, "not_found") /\ Goto(r, "release") /\ UNCHANGED entry
       ELSE IF \E q \in previous : ~SameBody(q, r)
       THEN Reply(r, "key_reused") /\ Goto(r, "release") /\ UNCHANGED entry
       ELSE IF previous # {}
       THEN /\ Reply(r, "created") /\ Goto(r, "complete")
            /\ \E q \in previous : entry' = [entry EXCEPT ![r] = q]
       ELSE /\ UNCHANGED entry
            /\ IF NextStatus(op[r], ticket.status) = Refused
               THEN Reply(r, "invalid_transition") /\ Goto(r, "release")
               ELSE Goto(r, "write") /\ UNCHANGED answer
    /\ UNCHANGED <<ticket, images, keys, now, op, at, leaked, faults>>

Attempts == 2

\* The second attempt of setInternalResolution and of #publishTicket.
Reload(r) ==
    LET previous == IF Keyed(op[r]) THEN Under(r, ticket.log) ELSE {} IN
    /\ pc[r] = "reload"
    /\ Reads(r)
    /\ IF tries[r] = Attempts
       THEN Reply(r, "invalid_transition") /\ Goto(r, AfterFailure(op[r])) /\ UNCHANGED entry
       ELSE IF \E q \in previous : ~SameBody(q, r)
       THEN Reply(r, "key_reused") /\ Goto(r, "release") /\ UNCHANGED entry
       ELSE IF previous # {}
       THEN /\ Reply(r, "created") /\ Goto(r, "complete")
            /\ \E q \in previous : entry' = [entry EXCEPT ![r] = q]
       ELSE /\ UNCHANGED entry
            /\ IF NextStatus(op[r], ticket.status) = Refused
               THEN Reply(r, "invalid_transition") /\ Goto(r, AfterFailure(op[r]))
               ELSE Goto(r, "write") /\ UNCHANGED answer
    /\ UNCHANGED <<ticket, images, keys, now, op, at, tries, leaked, faults>>

AnyReservation(r) == Record(r).state = "pending"

\* A reservation is r's own as long as its createdAt is r's time.
Owns(r) == Record(r).state = "pending" /\ Record(r).createdAt = at[r]

\* #complete and #release: best effort, the answer stands.
Complete(r) ==
    /\ pc[r] = "complete"
    /\ Goto(r, "done")
    /\ \/ UNCHANGED faults
          /\ IF Owns(r) THEN SetRecord(r, [Record(r) EXCEPT !.state = "done", !.entry = entry[r]])
                        ELSE UNCHANGED keys
       \/ Fault /\ UNCHANGED keys
    /\ UNCHANGED <<ticket, images, now, op, at, snap, tries, answer, entry, ghosts>>

Release(r) ==
    /\ pc[r] = "release"
    /\ Goto(r, "done")
    /\ \/ UNCHANGED faults
          /\ IF Owns(r) THEN SetRecord(r, NoRecord) ELSE UNCHANGED keys
       \/ Fault /\ UNCHANGED keys
    /\ UNCHANGED <<ticket, images, now, op, at, snap, tries, answer, entry, ghosts>>

\* #replay rebuilds the answer from the entry the record names.
Replay(r) ==
    /\ pc[r] = "replay"
    /\ Reply(r, IF entry[r] \in ticket.log THEN "created" ELSE "not_found")
    /\ Goto(r, "done")
    /\ UNCHANGED <<ticket, images, keys, now, op, at, snap, tries, entry, ghosts, faults>>
-----------------------------------------------------------------------------
(* The surroundings.                                                         *)

Tick ==
    /\ now < MaxTime
    /\ now' = now + 1
    /\ UNCHANGED <<ticket, images, keys, requestVars, ghosts, faults>>

\* MongoDB's TTL monitor removes an expired key some time later.
ForgetKey(k) ==
    /\ keys[k].state # "absent" /\ Expired(keys[k], now)
    /\ keys' = [keys EXCEPT ![k] = NoRecord]
    /\ UNCHANGED <<ticket, images, now, requestVars, ghosts, faults>>

\* The process of r dies, between any two calls.
Die(r) ==
    /\ pc[r] \notin {"idle", "done", "dead"} /\ Fault
    /\ Goto(r, "dead")
    /\ leaked' = IF r \in images THEN leaked \union {r} ELSE leaked
    /\ KeepTicket
    /\ UNCHANGED <<images, keys, now, op, at, snap, tries, answer, entry>>

\* A ticket that was opened, and seen by its client, before the first request.
Opened == [NoTicket EXCEPT !.status = "abierto",
                           !.history = <<[from |-> "absent", to |-> "abierto", by |-> "cliente"]>>]

Init ==
    /\ ticket \in {NoTicket, Opened}
    /\ images = {}
    /\ keys = [k \in Key |-> NoRecord]
    /\ now = 0
    /\ pc = [r \in Request |-> "idle"]
    /\ op = [r \in Request |-> NoOp]
    /\ at = [r \in Request |-> 0]
    /\ snap = [r \in Request |-> [status |-> "absent", log |-> {}, count |-> 0]]
    /\ tries = [r \in Request |-> 0]
    /\ answer = [r \in Request |-> "none"]
    /\ entry = [r \in Request |-> Nobody]
    /\ dirty = {} /\ raced = FALSE
    /\ shown = [s \in Side |-> 0]
    /\ leaked = {}
    /\ faults = 0

Step(r) ==
    \/ StoreImage(r) \/ StoreFails(r)
    \/ WriteTicket(r) \/ LoseWrite(r) \/ WriteThrows(r) \/ Reload(r)
    \/ SetFirstResponse(r) \/ FirstResponseFails(r) \/ Discard(r)
    \/ MarkSeen(r) \/ SeenFails(r)
    \/ FindKey(r) \/ Reserve(r) \/ TakeOver(r) \/ LoadForPublish(r)
    \/ Complete(r) \/ Release(r) \/ Replay(r)

Next ==
    \/ \E r \in Request :
          \/ \E o \in Ops : Begin(r, o) \/ BeginPublish(r, o)
          \/ Step(r) \/ Die(r)
    \/ \E k \in Key : ForgetKey(k)
    \/ Tick

Spec == Init /\ [][Next]_vars
-----------------------------------------------------------------------------
(* Properties.                                                               *)

Place == {"idle", "store", "write", "reload", "firstResponse", "discard", "seen", "find",
          "reserve", "takeOver", "load", "complete", "release", "replay", "done", "dead"}
Answer == {"none", "ok", "created", "not_found", "invalid_transition", "key_reused",
           "in_progress", "error"}
Time == 0..MaxTime
StatusOrAbsent == Status \union {"absent"}
Change == [from : StatusOrAbsent, to : Status, by : Side]
Ticket == [status : StatusOrAbsent, history : Seq(Change), messages : Seq(Request),
           log : SUBSET Request, firstResponse : Time, note : Request \union {Nobody},
           reopened : Nat, activity : Time, author : Side, seen : [Side -> Time]]
KeyRecord == [state : {"absent", "pending", "done"}, body : {"none", "work", "final"},
              createdAt : Time, expiresAt : Nat, entry : Request \union {Nobody}]

\* Every variable keeps its type; no request loses more than its two writes.
TypeOK ==
    /\ ticket \in Ticket
    /\ images \subseteq Request /\ leaked \subseteq Request /\ dirty \subseteq Request
    /\ keys \in [Key -> KeyRecord]
    /\ now \in Time
    /\ pc \in [Request -> Place]
    /\ op \in [Request -> Op]
    /\ at \in [Request -> Time]
    /\ snap \in [Request -> [status : StatusOrAbsent, log : SUBSET Request, count : Nat]]
    /\ tries \in [Request -> 0..Attempts]
    /\ answer \in [Request -> Answer]
    /\ entry \in [Request -> Request \union {Nobody}]
    /\ raced \in BOOLEAN
    /\ shown \in [Side -> Nat]
    /\ faults \in 0..MaxFaults

\* The table of tickets.js, read as who may move a ticket from where to where.
Allowed ==
    [cliente |-> {<<"absent", "abierto">>, <<"esperando_cliente", "en_progreso">>,
                  <<"resuelto", "abierto">>},
     smarteam |-> {<<"abierto", "en_progreso">>, <<"en_progreso", "esperando_cliente">>,
                   <<"resuelto", "en_progreso">>, <<"abierto", "resuelto">>,
                   <<"en_progreso", "resuelto">>, <<"esperando_cliente", "resuelto">>}]

\* However requests overlap, the history of a ticket is one path of allowed
\* moves that ends at its status: no request decides on a status that is gone.
HistoryIsAPath ==
    LET h == ticket.history IN
    /\ \A i \in DOMAIN h :
          /\ <<h[i].from, h[i].to>> \in Allowed[h[i].by]
          /\ h[i].from = (IF i = 1 THEN "absent" ELSE h[i - 1].to)
    /\ Exists => Len(h) > 0 /\ h[Len(h)].to = ticket.status

Messages == {ticket.messages[i] : i \in DOMAIN ticket.messages}

\* A message never loses the image it was sent with: whatever fails, images
\* are removed of messages only that were not saved.
MessageImagesKept ==
    ~UnackedWrites => \A r \in Messages : op[r].image => r \in images

\* An image no message refers to is removed by the request that stored it,
\* unless the removal failed or its process died.
NoOrphanImages ==
    \A r \in images \ Messages :
        pc[r] = "done" => r \in leaked

\* PublishOnce, with the work log entries as publications: a key is published
\* at most once, through retries, takeovers of a request that is still at work,
\* lost reservations, expiry and reuse with another body.
Published == [k \in Key |-> {q \in ticket.log : op[q].key = k}]

Once == INSTANCE PublishOnce WITH published <- Published, Publication <- Request

PublishesOnce == Once!Spec

\* Who is told 201 finds its publication in the ticket: an entry under its key
\* with its own body, its own or that of an earlier attempt.
CreatedIsPublished ==
    \A r \in Request :
        answer[r] = "created" =>
            /\ entry[r] \in ticket.log
            /\ op[entry[r]].arg = op[r].arg /\ op[entry[r]].key = op[r].key

\* A live reservation is removed or finished by its own request only: one that
\* was taken over from cannot free the key under the one that took it.
ReservationIsKept ==
    [][\A k \in Key :
        (keys[k].state = "pending" /\ keys'[k].state # "pending" /\ ~Expired(keys[k], now)) =>
            \E r \in Request : pc[r] \in {"complete", "release"} /\ pc'[r] = "done"
                             /\ op[r].key = k /\ at[r] = keys[k].createdAt]_vars

\* The first response is measured once: later replies, resolutions and
\* publications, however late they arrive, do not move it, and it names one.
FirstResponseStands ==
    [][ticket.firstResponse # 0 => ticket'.firstResponse = ticket.firstResponse]_vars

\* If no request wrote with a time from before the write of another, a side
\* that has not been shown the last message is told that there is news.
UnshownIsNews ==
    \A side \in Side :
        LET n == Len(ticket.messages) IN
        (~raced /\ n > shown[side] /\ ticket.author # side) => hasNewsFor(ticket, side)
=============================================================================
