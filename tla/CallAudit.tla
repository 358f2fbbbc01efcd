------------------------------ MODULE CallAudit -------------------------------
(* What an event or a run keeps of the traffic it had, next to its result.     *)
(* Every call of an event goes through a recorder (sapCallRecorder.js), whose   *)
(* calls end up in the event as sapAudit ("document") or audit ("prices"); the  *)
(* errors of a run end up in its SyncLog ("run").  MongoDB refuses a whole      *)
(* update for one key it does not like or for its size (syncLog.service.js).    *)
EXTENDS Naturals, Sequences, FiniteSets, FiniteSetsExt, SequencesExt

CONSTANTS
    RecorderCaps,   \* the caps a recorder may be made with
    AuditCap,       \* MAX_AUDIT_CALLS
    ErrorCap,       \* MAX_LOGGED_ERRORS
    BodyCap,        \* MAX_AUDIT_BODY_CHARS and MAX_LOGGED_ERROR_CHARS
    AuditCall,      \* the calls: what they send, what is answered
    BesideSizes,    \* sizes of what an audit carries beside its calls
    BesideRoom,     \* the room the document leaves for it
    DocumentLimit,  \* what MongoDB takes
    MaxCalls        \* bound of the calls of an event, the records of a run

\* A body is an object, with its keys, or a text.
Body == {body \in [keys : SUBSET {"plain", "$", "dotted", "@odata."}, size : Nat, text : BOOLEAN] :
           body.text => body.keys = {}}

ASSUME CapsAssumption ==
    /\ RecorderCaps \subseteq Nat \ {0}
    /\ AuditCall \subseteq [ok : BOOLEAN, request : Body, answer : Body]
    /\ BesideSizes \cup {AuditCap, ErrorCap, BodyCap, DocumentLimit, MaxCalls, BesideRoom} \subseteq Nat
    \* Calls at their caps fit in a document.
    /\ \A limit \in RecorderCaps : limit * (2 * BodyCap) + BesideRoom <= DocumentLimit

VARIABLES
    flow,           \* "document", "prices" or "run"
    maxCalls,       \* the cap of the recorder
    made,           \* ghost: the calls answered so far; the records of a run
    beside,         \* payload_SAP, response_SAP and HubSpot's answers; rounds, unresolved
    recorder,       \* [calls, dropped]
    outcome,        \* how the work has ended
    stored          \* the event or the log in MongoDB

auditVars == <<flow, maxCalls, beside, made, recorder, outcome, stored>>

\* Keys of a body: MongoDB dislikes a leading $ and a dot; "@odata." keys are noise.
Unwanted == {"$", "dotted", "@odata."}
NoBody == [keys |-> {}, size |-> 0, text |-> FALSE]
NoAudit == [calls |-> <<>>, dropped |-> 0, total |-> 0, beside |-> 0, written |-> FALSE]

AuditTypeOK ==
    /\ flow \in {"document", "prices", "run"} /\ maxCalls \in RecorderCaps /\ beside \in BesideSizes
    /\ made \in Seq(AuditCall) /\ Len(made) <= MaxCalls
    /\ Len(recorder.calls) <= maxCalls /\ recorder.dropped \in 0 .. MaxCalls
    /\ outcome \in {"working", "succeeded", "failed"}
    /\ stored.status \in {"working", "succeeded", "failed"}

AuditInit ==
    /\ flow \in {"document", "prices", "run"} /\ maxCalls \in RecorderCaps /\ beside \in BesideSizes
    /\ made = <<>>
    /\ recorder = [calls |-> <<>>, dropped |-> 0]
    /\ outcome = "working"
    /\ stored = [status |-> "working", audit |-> NoAudit]

-----------------------------------------------------------------------------
(* The recorder: it sees a call once it is answered, and keeps the first ones. *)

Recorded(call) ==
    IF Len(recorder.calls) >= maxCalls
      THEN [recorder EXCEPT !.dropped = @ + 1]
      ELSE [recorder EXCEPT !.calls = Append(@, call)]

\* A call is answered or refused; some refusals end the event, others are swallowed.  A
\* record of a run that fails never ends the run.
Answer(call) ==
    /\ outcome = "working" /\ Len(made) < MaxCalls
    /\ made' = Append(made, call)
    /\ recorder' = IF flow = "run" THEN recorder ELSE Recorded(call)
    /\ outcome' \in IF flow # "run" /\ ~ call.ok THEN {"working", "failed"} ELSE {"working"}
    /\ UNCHANGED <<flow, maxCalls, beside, stored>>

AuditEnds ==
    /\ outcome = "working" /\ outcome' \in {"succeeded", "failed"}
    /\ UNCHANGED <<flow, maxCalls, beside, made, recorder, stored>>

-----------------------------------------------------------------------------
(* What is written.                                                            *)

\* Mutant: a leading $ stays.
SanitizedDots(keys) == (keys \ {"dotted", "@odata."}) \cup (IF "dotted" \in keys THEN {"un_dotted"} ELSE {})

\* sanitizeAuditKeys: noise goes, the rest is renamed.
Sanitized(keys) ==
    (keys \ Unwanted)
      \cup (IF "$" \in keys THEN {"_$"} ELSE {}) \cup (IF "dotted" \in keys THEN {"un_dotted"} ELSE {})

Clean(body) == [body EXCEPT !.keys = Sanitized(@)]

\* truncateAuditBody: a long object becomes a preview, a text stays whole.
Preview(body) ==
    IF ~ body.text /\ body.size > BodyCap THEN [body EXCEPT !.keys = {}, !.size = BodyCap] ELSE body

\* The snapshot of an error (buildErrorResponseSnapshot) is kept whole.
SerializeSapCall(call) ==
    [call EXCEPT !.request = Preview(Clean(@)),
                 !.answer = IF call.ok THEN Preview(Clean(@)) ELSE Clean(@)]

\* In the audit of prices a call that went well keeps no bodies.
SerializeAuditCall(call) ==
    IF call.ok THEN [call EXCEPT !.request = NoBody, !.answer = NoBody] ELSE SerializeSapCall(call)

SapAudit ==
    [NoAudit EXCEPT !.calls = [i \in DOMAIN recorder.calls |-> SerializeSapCall(recorder.calls[i])],
                    !.beside = beside, !.written = TRUE]

\* Two caps drop calls: the recorder's and the audit's own.
DroppedCalls(calls, dropped) == (IF Len(calls) > AuditCap THEN Len(calls) - AuditCap ELSE 0) + dropped

PriceAudit ==
    LET kept == SubSeq(recorder.calls, 1, IF Len(recorder.calls) > AuditCap THEN AuditCap
                                                                            ELSE Len(recorder.calls))
    IN  [NoAudit EXCEPT !.calls = [i \in DOMAIN kept |-> SerializeAuditCall(kept[i])],
                        !.dropped = DroppedCalls(recorder.calls, recorder.dropped),
                        !.beside = beside, !.written = TRUE]

Failures == SelectSeq(made, LAMBDA record : ~ record.ok)

SizeOf(call) == call.request.size + call.answer.size

\* capErrorEntry: the entry of a record that failed is cut as a whole; its keys are left as they are.
CappedEntry(record) ==
    IF SizeOf(record) > BodyCap THEN [record EXCEPT !.request = NoBody, !.answer = [NoBody EXCEPT !.size = BodyCap]]
                                ELSE record

\* capErrors: a sample, and the number of all of them.
CappedErrors(errors) ==
    LET sample == SubSeq(errors, 1, IF Len(errors) > ErrorCap THEN ErrorCap ELSE Len(errors))
    IN  [NoAudit EXCEPT !.calls = [i \in DOMAIN sample |-> CappedEntry(sample[i])],
                        !.total = IF Len(errors) > ErrorCap THEN Len(errors) ELSE 0, !.written = TRUE]

CallsSize(audit) == FoldSeq(LAMBDA call, size : size + SizeOf(call), 0, audit.calls)

\* MongoDB takes an update or refuses all of it.
Storable(audit) ==
    /\ CallsSize(audit) + audit.beside <= DocumentLimit
    /\ \A call \in ToSet(audit.calls) : Unwanted \cap (call.request.keys \cup call.answer.keys) = {}

\* An update MongoDB refuses is repeated without the audit, or, of a price event, the audit
\* is a second update whose refusal is only logged.
Written(audit) ==
    IF Storable(audit) THEN [status |-> outcome, audit |-> audit]
                       ELSE [status |-> outcome, audit |-> NoAudit]

Write ==
    /\ outcome # "working" /\ stored.status = "working"
    /\ stored' = Written(CASE flow = "document" -> SapAudit
                           [] flow = "prices" -> PriceAudit
                           [] flow = "run" -> CappedErrors(Failures))
    /\ UNCHANGED <<flow, maxCalls, beside, made, recorder, outcome>>

AuditNext == (\E call \in AuditCall : Answer(call)) \/ AuditEnds \/ Write
AuditSpec == AuditInit /\ [][AuditNext]_auditVars

-----------------------------------------------------------------------------
(* Properties.                                                                  *)

IsWritten == stored.status # "working"

\* What truncateAuditBody does not cut: a text, and the error of a call.
LongAndWhole(call) ==
    /\ flow = "prices" => ~ call.ok
    /\ \/ call.request.text /\ call.request.size > BodyCap
       \/ (call.answer.text \/ ~ call.ok) /\ call.answer.size > BodyCap

\* MongoDB never refuses the audit of an event for a key of the bodies it sent or was
\* answered, nor for the size of an object among them: an audit is lost only to what the
\* code leaves whole, a long text or error, or to what goes beside the calls.
LostToWhatIsWhole ==
    IsWritten /\ flow # "run" /\ ~ stored.audit.written
      => beside > BesideRoom \/ \E i \in DOMAIN recorder.calls : LongAndWhole(recorder.calls[i])

\* An audit of prices that is stored owns up to every call it does not show, whichever cap
\* dropped it.
CallsAddUp ==
    IsWritten /\ flow = "prices" /\ stored.audit.written
      => Len(stored.audit.calls) + stored.audit.dropped = Len(made)

\* Of an event whose calls no cap was in the way of, every failed call is in the audit
\* that is stored.
FailureOnRecord ==
    LET Failed(calls) == Cardinality({i \in DOMAIN calls : ~ calls[i].ok})
    IN  IsWritten /\ flow # "run" /\ stored.audit.written /\ Len(made) <= maxCalls /\ (flow = "prices" => Len(made) <= AuditCap)
          => Failed(stored.audit.calls) = Failed(made)

\* A log that shows errors shows all of them, or says how many there were.
ErrorsTold ==
    IsWritten /\ flow = "run" /\ stored.audit.written
      => Len(Failures) \in {Len(stored.audit.calls), stored.audit.total}
=============================================================================
