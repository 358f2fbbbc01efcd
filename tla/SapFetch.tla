------------------------------- MODULE SapFetch --------------------------------
(* A run of a ClientConfig, from its filters to its log.  Nothing remembers how *)
(* far the last run got: the window is built from the clock, the configured     *)
(* interval and the filters, SAP answers with the records inside it, and those  *)
(* are sent.  SAP stamps a record with a day (UpdateDate, at midnight) and a    *)
(* time of day (UpdateTime).  Runs of one config never overlap (SapSyncJob).    *)
EXTENDS Integers, Sequences, FiniteSets, FiniteSetsExt, Functions

CONSTANTS
    SapRecord,       \* the records of SAP
    Tasks,           \* ClientConfigs: [mode, type, filters, interval]
    DayLength,       \* ticks of a day
    Horizon,         \* ticks modelled
    MaxSapChanges, FetchFaults

Day(t) == t \div DayLength
TimeOfDay(t) == t % DayLength
Clock == 0 .. Horizon

\* An interval of 0 is one that is missing or not a positive number.
Task ==
    [mode : {"FULL", "INCREMENTAL"}, type : {"product", "other"}, interval : 0 .. DayLength - 1,
     filters : SUBSET {"datetime", "date", "time"},
     source : {"SERVICE_LAYER", "S4_ODATA", "API"}]

ASSUME TasksAssumption == Tasks \subseteq Task
ASSUME FetchBounds == {DayLength, Horizon, MaxSapChanges, FetchFaults} \subseteq Nat /\ DayLength > 0

VARIABLES
    task,       \* the ClientConfig
    fetchSetup,      \* what a run finds: everything, no credentials, a mode nobody reads, no mappings
    now,
    changed,    \* [SapRecord -> when SAP last changed it]
    sent,       \* [SapRecord -> the change HubSpot has]
    run,        \* the run
    syncLog,    \* the log of the last run
    lastError,  \* whether ClientConfig.lastError holds an error
    seenUpTo,   \* when the options of the last clean run were built
    steady,     \* so far every run was clean and followed the one before within the interval
    changes, mishaps

fetchVars ==
    <<task, fetchSetup, now, changed, sent, run, syncLog, lastError, seenUpTo, steady, changes, mishaps>>

NoFetch == [pc |-> "idle", at |-> 0, rows |-> {}, lost |-> FALSE]
NewLog == [status |-> "none", processed |-> 0, sent |-> 0, failed |-> 0]

FetchTypeOK ==
    /\ task \in Tasks /\ now \in Clock
    /\ changed \in [SapRecord -> Clock] /\ sent \in [SapRecord -> Clock]
    /\ run.pc \in {"idle", "prepare", "fetch", "enrich", "send", "report", "settle"}
    /\ run.at <= now
    /\ \A row \in run.rows : row.record \in SapRecord /\ row.change <= changed[row.record]
    /\ syncLog.status \in {"none", "completed", "errored"}
    /\ syncLog.sent + syncLog.failed <= syncLog.processed

FetchInit ==
    /\ task \in Tasks
    /\ fetchSetup \in {"ready", "noCredentials", "unreadable", "noMappings"}
    /\ now = 0
    /\ changed = [r \in SapRecord |-> 0] /\ sent = [r \in SapRecord |-> 0]
    /\ run = NoFetch /\ syncLog = NewLog /\ lastError = FALSE
    /\ seenUpTo = 0 /\ steady = TRUE
    /\ changes = 0 /\ mishaps = 0

-------------------------------------------------------------------------------
(* The window                                                                   *)

\* buildSapFetchOptions: a FULL run skips the dynamic filters, an INCREMENTAL one without any
\* gets UpdateDate ge now - interval.
Dynamic(t) == IF t.mode = "FULL" THEN {} ELSE t.filters
Controlled(t) == t.mode = "INCREMENTAL" /\ t.filters = {} /\ t.interval > 0

Stamp(kind, change) == IF kind = "time" THEN TimeOfDay(change) ELSE Day(change) * DayLength
\* The clock of a test, where day 0 is not the first day: an interval may reach before it.
Bound(t, kind, at) ==
    CASE kind = "date" -> Day(at) * DayLength
      [] kind = "time" -> (at + DayLength - t.interval) % DayLength
      [] OTHER -> at - t.interval
\* A dynamic filter without an interval: Business One refuses it, S/4 leaves it out.
Needed(t) == {kind \in Dynamic(t) : kind = "date" \/ t.interval > 0}
Refused(t) ==
    \/ /\ t.source = "SERVICE_LAYER"
       /\ Needed(t) # Dynamic(t)
    \/ t.source = "S4_ODATA" /\ Controlled(t)
Conditions(t) == IF Controlled(t) THEN {"datetime"} ELSE Needed(t)

LateWindow(t, at, change) ==
    t.source = "API" \/ \A kind \in Conditions(t) : Stamp(kind, change) > Bound(t, kind, at)
InWindow(t, at, change) ==
    t.source = "API" \/ \A kind \in Conditions(t) : Stamp(kind, change) >= Bound(t, kind, at)
Window(t, at) ==
    {[record |-> r, change |-> changed[r]] : r \in {s \in SapRecord : InWindow(t, at, changed[s])}}

-------------------------------------------------------------------------------
(* Time, SAP, the administrator                                                 *)

Tick ==
    /\ now < Horizon /\ now' = now + 1
    /\ UNCHANGED <<task, fetchSetup, changed, sent, run, syncLog, lastError, seenUpTo, steady, changes, mishaps>>

SapChanges(r) ==
    /\ changes < MaxSapChanges /\ now > 0
    /\ changed[r] < now
    /\ changed' = [changed EXCEPT ![r] = now]
    /\ changes' = changes + 1
    /\ UNCHANGED <<task, fetchSetup, now, sent, run, syncLog, lastError, seenUpTo, steady, mishaps>>

AdminRepairs ==
    /\ fetchSetup # "ready" /\ run.pc = "idle" /\ syncLog.status = "errored"
    /\ fetchSetup' = "ready"
    /\ UNCHANGED <<task, now, changed, sent, run, syncLog, lastError, seenUpTo, steady, changes, mishaps>>

-------------------------------------------------------------------------------
(* The run                                                                      *)

Mishap == mishaps < FetchFaults /\ mishaps' = mishaps + 1
InRun == UNCHANGED <<task, fetchSetup, now, changed, changes>>

\* execute: the log is created, without a status.
StartSync ==
    /\ run.pc = "idle" /\ now > seenUpTo
    /\ run' = [NoFetch EXCEPT !.pc = "prepare", !.at = now]
    /\ syncLog' = NewLog
    /\ InRun /\ UNCHANGED <<sent, lastError, seenUpTo, steady, mishaps>>

\* A run that is not clean ends the steady stretch.
Spoils == steady' = FALSE /\ UNCHANGED seenUpTo
CleanRun ==
    /\ steady' = (steady /\ ~run.lost /\ (task.mode = "FULL" \/ run.at - seenUpTo <= task.interval))
    /\ seenUpTo' = IF run.lost THEN seenUpTo ELSE run.at

\* The catch: the log is errored with no counter, and the config keeps the message.
Catches ==
    /\ run' = NoFetch
    /\ syncLog' = [NewLog EXCEPT !.status = "errored"]
    /\ lastError' = TRUE
    /\ Spoils

\* Reading the credentials, seeding and reading the mappings fails.
PrepareFails ==
    /\ run.pc = "prepare" /\ Mishap
    /\ Catches
    /\ InRun /\ UNCHANGED sent

\* buildSapFetchOptions: the window is fixed here.
BuildOptions ==
    /\ run.pc = "prepare"
    /\ run' = [run EXCEPT !.pc = "fetch", !.at = now]
    /\ InRun /\ UNCHANGED <<sent, syncLog, lastError, seenUpTo, steady, mishaps>>

\* fetchData refuses a config it cannot read, the builders a config they cannot query.  The API,
\* script and procedure modes answer any failure with an empty list.
Silent(t) == t.source = "API"
FetchThrows == fetchSetup = "unreadable" \/ (fetchSetup = "noMappings" /\ ~Silent(task)) \/ Refused(task)
NoData == {}
FetchAnswersOrNothing ==
    IF FetchThrows THEN IF fetchSetup = "unreadable" THEN {NoData} ELSE {}
    ELSE {Window(task, run.at)} \cup (IF Silent(task) THEN {NoData} ELSE {})
FetchAnswers ==
    IF FetchThrows THEN {} ELSE {Window(task, run.at)} \cup (IF Silent(task) THEN {NoData} ELSE {})

FetchFails ==
    /\ run.pc = "fetch"
    /\ \/ FetchAnswers = {} /\ UNCHANGED mishaps
       \/ ~Silent(task) /\ Mishap
    /\ Catches
    /\ InRun /\ UNCHANGED sent

\* Missing credentials are noticed only after the fetch, and leave lastError as it was.
NoCredentials ==
    /\ run.pc = "fetch" /\ fetchSetup = "noCredentials" /\ FetchAnswers # {}
    /\ run' = NoFetch
    /\ syncLog' = [NewLog EXCEPT !.status = "errored"]
    /\ Spoils
    /\ InRun /\ UNCHANGED <<sent, lastError, mishaps>>

\* finishEmptySync: a completed run, whatever made the list empty.
FinishEmptySync ==
    /\ run.pc = "fetch" /\ fetchSetup # "noCredentials" /\ NoData \in FetchAnswers
    /\ run' = [run EXCEPT !.pc = "settle", !.lost = (Window(task, run.at) # {})]
    /\ syncLog' = [NewLog EXCEPT !.status = "completed"]
    /\ InRun /\ UNCHANGED <<sent, lastError, seenUpTo, steady, mishaps>>

\* mapRecords: without a mapping there is nothing to send.
Mapped(rows) == IF fetchSetup = "noMappings" THEN {} ELSE rows
FetchData ==
    /\ run.pc = "fetch" /\ fetchSetup # "noCredentials"
    /\ \E rows \in FetchAnswers \ {NoData} :
           run' = [run EXCEPT !.pc = "enrich", !.rows = Mapped(rows), !.lost = (Mapped(rows) # rows)]
    /\ InRun /\ UNCHANGED <<sent, syncLog, lastError, seenUpTo, steady, mishaps>>

\* Discounts, contacts, stock, batches, flags and addresses: a read that throws ends the run.
EnrichFails ==
    /\ run.pc = "enrich" /\ Mishap
    /\ Catches
    /\ InRun /\ UNCHANGED sent
EnrichRows ==
    /\ run.pc = "enrich"
    /\ run' = [run EXCEPT !.pc = "send"]
    /\ InRun /\ UNCHANGED <<sent, syncLog, lastError, seenUpTo, steady, mishaps>>

DeliverRows(rows) == sent' = [r \in SapRecord |-> Max({sent[r]} \cup {row.change : row \in {w \in rows : w.record = r}})]

\* Every record that was written counts as sent, the others as failed.
Sends(rows) == [sent |-> Cardinality(rows), failed |-> Cardinality(run.rows \ rows)]

ReportedWritten(rows) ==
    [status |-> "completed", processed |-> Cardinality(rows),
     sent |-> Sends(rows).sent, failed |-> Sends(rows).failed]
Reported(rows) ==
    [status |-> "completed", processed |-> Cardinality(run.rows),
     sent |-> Sends(rows).sent, failed |-> Sends(rows).failed]

\* sendMappedRecords: some records may fail, and the run is completed all the same.
Send ==
    /\ run.pc = "send"
    /\ \E rows \in SUBSET run.rows :
           /\ rows # run.rows => Mishap
           /\ rows = run.rows => UNCHANGED mishaps
           /\ DeliverRows(rows)
           /\ run' = [run EXCEPT !.pc = "report", !.rows = rows,
                                 !.lost = (run.lost \/ rows # run.rows)]
           /\ syncLog' = [Reported(rows) EXCEPT !.status = "none"]
    /\ InRun /\ UNCHANGED <<lastError, seenUpTo, steady>>

\* The target throws after it wrote some: all of them count as failed and the run is completed,
\* but for products, whose strategy is called outside the try.
SendThrows ==
    /\ run.pc = "send" /\ Mishap
    /\ \E rows \in SUBSET run.rows :
           /\ DeliverRows(rows)
           /\ \/ /\ task.type = "other"
                 /\ run' = [run EXCEPT !.pc = "report", !.rows = rows, !.lost = TRUE]
                 /\ syncLog' = [NewLog EXCEPT !.processed = Cardinality(run.rows), !.failed = Cardinality(run.rows)]
                 /\ UNCHANGED <<lastError, seenUpTo, steady>>
              \/ task.type = "product" /\ Catches
    /\ InRun

\* syncLogRepository.finish; the counters are those of the send.
Report ==
    /\ run.pc = "report"
    /\ syncLog' = [syncLog EXCEPT !.status = "completed"]
    /\ run' = [run EXCEPT !.pc = "settle"]
    /\ InRun /\ UNCHANGED <<sent, lastError, seenUpTo, steady, mishaps>>

\* markSyncSucceeded.
MarkSyncSucceeded ==
    /\ run.pc = "settle"
    /\ run' = NoFetch /\ lastError' = FALSE
    /\ CleanRun
    /\ InRun /\ UNCHANGED <<sent, syncLog, mishaps>>

\* Either write fails: the catch rewrites the log without its counters.
BookkeepingFails ==
    /\ run.pc \in {"report", "settle"} /\ Mishap
    /\ Catches
    /\ InRun /\ UNCHANGED sent

\* The process dies: the log stays as it is.
FetchCrash ==
    /\ run.pc # "idle" /\ Mishap
    /\ run' = NoFetch /\ Spoils
    /\ InRun /\ UNCHANGED <<sent, syncLog, lastError>>

FetchNext ==
    \/ Tick \/ \E r \in SapRecord : SapChanges(r)
    \/ AdminRepairs
    \/ StartSync \/ PrepareFails \/ BuildOptions \/ FetchFails \/ NoCredentials \/ FinishEmptySync \/ FetchData \/ EnrichFails \/ EnrichRows
    \/ Send \/ SendThrows \/ Report \/ MarkSyncSucceeded \/ BookkeepingFails \/ FetchCrash

FetchSpec == FetchInit /\ [][FetchNext]_fetchVars

-------------------------------------------------------------------------------
(* Properties                                                                   *)

\* A bare timestamp against a day kept at midnight: only a run within an interval of midnight
\* reads anything.
DayBlind(t) == "datetime" \in Conditions(t)
AroundMidnight(t, change) ==
    TimeOfDay(change) < t.interval \/ TimeOfDay(change) + t.interval >= DayLength

\* Without a watermark, overlapping windows are all there is: as long as runs are clean and
\* follow each other within the interval, a change older than the last run is in HubSpot, unless
\* it was made within an interval of midnight.  A run without a window catches up with everything.
SteadyRunsLoseNothing ==
    (steady \/ (Conditions(task) = {} /\ ~Silent(task))) /\ ~DayBlind(task) =>
        \A r \in SapRecord :
            changed[r] < seenUpTo /\ sent[r] < changed[r] =>
                Conditions(task) # {} /\ AroundMidnight(task, changed[r])

\* A log that closes as completed with no failure speaks the truth: what SAP had in the window
\* when the run began is in HubSpot.  The modes that swallow their failures are excepted.
GreenMeansDelivered ==
    run.pc = "settle" /\ syncLog.status = "completed" /\ syncLog.failed = 0 /\ ~Silent(task) =>
        \A r \in SapRecord :
            changed[r] < run.at /\ InWindow(task, run.at, changed[r]) => sent[r] = changed[r]

\* handoff-sap/decisiones-y-problemas.md says of a dynamic filter on a day without dynamicType
\* 'date', which lets no record through at any hour, that it is solved.  A clean run reads what
\* SAP changed today, no longer than the interval ago.
IncrementalSeesToday ==
    run.pc = "settle" /\ ~run.lost /\ syncLog.status = "completed" /\ ~Silent(task) =>
        \A r \in SapRecord :
            (/\ changed[r] < run.at /\ changed[r] >= run.at - task.interval
             /\ Day(changed[r]) = Day(run.at) /\ ~AroundMidnight(task, changed[r])) => sent[r] = changed[r]
=============================================================================
