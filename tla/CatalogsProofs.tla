----------------------------- MODULE CatalogsProofs -----------------------------
(***************************************************************************)
(* Theorems about what a run reads from SAP and brings to HubSpot without  *)
(* a record of its own: the window of a run (SapFetch), the batches a      *)
(* product shows (ProductStock), the products of a batched run             *)
(* (ProductBatches), and the options of dropdowns (Dropdowns).             *)
(***************************************************************************)
EXTENDS SapFetch, ProductStock, ProductBatches, Dropdowns, SequenceTheorems, FiniteSetTheorems,
        WellFoundedInduction, TLAPS

-----------------------------------------------------------------------------
(* SapFetch.  SteadyRunsLoseNothing is not inductive: it needs what a run   *)
(* has in hand (RowsFetched) and what it has delivered (RowsDelivered).  A record   *)
(* changed before the options were built has not changed since, because a   *)
(* change is stamped with the clock.                                        *)

\* Division of naturals, as the provers know it.
LEMMA DayAndTime ==
    ASSUME NEW c \in Nat
    PROVE  /\ Day(c) \in Nat /\ TimeOfDay(c) \in 0 .. DayLength - 1
           /\ c = DayLength * Day(c) + TimeOfDay(c)
  <1>1. DayLength \in Nat \ {0}
    BY FetchBounds
  <1> QED BY <1>1, Z3 DEF Day, TimeOfDay

\* Of a change no older than the interval, a day's filter misses what is around midnight.
LEMMA DayFilterMisses ==
    ASSUME NEW c \in Nat, NEW at \in Nat, NEW i \in Nat, at - i <= c,
           Day(c) * DayLength < Day(at) * DayLength
    PROVE  TimeOfDay(c) + i >= DayLength
  <1> DEFINE p == Day(at)
             q == Day(c)
             D == DayLength
  <1>1. D \in Nat \ {0} /\ p \in Nat /\ q \in Nat /\ TimeOfDay(c) \in Nat /\ TimeOfDay(at) \in Nat
        /\ c = D * q + TimeOfDay(c) /\ at = D * p + TimeOfDay(at)
    BY FetchBounds, DayAndTime
  <1> HIDE DEF p, q, D
  <1>2. q * D < p * D
    BY DEF p, q, D
  <1>3. D * p >= D * q + D
    BY <1>1, <1>2, Z3
  <1> QED BY <1>1, <1>3 DEF D

\* And so does a filter on the time of day.
LEMMA TimeFilterMisses ==
    ASSUME NEW c \in Nat, NEW at \in Nat, NEW i \in 0 .. DayLength - 1, at - i <= c, c < at,
           TimeOfDay(c) < (at + DayLength - i) % DayLength
    PROVE  TimeOfDay(c) < i
  <1> DEFINE x == at + DayLength - i
             u == Day(x)
             q == Day(c)
             D == DayLength
  <1>1. D \in Nat \ {0} /\ x \in Nat
    BY FetchBounds
  <1>2. u \in Nat /\ TimeOfDay(x) \in 0 .. D - 1 /\ x = D * u + TimeOfDay(x)
    BY <1>1, DayAndTime
  <1>3. q \in Nat /\ TimeOfDay(c) \in 0 .. D - 1 /\ c = D * q + TimeOfDay(c)
    BY DayAndTime
  <1>4. TimeOfDay(c) < TimeOfDay(x)
    BY DEF TimeOfDay
  <1>5. x = at + D - i /\ i \in Nat
    OBVIOUS
  <1> HIDE DEF x, u, q, D
  <1>6. D * q + D > D * u
    BY <1>1, <1>2, <1>3, <1>4, <1>5
  <1>7. D * q + D >= D * u + D
    BY <1>1, <1>2, <1>3, <1>6, Z3
  <1> QED BY <1>1, <1>2, <1>3, <1>5, <1>7

\* What a clean run misses of the changes since the last one, when it follows within the interval.
LEMMA MissesAroundMidnight ==
    ASSUME task \in Tasks, NEW at \in Nat, NEW c \in Nat, c < at, ~InWindow(task, at, c),
           ~DayBlind(task), task.mode = "FULL" \/ at - task.interval <= c
    PROVE  Conditions(task) # {} /\ AroundMidnight(task, c)
  <1>1. task \in Task
    BY TasksAssumption
  <1>2. PICK kind \in Conditions(task) : ~(Stamp(kind, c) >= Bound(task, kind, at))
    BY DEF InWindow
  <1>3. kind \in {"date", "time"} /\ task.mode = "INCREMENTAL"
        /\ task.interval \in 0 .. DayLength - 1 /\ (kind = "date" \/ task.interval > 0)
    BY <1>1, <1>2 DEF DayBlind, Conditions, Controlled, Needed, Dynamic, Task
  <1>4. DayLength \in Nat \ {0} /\ task.interval \in Nat
    BY <1>3, FetchBounds
  <1>5. Day(c) \in Nat /\ Day(at) \in Nat /\ TimeOfDay(c) \in Nat
    BY DayAndTime
  <1>6. CASE kind = "date"
    <2>1. Day(c) * DayLength < Day(at) * DayLength
      BY <1>2, <1>4, <1>5, <1>6 DEF Stamp, Bound
    <2>2. TimeOfDay(c) + task.interval >= DayLength
      BY <1>3, <1>4, <2>1, DayFilterMisses
    <2> QED BY <1>2, <2>2 DEF AroundMidnight
  <1>7. CASE kind = "time"
    <2>1. (at + DayLength - task.interval) % DayLength \in Int
      BY <1>4
    <2>2. TimeOfDay(c) < (at + DayLength - task.interval) % DayLength
      BY <1>2, <1>5, <1>7, <2>1 DEF Stamp, Bound
    <2>3. TimeOfDay(c) < task.interval
      BY <1>3, <2>2, TimeFilterMisses
    <2> QED BY <1>2, <2>3 DEF AroundMidnight
  <1> QED BY <1>3, <1>6, <1>7

FetchFields == {"pc", "at", "rows", "lost"}

\* A record is in the rows once.
RowsShaped(rows) ==
    /\ \A a \in rows : a.record \in SapRecord /\ a.change \in Nat
    /\ \A a, b \in rows : a.record = b.record => a.change = b.change

FetchShaped ==
    /\ task \in Tasks /\ now \in Nat /\ seenUpTo \in Nat /\ seenUpTo <= now
    /\ changed \in [SapRecord -> Nat] /\ sent \in [SapRecord -> Nat]
    /\ \A r \in SapRecord : changed[r] <= now
    /\ DOMAIN run = FetchFields /\ run.at \in Nat /\ run.at <= now /\ RowsShaped(run.rows)

\* What SAP had changed when the options were built and lets through.
Asked(r) == changed[r] < run.at /\ InWindow(task, run.at, changed[r])

RowsFetched ==
    run.pc \in {"enrich", "send"} /\ ~run.lost =>
        \A r \in SapRecord : Asked(r) => [record |-> r, change |-> changed[r]] \in run.rows
RowsDelivered ==
    run.pc \in {"report", "settle"} /\ ~run.lost =>
        \A r \in SapRecord : Asked(r) => changed[r] <= sent[r]

FetchInv == FetchShaped /\ RowsFetched /\ RowsDelivered /\ SteadyRunsLoseNothing

\* Nothing is delivered and no run is judged: the clock, SAP, a failed or an abandoned run.
LEMMA SamePastKeepsFetch ==
    ASSUME FetchInv, UNCHANGED <<task, seenUpTo>>, steady' => steady,
           sent' \in [SapRecord -> Nat], \A r \in SapRecord : sent[r] <= sent'[r],
           changed' \in [SapRecord -> Nat],
           \A r \in SapRecord : changed'[r] = changed[r] \/ changed'[r] >= now
    PROVE  SteadyRunsLoseNothing'
  <1>1. \A r \in SapRecord : changed'[r] < seenUpTo => changed'[r] = changed[r]
    BY DEF FetchInv, FetchShaped
  <1>2. \A r \in SapRecord : changed'[r] < seenUpTo /\ sent'[r] < changed'[r] =>
                             changed[r] < seenUpTo /\ sent[r] < changed[r]
    BY <1>1 DEF FetchInv, FetchShaped
  <1>3. ASSUME steady \/ (Conditions(task) = {} /\ ~Silent(task)), ~DayBlind(task), NEW r \in SapRecord,
               changed[r] < seenUpTo, sent[r] < changed[r]
        PROVE  Conditions(task) # {} /\ AroundMidnight(task, changed[r])
    BY <1>3 DEF FetchInv, SteadyRunsLoseNothing
  <1> SUFFICES ASSUME steady' \/ (Conditions(task) = {} /\ ~Silent(task)), ~DayBlind(task), NEW r \in SapRecord,
                      changed'[r] < seenUpTo, sent'[r] < changed'[r]
               PROVE  Conditions(task) # {} /\ AroundMidnight(task, changed'[r])
    BY DEF SteadyRunsLoseNothing
  <1> QED BY <1>1, <1>2, <1>3

\* A run with nothing in hand that anybody relies on.
LEMMA RestingKeepsFetch ==
    ASSUME FetchInv, UNCHANGED <<task, now, changed, seenUpTo>>, steady' => steady,
           sent' \in [SapRecord -> Nat], \A r \in SapRecord : sent[r] <= sent'[r],
           DOMAIN run' = FetchFields, run'.at \in Nat, run'.at <= now, RowsShaped(run'.rows),
           run'.lost \/ run'.pc \in {"idle", "prepare", "fetch"}
    PROVE  FetchInv'
  <1>1. SteadyRunsLoseNothing'
    BY SamePastKeepsFetch DEF FetchInv, FetchShaped
  <1>2. FetchShaped'
    BY DEF FetchInv, FetchShaped, RowsShaped
  <1>3. RowsFetched' /\ RowsDelivered'
    BY DEF RowsFetched, RowsDelivered
  <1> QED BY <1>1, <1>2, <1>3 DEF FetchInv

LEMMA NoFetchRests ==
    /\ DOMAIN NoFetch = FetchFields /\ NoFetch.at = 0 /\ RowsShaped(NoFetch.rows) /\ NoFetch.pc = "idle"
    /\ NoFetch.rows = {} /\ ~NoFetch.lost
  BY DEF NoFetch, FetchFields, RowsShaped

LEMMA AbandonedKeepsFetch ==
    ASSUME FetchInv, UNCHANGED <<task, now, changed, seenUpTo>>, steady' => steady, run' = NoFetch,
           sent' \in [SapRecord -> Nat], \A r \in SapRecord : sent[r] <= sent'[r]
    PROVE  FetchInv'
  <1>1. 0 <= now
    BY DEF FetchInv, FetchShaped
  <1> QED BY <1>1, NoFetchRests, RestingKeepsFetch

LEMMA ClockKeepsFetch ==
    ASSUME FetchInv, Tick \/ \E r \in SapRecord : SapChanges(r)
    PROVE  FetchInv'
  <1>1. UNCHANGED <<task, sent, run, seenUpTo, steady>> /\ now' \in Nat /\ now <= now'
        /\ changed' \in [SapRecord -> Nat]
        /\ \A r \in SapRecord : changed'[r] = changed[r] \/ (changed'[r] >= now /\ changed'[r] <= now')
    BY DEF Tick, SapChanges, FetchInv, FetchShaped
  <1>2. SteadyRunsLoseNothing'
    BY <1>1, SamePastKeepsFetch DEF FetchInv, FetchShaped
  <1>3. FetchShaped'
    BY <1>1 DEF FetchInv, FetchShaped
  <1>4. \A r \in SapRecord : Asked(r)' => changed'[r] = changed[r] /\ Asked(r)
    BY <1>1 DEF Asked, FetchInv, FetchShaped
  <1>5. RowsFetched' /\ RowsDelivered'
    BY <1>1, <1>4 DEF FetchInv, RowsFetched, RowsDelivered
  <1> QED BY <1>2, <1>3, <1>5 DEF FetchInv

LEMMA WindowShaped ==
    ASSUME FetchShaped, NEW at
    PROVE  RowsShaped(Window(task, at))
  BY DEF FetchShaped, Window, RowsShaped

LEMMA AnswersAreOfTheWindow ==
    ASSUME FetchShaped, NEW rows \in FetchAnswers
    PROVE  rows \in {Window(task, run.at), NoData} /\ RowsShaped(rows)
  <1>1. rows \in {Window(task, run.at), NoData}
    BY DEF FetchAnswers
  <1> QED BY <1>1, WindowShaped DEF RowsShaped, NoData

\* The steps that read.
LEMMA ReadingKeepsFetch ==
    ASSUME FetchInv, FinishEmptySync \/ FetchData \/ EnrichRows
    PROVE  FetchInv'
  <1>1. UNCHANGED <<task, now, changed, sent, seenUpTo, steady>>
    BY DEF FinishEmptySync, FetchData, EnrichRows, InRun
  <1>2. SteadyRunsLoseNothing'
    BY <1>1, SamePastKeepsFetch DEF FetchInv, FetchShaped
  <1>3. CASE FinishEmptySync
    <2>1. run' = [run EXCEPT !.pc = "settle", !.lost = (Window(task, run.at) # {})]
      BY <1>3 DEF FinishEmptySync
    <2>2. DOMAIN run' = FetchFields /\ run'.pc = "settle" /\ run'.at = run.at /\ run'.rows = run.rows
          /\ (~run'.lost => Window(task, run.at) = {})
      BY <2>1 DEF FetchInv, FetchShaped, FetchFields
    <2>3. Window(task, run.at) = {} => \A r \in SapRecord : ~Asked(r)
      BY DEF Window, Asked
    <2>4. FetchShaped'
      BY <1>1, <2>2 DEF FetchInv, FetchShaped
    <2>5. RowsFetched' /\ RowsDelivered'
      BY <1>1, <2>2, <2>3 DEF RowsFetched, RowsDelivered, Asked
    <2> QED BY <1>2, <2>4, <2>5 DEF FetchInv
  <1>4. CASE FetchData
    <2>1. PICK rows \in FetchAnswers \ {NoData} :
            run' = [run EXCEPT !.pc = "enrich", !.rows = Mapped(rows), !.lost = (Mapped(rows) # rows)]
      BY <1>4 DEF FetchData
    <2>2. DOMAIN run' = FetchFields /\ run'.pc = "enrich" /\ run'.at = run.at /\ run'.rows = Mapped(rows)
          /\ (~run'.lost => Mapped(rows) = rows)
      BY <2>1 DEF FetchInv, FetchShaped, FetchFields
    <2>3. rows = Window(task, run.at) /\ RowsShaped(rows)
      BY <2>1, AnswersAreOfTheWindow DEF FetchInv
    <2>4. RowsShaped(Mapped(rows))
      BY <2>3 DEF Mapped, RowsShaped
    <2>5. FetchShaped'
      BY <1>1, <2>2, <2>4 DEF FetchInv, FetchShaped
    <2>6. \A r \in SapRecord : Asked(r) => [record |-> r, change |-> changed[r]] \in Window(task, run.at)
      BY DEF Window, Asked
    <2>7. RowsFetched' /\ RowsDelivered'
      BY <1>1, <2>2, <2>3, <2>6 DEF RowsFetched, RowsDelivered, Asked
    <2> QED BY <1>2, <2>5, <2>7 DEF FetchInv
  <1>5. CASE EnrichRows
    <2>1. run.pc = "enrich" /\ run' = [run EXCEPT !.pc = "send"]
      BY <1>5 DEF EnrichRows
    <2>2. DOMAIN run' = FetchFields /\ run'.pc = "send" /\ run'.at = run.at /\ run'.rows = run.rows
          /\ run'.lost = run.lost
      BY <2>1 DEF FetchInv, FetchShaped, FetchFields
    <2>3. FetchShaped'
      BY <1>1, <2>2 DEF FetchInv, FetchShaped
    <2>4. RowsFetched' /\ RowsDelivered'
      BY <1>1, <2>1, <2>2 DEF FetchInv, RowsFetched, RowsDelivered, Asked
    <2> QED BY <1>2, <2>3, <2>4 DEF FetchInv
  <1> QED BY <1>3, <1>4, <1>5

\* What DeliverRows leaves: nothing gets older, and what it writes is there.
LEMMA Delivers ==
    ASSUME FetchShaped, NEW rows \in SUBSET run.rows, DeliverRows(rows)
    PROVE  /\ sent' \in [SapRecord -> Nat] /\ \A r \in SapRecord : sent[r] <= sent'[r]
           /\ \A row \in rows : row.change <= sent'[row.record]
  <1> DEFINE Found(r) == {sent[r]} \cup {row.change : row \in {w \in rows : w.record = r}}
  <1>1. ASSUME NEW r \in SapRecord
        PROVE  Max(Found(r)) \in Nat /\ \A c \in Found(r) : c <= Max(Found(r))
    <2>1. sent[r] \in Nat /\ Found(r) \subseteq Nat
      BY DEF FetchShaped, RowsShaped
    <2>2. \E x \in Found(r) : \A y \in Found(r) : x >= y
      <3>1. CASE \E a \in rows : a.record = r
        <4>1. PICK a \in rows : a.record = r
          BY <3>1
        <4>2. \A c \in Found(r) : c \in {sent[r], a.change}
          BY <4>1 DEF FetchShaped, RowsShaped
        <4>3. a.change \in Nat /\ a.change \in Found(r) /\ sent[r] \in Found(r)
          BY <4>1 DEF FetchShaped, RowsShaped
        <4>4. sent[r] >= a.change \/ a.change >= sent[r]
          BY <2>1, <4>3
        <4>5. sent[r] >= sent[r] /\ a.change >= a.change
          BY <2>1, <4>3
        <4> HIDE DEF Found
        <4> QED BY <4>2, <4>3, <4>4, <4>5
      <3>2. CASE ~\E a \in rows : a.record = r
        <4>1. \A c \in Found(r) : c = sent[r]
          BY <3>2
        <4> QED BY <2>1, <4>1
      <3> QED BY <3>1, <3>2
    <2> HIDE DEF Found
    <2> QED BY <2>1, <2>2 DEF Max
  <1>2. sent' = [r \in SapRecord |-> Max(Found(r))]
    BY DEF DeliverRows
  <1>3. \A r \in SapRecord : sent[r] \in Found(r) /\ \A row \in rows : row.record = r => row.change \in Found(r)
    OBVIOUS
  <1>4. \A row \in rows : row.record \in SapRecord
    BY DEF FetchShaped, RowsShaped
  <1> HIDE DEF Found
  <1> QED BY <1>1, <1>2, <1>3, <1>4

\* sendMappedRecords: what is told as complete has brought all rows.
LEMMA SendingKeepsFetch ==
    ASSUME FetchInv, Send PROVE FetchInv'
  <1>1. PICK rows \in SUBSET run.rows :
          /\ DeliverRows(rows)
          /\ run' = [run EXCEPT !.pc = "report", !.rows = rows,
                                !.lost = (run.lost \/ rows # run.rows)]
    BY DEF Send
  <1>2. UNCHANGED <<task, now, changed, seenUpTo, steady>> /\ run.pc = "send"
    BY DEF Send, InRun
  <1>3. /\ sent' \in [SapRecord -> Nat] /\ \A r \in SapRecord : sent[r] <= sent'[r]
        /\ \A row \in rows : row.change <= sent'[row.record]
    BY <1>1, Delivers DEF FetchInv
  <1>4. DOMAIN run' = FetchFields /\ run'.pc = "report" /\ run'.at = run.at /\ run'.rows = rows
        /\ (~run'.lost => ~run.lost /\ rows = run.rows)
    BY <1>1 DEF FetchInv, FetchShaped, FetchFields
  <1>5. SteadyRunsLoseNothing'
    BY <1>2, <1>3, SamePastKeepsFetch DEF FetchInv, FetchShaped
  <1>6. FetchShaped'
    BY <1>2, <1>3, <1>4 DEF FetchInv, FetchShaped, RowsShaped
  <1>7. ASSUME ~run'.lost, NEW r \in SapRecord, Asked(r)
        PROVE  changed[r] <= sent'[r]
    <2>1. [record |-> r, change |-> changed[r]] \in rows
      BY <1>2, <1>4, <1>7 DEF FetchInv, RowsFetched
    <2> QED BY <1>3, <2>1
  <1>8. RowsFetched' /\ RowsDelivered'
    BY <1>2, <1>4, <1>7 DEF RowsFetched, RowsDelivered, Asked
  <1> QED BY <1>5, <1>6, <1>8 DEF FetchInv

\* The target throws: nothing is told as delivered.
LEMMA ThrowingKeepsFetch ==
    ASSUME FetchInv, SendThrows PROVE FetchInv'
  <1>1. PICK rows \in SUBSET run.rows :
           /\ DeliverRows(rows)
           /\ \/ /\ run' = [run EXCEPT !.pc = "report", !.rows = rows, !.lost = TRUE]
                 /\ UNCHANGED <<lastError, seenUpTo, steady>>
              \/ Catches
    BY DEF SendThrows
  <1>2. UNCHANGED <<task, now, changed>>
    BY DEF SendThrows, InRun
  <1>3. sent' \in [SapRecord -> Nat] /\ \A r \in SapRecord : sent[r] <= sent'[r]
    BY <1>1, Delivers DEF FetchInv
  <1>4. CASE Catches
    BY <1>2, <1>3, <1>4, AbandonedKeepsFetch DEF Catches, Spoils
  <1>5. CASE run' = [run EXCEPT !.pc = "report", !.rows = rows, !.lost = TRUE] /\ UNCHANGED <<seenUpTo, steady>>
    <2>1. DOMAIN run' = FetchFields /\ run'.at = run.at /\ run'.rows = rows /\ run'.lost
      BY <1>5 DEF FetchInv, FetchShaped, FetchFields
    <2>2. RowsShaped(run'.rows) /\ run'.at \in Nat /\ run'.at <= now
      BY <2>1 DEF FetchInv, FetchShaped, RowsShaped
    <2> QED BY <1>2, <1>3, <1>5, <2>1, <2>2, RestingKeepsFetch
  <1> QED BY <1>1, <1>4, <1>5

\* A clean run moves the mark: what it missed of the changes since the last is around midnight.
LEMMA CleanRunKeepsFetch ==
    ASSUME FetchInv, MarkSyncSucceeded PROVE FetchInv'
  <1>1. /\ run.pc = "settle" /\ run' = NoFetch /\ UNCHANGED <<task, now, changed, sent>>
        /\ steady' = (steady /\ ~run.lost /\ (task.mode = "FULL" \/ run.at - seenUpTo <= task.interval))
        /\ seenUpTo' = IF run.lost THEN seenUpTo ELSE run.at
    BY DEF MarkSyncSucceeded, CleanRun, InRun
  <1>2. CASE run.lost
    <2>1. (steady' => steady) /\ UNCHANGED seenUpTo
      BY <1>1, <1>2
    <2>2. sent' \in [SapRecord -> Nat] /\ \A r \in SapRecord : sent[r] <= sent'[r]
      BY <1>1 DEF FetchInv, FetchShaped
    <2> QED BY <1>1, <2>1, <2>2, AbandonedKeepsFetch
  <1>3. CASE ~run.lost
    <2>1. seenUpTo' = run.at /\ run.at \in Nat /\ run.at <= now /\ seenUpTo \in Nat /\ task \in Tasks
      BY <1>1, <1>3 DEF FetchInv, FetchShaped
    <2>2. FetchShaped' /\ RowsFetched' /\ RowsDelivered'
      BY <1>1, <2>1, NoFetchRests DEF FetchInv, FetchShaped, RowsFetched, RowsDelivered
    <2>3. ASSUME steady' \/ (Conditions(task) = {} /\ ~Silent(task)), ~DayBlind(task),
                 NEW r \in SapRecord, changed[r] < run.at, sent[r] < changed[r]
          PROVE  Conditions(task) # {} /\ AroundMidnight(task, changed[r])
      <3>1. changed[r] \in Nat /\ sent[r] \in Nat
        BY DEF FetchInv, FetchShaped
      <3>2. ~InWindow(task, run.at, changed[r])
        BY <1>1, <1>3, <2>3, <3>1 DEF FetchInv, RowsDelivered, Asked
      <3>3. CASE changed[r] < seenUpTo
        <4>1. steady \/ (Conditions(task) = {} /\ ~Silent(task))
          BY <1>1, <2>3
        <4> QED BY <2>3, <3>3, <4>1 DEF FetchInv, SteadyRunsLoseNothing
      <3>4. CASE ~(changed[r] < seenUpTo)
        <4>1. CASE Conditions(task) = {}
          BY <3>2, <4>1 DEF InWindow
        <4>2. CASE Conditions(task) # {}
          <5>1. task.mode = "FULL" \/ run.at - seenUpTo <= task.interval
            BY <1>1, <2>3, <4>2
          <5>2. task.mode = "FULL" \/ (task.interval \in Nat /\ run.at - task.interval <= changed[r])
            <6>1. task.interval \in Nat
              BY <2>1, TasksAssumption, FetchBounds DEF Task
            <6> QED BY <2>1, <3>1, <3>4, <5>1, <6>1
          <5> QED BY <2>1, <2>3, <3>1, <3>2, <5>2, MissesAroundMidnight
        <4> QED BY <4>1, <4>2
      <3> QED BY <3>3, <3>4
    <2>4. SteadyRunsLoseNothing'
      BY <1>1, <2>1, <2>3 DEF SteadyRunsLoseNothing
    <2> QED BY <2>2, <2>4 DEF FetchInv
  <1> QED BY <1>2, <1>3

\* The steps that begin a run, give it up, or settle its log.
LEMMA OtherStepsKeepFetch ==
    ASSUME FetchInv,
           \/ AdminRepairs \/ StartSync \/ PrepareFails \/ BuildOptions \/ FetchFails \/ NoCredentials
           \/ EnrichFails \/ Report \/ BookkeepingFails \/ FetchCrash
    PROVE  FetchInv'
  <1>1. sent' = sent /\ UNCHANGED <<task, now, changed>>
    BY DEF AdminRepairs, StartSync, PrepareFails, BuildOptions, FetchFails, NoCredentials,
           EnrichFails, Report, BookkeepingFails, FetchCrash, InRun
  <1>2. sent' \in [SapRecord -> Nat] /\ \A r \in SapRecord : sent[r] <= sent'[r]
    BY <1>1 DEF FetchInv, FetchShaped
  <1>3. CASE PrepareFails \/ FetchFails \/ NoCredentials \/ EnrichFails \/ BookkeepingFails \/ FetchCrash
    <2>1. run' = NoFetch /\ Spoils
      BY <1>3 DEF PrepareFails, FetchFails, NoCredentials, EnrichFails, BookkeepingFails, FetchCrash, Catches
    <2> QED BY <1>1, <1>2, <2>1, AbandonedKeepsFetch DEF Spoils
  <1>4. CASE AdminRepairs
    <2>1. UNCHANGED <<run, seenUpTo, steady>>
      BY <1>4 DEF AdminRepairs
    <2> QED BY <1>1, <2>1 DEF FetchInv, FetchShaped, RowsFetched, RowsDelivered, SteadyRunsLoseNothing, Asked
  <1>5. CASE StartSync \/ BuildOptions
    <2>1. UNCHANGED <<seenUpTo, steady>>
      BY <1>5 DEF StartSync, BuildOptions
    <2>2. /\ DOMAIN run' = FetchFields /\ run'.at = now /\ RowsShaped(run'.rows)
          /\ run'.pc \in {"prepare", "fetch"}
      BY <1>5 DEF StartSync, BuildOptions, NoFetch, FetchFields, FetchInv, FetchShaped, RowsShaped
    <2>3. now \in Nat /\ now <= now
      BY DEF FetchInv, FetchShaped
    <2> QED BY <1>1, <1>2, <2>1, <2>2, <2>3, RestingKeepsFetch
  <1>6. CASE Report
    <2>1. UNCHANGED <<seenUpTo, steady>> /\ run.pc = "report" /\ run' = [run EXCEPT !.pc = "settle"]
      BY <1>6 DEF Report
    <2>2. /\ DOMAIN run' = FetchFields /\ run'.at = run.at /\ run'.rows = run.rows
          /\ run'.pc = "settle" /\ run'.lost = run.lost
      BY <2>1 DEF FetchInv, FetchShaped, FetchFields
    <2>3. FetchShaped'
      BY <1>1, <2>1, <2>2 DEF FetchInv, FetchShaped
    <2>4. RowsFetched' /\ RowsDelivered' /\ SteadyRunsLoseNothing'
      BY <1>1, <2>1, <2>2 DEF FetchInv, RowsFetched, RowsDelivered, Asked, SteadyRunsLoseNothing
    <2> QED BY <2>3, <2>4 DEF FetchInv
  <1> QED BY <1>3, <1>4, <1>5, <1>6

\* For every set of records, configs and day length, any number of changes and mishaps: runs
\* that are clean and follow each other within the interval leave no older change behind, but
\* around midnight (SyncSapConfigToHubspot and the filters of serviceLayerUrlBuilder).
THEOREM SteadyRunsAreComplete == FetchSpec => []SteadyRunsLoseNothing
  <1>1. FetchInit => FetchInv
    <2> SUFFICES ASSUME FetchInit PROVE FetchInv
      OBVIOUS
    <2>1. FetchShaped
      BY NoFetchRests DEF FetchInit, FetchShaped, RowsShaped
    <2>2. RowsFetched /\ RowsDelivered
      BY NoFetchRests DEF FetchInit, RowsFetched, RowsDelivered
    <2>3. SteadyRunsLoseNothing
      BY DEF FetchInit, SteadyRunsLoseNothing
    <2> QED BY <2>1, <2>2, <2>3 DEF FetchInv
  <1>2. FetchInv /\ [FetchNext]_fetchVars => FetchInv'
    <2> SUFFICES ASSUME FetchInv, [FetchNext]_fetchVars PROVE FetchInv'
      OBVIOUS
    <2>1. CASE FetchNext
      BY <2>1, ClockKeepsFetch, ReadingKeepsFetch, SendingKeepsFetch, ThrowingKeepsFetch,
         CleanRunKeepsFetch, OtherStepsKeepFetch DEF FetchNext
    <2>2. CASE UNCHANGED fetchVars
      BY <2>2 DEF fetchVars, FetchInv, FetchShaped, RowsFetched, RowsDelivered, Asked, SteadyRunsLoseNothing
    <2> QED BY <2>1, <2>2
  <1>3. FetchInv => SteadyRunsLoseNothing
    BY DEF FetchInv
  <1> QED BY <1>1, <1>2, <1>3, PTL DEF FetchSpec

-----------------------------------------------------------------------------
(* ProductStock.  A batch that a run has not read, or a product whose       *)
(* batches it did read, is not blanked: what is attached as a product's     *)
(* batches is blank only if the rows in hand hold none of it.               *)

RunFieldsOfStock ==
    {"pc", "waiting", "read", "seen", "stock", "rows", "dates", "day", "lot", "failed"}

\* No row counts for the batches of product i.
NoneOf(i, rows) ==
    \A c \in DOMAIN rows :
        c.item = i => (c.batch = NoBatch \/ c.special \/ c.type \notin setup.batches.types)

LotsFromRows(r) ==
    /\ r.rows.present => \A c \in DOMAIN r.rows.of : InScope(c)
    /\ r.lot.present =>
         /\ r.rows.present /\ r.dates.present
         /\ \A i \in Items : r.lot.of[i].blank => NoneOf(i, r.rows.of)

StockInv == DOMAIN enrich = RunFieldsOfStock /\ LotsFromRows(enrich)

LEMMA SummaryBlank ==
    ASSUME NEW stock, NEW date, Summary(stock, date).blank
    PROVE  DOMAIN stock = {}
  BY DEF Summary, Blank

LEMMA BlankSummaries ==
    ASSUME NEW rows, NEW dates, NEW i \in Items, \A c \in DOMAIN rows : InScope(c),
           LotSummaries(rows, dates)[i].blank
    PROVE  NoneOf(i, rows)
  <1> DEFINE own == {c \in DOMAIN rows : /\ c.item = i /\ c.batch # NoBatch /\ ~c.special
                                         /\ c.type \in setup.batches.types /\ InScope(c)}
             stock == LotsOf(rows, i)
  <1>1. LotSummaries(rows, dates)[i] = Summary(stock, [b \in DOMAIN stock |-> dates[<<i, b>>]])
    BY DEF LotSummaries
  <1>2. DOMAIN stock = {}
    BY <1>1, SummaryBlank
  <1>3. DOMAIN stock = {c.batch : c \in own}
    BY DEF LotsOf
  <1>4. own = {}
    BY <1>2, <1>3
  <1> QED BY <1>4 DEF NoneOf

\* A run that keeps its rows, dates and batches.
LEMMA SameRowsKeepStock ==
    ASSUME StockInv, UNCHANGED setup, DOMAIN enrich' = RunFieldsOfStock,
           enrich'.lot = enrich.lot, enrich'.rows = enrich.rows, enrich'.dates = enrich.dates
    PROVE  StockInv'
  <1>1. \A c : InScope(c)' <=> InScope(c)
    BY DEF InScope
  <1>2. ASSUME enrich'.lot.present, NEW i \in Items, enrich'.lot.of[i].blank
        PROVE  NoneOf(i, enrich.rows.of)'
    <2>1. NoneOf(i, enrich.rows.of)
      BY <1>2 DEF StockInv, LotsFromRows
    <2> QED BY <2>1 DEF NoneOf
  <1>3. LotsFromRows(enrich)'
    BY <1>1, <1>2 DEF StockInv, LotsFromRows
  <1> QED BY <1>3 DEF StockInv

LEMMA RestingStock == DOMAIN Resting = RunFieldsOfStock /\ ~Resting.rows.present /\ ~Resting.lot.present
  BY DEF Resting, Absent, RunFieldsOfStock

LEMMA ReadingKeepsStock ==
    ASSUME StockInv, ConfigUnread \/ UnknownStrategy \/ FetchStock \/ AttachStock \/ WriteProducts
    PROVE  StockInv'
  <1>1. UNCHANGED setup
    BY DEF ConfigUnread, UnknownStrategy, FetchStock, AttachStock, WriteProducts, SapRests
  <1>2. PICK pc, waiting, read, seen, stock, failed :
          enrich' = [enrich EXCEPT !.pc = pc, !.waiting = waiting, !.read = read, !.seen = seen,
                                   !.stock = stock, !.failed = failed]
    <2> USE DEF StockInv, RunFieldsOfStock
    <2>1. CASE ConfigUnread
      <3>1. enrich' = [enrich EXCEPT !.stock = Attached(Nothing), !.pc = "batches",
                                     !.failed = @ \union {"config"}]
        BY <2>1 DEF ConfigUnread
      <3>2. enrich' = [enrich EXCEPT !.pc = "batches", !.waiting = enrich.waiting, !.read = enrich.read,
                         !.seen = enrich.seen, !.stock = Attached(Nothing),
                         !.failed = enrich.failed \union {"config"}]
        BY <3>1
      <3> QED BY <3>2
    <2>2. ASSUME StockFails
          PROVE  enrich' = [enrich EXCEPT !.pc = "batches", !.waiting = enrich.waiting, !.read = enrich.read,
                              !.seen = enrich.seen, !.stock = enrich.stock,
                              !.failed = enrich.failed \union {"stock"}]
      BY <2>2 DEF StockFails
    <2>3. ASSUME StockFails
          PROVE  \E pc, waiting, read, seen, stock, failed :
                   enrich' = [enrich EXCEPT !.pc = pc, !.waiting = waiting, !.read = read, !.seen = seen,
                                            !.stock = stock, !.failed = failed]
      <3>1. enrich' = [enrich EXCEPT !.pc = "batches", !.waiting = enrich.waiting, !.read = enrich.read,
                              !.seen = enrich.seen, !.stock = enrich.stock,
                              !.failed = enrich.failed \union {"stock"}]
        BY <2>2, <2>3
      <3> QED BY <3>1
    <2>4. CASE FetchStock
      <3>1. CASE StockFails
        BY <2>3, <3>1
      <3>2. CASE \E p \in enrich.waiting :
                   enrich' = [enrich EXCEPT !.waiting = @ \ {p},
                                !.read = @ @@ Fetched(p, TargetLocations(p)),
                                !.seen = @ @@ Fetched(p, Locations)]
        <4>1. PICK p, read, seen :
                   enrich' = [enrich EXCEPT !.waiting = @ \ {p}, !.read = read, !.seen = seen]
          BY <3>2
        <4>2. enrich' = [enrich EXCEPT !.pc = enrich.pc, !.waiting = enrich.waiting \ {p}, !.read = read,
                           !.seen = seen, !.stock = enrich.stock, !.failed = enrich.failed]
          BY <4>1
        <4> QED BY <4>2
      <3> QED BY <2>4, <3>1, <3>2 DEF FetchStock
    <2>5. CASE AttachStock
      <3>1. PICK values : enrich' = [enrich EXCEPT !.stock = values, !.pc = "batches"]
        BY <2>5 DEF AttachStock
      <3>2. enrich' = [enrich EXCEPT !.pc = "batches", !.waiting = enrich.waiting, !.read = enrich.read,
                         !.seen = enrich.seen, !.stock = values, !.failed = enrich.failed]
        BY <3>1
      <3> QED BY <3>2
    <2>6. CASE WriteProducts
      <3>1. enrich' = [enrich EXCEPT !.pc = "written"]
        BY <2>6 DEF WriteProducts
      <3>2. enrich' = [enrich EXCEPT !.pc = "written", !.waiting = enrich.waiting, !.read = enrich.read,
                         !.seen = enrich.seen, !.stock = enrich.stock, !.failed = enrich.failed]
        BY <3>1
      <3> QED BY <3>2
    <2> QED BY <2>1, <2>3, <2>4, <2>5, <2>6 DEF UnknownStrategy
  <1>3. DOMAIN enrich' = RunFieldsOfStock /\ enrich'.lot = enrich.lot /\ enrich'.rows = enrich.rows
        /\ enrich'.dates = enrich.dates
    BY <1>2 DEF StockInv, RunFieldsOfStock
  <1> QED BY <1>1, <1>3, SameRowsKeepStock

LEMMA BatchesKeepStock ==
    ASSUME StockInv, FetchBatches \/ AttachBatches
    PROVE  StockInv'
  <1> USE DEF StockInv, RunFieldsOfStock
  <1>1. UNCHANGED setup
    BY DEF FetchBatches, AttachBatches, SapRests
  <1>2. \A c : InScope(c)' <=> InScope(c)
    BY <1>1 DEF InScope
  <1>3. CASE FetchBatches
    <2>1. CASE \E pc, failed : enrich' = [enrich EXCEPT !.failed = failed, !.pc = pc]
      <3>1. DOMAIN enrich' = RunFieldsOfStock /\ enrich'.lot = enrich.lot /\ enrich'.rows = enrich.rows
            /\ enrich'.dates = enrich.dates
        BY <2>1
      <3> QED BY <1>1, <3>1, SameRowsKeepStock
    <2>2. CASE /\ ~enrich.rows.present
               /\ enrich' = [enrich EXCEPT !.rows = Attached(
                     [c \in {c \in S4Cells : onHand[c] > 0 /\ InScope(c)} |-> onHand[c]])]
      <3> DEFINE lotRows == [c \in {c \in S4Cells : onHand[c] > 0 /\ InScope(c)} |-> onHand[c]]
      <3>0. \A c \in DOMAIN lotRows : InScope(c)
        OBVIOUS
      <3> HIDE DEF lotRows
      <3>1. PICK rows : /\ enrich' = [enrich EXCEPT !.rows = [present |-> TRUE, of |-> rows]]
                        /\ \A c \in DOMAIN rows : InScope(c)
        BY <2>2, <3>0 DEF Attached, lotRows
      <3>2. DOMAIN enrich' = RunFieldsOfStock /\ enrich'.lot = enrich.lot
            /\ enrich'.rows = [present |-> TRUE, of |-> rows]
        BY <3>1
      <3>3. ~enrich.lot.present
        BY <2>2 DEF LotsFromRows
      <3> QED BY <1>2, <3>1, <3>2, <3>3 DEF LotsFromRows
    <2>3. CASE /\ ~enrich.dates.present /\ enrich' = [enrich EXCEPT !.dates = Attached(shelfLife)]
      <3>1. DOMAIN enrich' = RunFieldsOfStock /\ enrich'.lot = enrich.lot /\ enrich'.rows = enrich.rows
        BY <2>3
      <3>2. ~enrich.lot.present
        BY <2>3 DEF LotsFromRows
      <3> QED BY <1>2, <3>1, <3>2 DEF LotsFromRows
    <2> QED BY <1>3, <2>1, <2>2, <2>3 DEF FetchBatches, BatchesFail
  <1>4. CASE AttachBatches
    <2>1. CASE enrich' = [enrich EXCEPT !.pc = "write"]
      <3>1. DOMAIN enrich' = RunFieldsOfStock /\ enrich'.lot = enrich.lot /\ enrich'.rows = enrich.rows
            /\ enrich'.dates = enrich.dates
        BY <2>1
      <3> QED BY <1>1, <3>1, SameRowsKeepStock
    <2>2. CASE /\ enrich.rows.present /\ enrich.dates.present
               /\ enrich' = [enrich EXCEPT !.pc = "write", !.day = today,
                               !.lot = Attached(LotSummaries(enrich.rows.of, enrich.dates.of))]
      <3>1. PICK lot : /\ enrich' = [enrich EXCEPT !.pc = "write", !.day = today,
                                                   !.lot = [present |-> TRUE, of |-> lot]]
                       /\ lot = LotSummaries(enrich.rows.of, enrich.dates.of)
        BY <2>2 DEF Attached
      <3>2. DOMAIN enrich' = RunFieldsOfStock /\ enrich'.lot = [present |-> TRUE, of |-> lot]
            /\ enrich'.rows = enrich.rows /\ enrich'.dates = enrich.dates
        BY <3>1
      <3>3. \A c \in DOMAIN enrich.rows.of : InScope(c)
        BY <2>2 DEF LotsFromRows
      <3>4. \A i \in Items : lot[i].blank => NoneOf(i, enrich.rows.of)
        BY <3>1, <3>3, BlankSummaries
      <3>5. ASSUME NEW i \in Items, lot[i].blank PROVE NoneOf(i, enrich.rows.of)'
        <4>1. NoneOf(i, enrich.rows.of)
          BY <3>4, <3>5
        <4> QED BY <1>1, <3>2, <4>1 DEF NoneOf
      <3> QED BY <1>2, <2>2, <3>2, <3>3, <3>5 DEF LotsFromRows
    <2> QED BY <1>4, <2>1, <2>2 DEF AttachBatches
  <1> QED BY <1>3, <1>4

LEMMA StockStepKeeps ==
    ASSUME StockInv, [StockNext]_stockVars PROVE StockInv'
  <1>1. CASE Move \/ NextDay \/ UNCHANGED stockVars
    <2>1. UNCHANGED <<setup, enrich>>
      BY <1>1 DEF Move, NextDay, stockVars
    <2> QED BY <2>1, SameRowsKeepStock DEF StockInv
  <1>2. CASE ReadProducts
    <2>1. UNCHANGED setup /\ \E waiting, read : enrich' = [Resting EXCEPT !.pc = "stock",
                                                   !.waiting = waiting, !.read = read]
      BY <1>2 DEF ReadProducts, SapRests
    <2>2. DOMAIN enrich' = RunFieldsOfStock /\ ~enrich'.rows.present /\ ~enrich'.lot.present
      BY <2>1, RestingStock DEF RunFieldsOfStock
    <2> QED BY <2>2 DEF StockInv, LotsFromRows
  <1>3. CASE FinishProducts
    BY <1>3, RestingStock DEF FinishProducts, StockInv, LotsFromRows
  <1> QED BY <1>1, <1>2, <1>3, ReadingKeepsStock, BatchesKeepStock DEF StockNext

\* What a step of BlankedOnlyWhenNoneRead may do.
BlanksOnlyNone ==
    \A i \in Items : (lots'[i].blank /\ ~lots[i].blank) =>
        enrich.rows.present /\ enrich.dates.present /\ NoneOf(i, enrich.rows.of)

LEMMA OnlyNoneIsBlanked ==
    ASSUME StockInv, [StockNext]_stockVars PROVE BlanksOnlyNone
  <1>1. CASE WriteProducts
    <2>1. lots' = [i \in Items |-> WrittenLots(i)]
      BY <1>1 DEF WriteProducts
    <2> QED BY <2>1 DEF WrittenLots, BlanksOnlyNone, StockInv, LotsFromRows
  <1>2. CASE ~WriteProducts
    <2>1. lots' = lots
      BY <1>2 DEF StockNext, Move, NextDay, ReadProducts, ConfigUnread, UnknownStrategy, FetchStock,
         AttachStock, FetchBatches, AttachBatches, FinishProducts, HubspotRests, stockVars
    <2> QED BY <2>1 DEF BlanksOnlyNone
  <1> QED BY <1>1, <1>2

\* For every configuration, any products, stock and faults: the batches a product shows are
\* blanked only by a run that read them and found none (BatchExpiryEnrichmentAdapter).
THEOREM BatchesAreBlankedWhenRead == StockSpec => BlankedOnlyWhenNoneRead
  <1>1. StockInit => StockInv
    BY RestingStock DEF StockInit, StockInv, LotsFromRows
  <1>2. StockInv /\ [StockNext]_stockVars => StockInv'
    BY StockStepKeeps
  <1>3. StockInv /\ [StockNext]_stockVars =>
          [\A i \in Items : (lots'[i].blank /\ ~lots[i].blank) =>
              /\ enrich.rows.present /\ enrich.dates.present
              /\ \A c \in DOMAIN enrich.rows.of :
                    c.item = i => (c.batch = NoBatch \/ c.special \/ c.type \notin setup.batches.types)
          ]_stockVars
    BY OnlyNoneIsBlanked DEF BlanksOnlyNone, NoneOf
  <1> QED BY <1>1, <1>2, <1>3, PTL DEF StockSpec, BlankedOnlyWhenNoneRead

-----------------------------------------------------------------------------
(* Sequences and their least items. *)

\* A set of numbers that is not empty has a least one.  It stands for induction: the subsets of a
\* finite set are well-founded under inclusion, the intervals from 0 among them.
LEMMA Least == ASSUME NEW T, T \subseteq Nat, T # {}
               PROVE  \E x \in T : \A y \in T : x <= y
<1>1. PICK m \in T : TRUE
  OBVIOUS
<1> PICK S : S = 0 .. m
  OBVIOUS
<1>2. IsFiniteSet(S)
  BY <1>1, FS_Interval
<1>3. IsWellFoundedOn(StrictSubsetOrdering(S), FiniteSubsetsOf(S))
  BY FS_StrictSubsetOrderingWellFounded
<1> PICK C : C = {0 .. x : x \in {t \in T : t <= m}}
  OBVIOUS
<1>4. C # {} /\ C \subseteq FiniteSubsetsOf(S)
  <2>1. C # {}
    BY <1>1
  <2>2. FiniteSubsetsOf(S) = SUBSET S
    BY <1>2, FS_FiniteSubsetsOfFinite
  <2>3. \A x \in T : x <= m => 0 .. x \subseteq S
    BY <1>1
  <2>4. C \subseteq SUBSET S
    BY <2>3
  <2> QED
    BY <2>1, <2>2, <2>4
<1>5. \E x \in C : \A y \in C : ~(<<y, x>> \in StrictSubsetOrdering(S))
  BY <1>3, <1>4, WFMin
<1>6. PICK x \in T : x <= m /\ \A y \in C : ~(<<y, 0 .. x>> \in StrictSubsetOrdering(S))
  BY <1>5
<1>7. ASSUME NEW y \in T, y < x PROVE FALSE
  <2>1. 0 .. y \in C
    BY <1>1, <1>6, <1>7
  <2>2. 0 .. y \subseteq 0 .. x /\ 0 .. y # 0 .. x
    BY <1>7
  <2>3. (0 .. y) \in SUBSET S /\ (0 .. x) \in SUBSET S
    BY <1>1, <1>6, <1>7
  <2> QED
    BY <1>6, <2>1, <2>2, <2>3 DEF StrictSubsetOrdering
<1> QED
  BY <1>6, <1>7

-----------------------------------------------------------------------------
(* ProductBatches: what the registry says of a product.  RegistryPointsHome is not  *)
(* inductive: it needs that what a chunk has in hand is a product of HubSpot's with *)
(* the sku of the chunk's row (HandOf, HandsAreProducts), and that a run is over    *)
(* only when nothing is in hand any more (RunShaped).                               *)

Product4 == {"id", "sku", "price", "stocked"}
ProductsShaped == \A p \in products : DOMAIN p = Product4 /\ p.id \in 1 .. MaxIds
MadeAreThere == made \subseteq Ids

\* What a chunk has in hand has the sku of one of its rows: of the one at work, one by one.
HandOf(chunk) ==
    \/ chunk.results = {}
    \/ /\ chunk.pc = "register"
       /\ \A p \in chunk.results : \E i \in DOMAIN chunk.rows : sku[chunk.rows[i]] = p.sku
    \/ /\ chunk.pc = "enter"
       /\ \E p : chunk.results = {p} /\ sku[chunk.rows[chunk.at]] = p.sku

ChunkFields == {"kind", "rows", "at", "found", "pc", "results"}
ChunkShaped(chunk) ==
    /\ DOMAIN chunk = ChunkFields /\ chunk.rows \in Seq(Rows)
    /\ chunk.kind \in {"create", "items", "update"} /\ HandOf(chunk)
ChunksShaped == \A c \in DOMAIN chunks : ChunkShaped(chunks[c])

RunFields == {"pc", "known", "values", "existing", "sent", "failed", "left", "faulty", "upset"}
RunShaped ==
    /\ DOMAIN productRun = RunFields
    /\ productRun.pc \in {"idle", "known", "read"} => chunks = <<>>
    /\ productRun.pc = "update" =>
         \A c \in DOMAIN chunks : chunks[c].kind # "update" => chunks[c].pc = "done"
    /\ productRun.pc = "over" => \A c \in DOMAIN chunks : chunks[c].pc = "done"

Control == ChunksShaped /\ RunShaped

HandsAreProducts == \A p \in ToRegister : p.id \in Ids /\ \A q \in products : q.id = p.id => q.sku = p.sku

RegistryInv == ProductsShaped /\ MadeAreThere /\ HandsAreProducts /\ RegistryPointsHome
ProductsInv == Control /\ RegistryInv

\* No product has a greater id than the top one.
LEMMA TopIsTop == ASSUME ProductsShaped PROVE Top \in 0 .. MaxIds /\ \A p \in products : p.id <= Top
<1> PICK S : S = Ids \union {0}
  OBVIOUS
<1>1. \A x \in S : x \in 0 .. MaxIds
  BY IdsAreBounded DEF ProductsShaped, Ids
<1> PICK T : T = {MaxIds - x : x \in S}
  OBVIOUS
<1>2. T \subseteq Nat /\ T # {}
  BY <1>1, IdsAreBounded
<1>3. PICK t \in T : \A y \in T : t <= y
  BY <1>2, Least
<1>4. PICK m \in S : t = MaxIds - m
  BY <1>3
<1>5. \A y \in S : m >= y
  <2> SUFFICES ASSUME NEW y \in S PROVE m >= y
    OBVIOUS
  <2>1. MaxIds - m <= MaxIds - y
    BY <1>3, <1>4
  <2>2. y \in Int /\ m \in Int /\ MaxIds \in Int
    BY <1>1, <1>4, IdsAreBounded
  <2> QED
    BY <2>1, <2>2
<1>6. \E x \in S : \A y \in S : x >= y
  BY <1>5
<1>7. Top \in S /\ \A y \in S : Top >= y
  BY <1>6 DEF Top, Max
<1>8. \A p \in products : p.id \in S
  BY DEF Ids
<1> QED
  BY <1>1, <1>7, <1>8, IdsAreBounded DEF ProductsShaped

\* What is rewritten keeps its id and its sku; what leaves the hands is registered or given up.
LEMMA HandlingKeepsRegistry ==
    ASSUME RegistryInv, UNCHANGED made, missed \subseteq missed', ToRegister' \subseteq ToRegister,
           \A p \in products : \E q \in products' : q.id = p.id /\ q.sku = p.sku,
           \A q \in products' : DOMAIN q = Product4 /\ \E p \in products : q.id = p.id /\ q.sku = p.sku,
           registered \subseteq registered',
           \A m \in registered' : m \in registered \/ \E p \in ToRegister : p.id = m.id /\ p.sku = m.sapId,
           \A p \in ToRegister : \/ p \in ToRegister' \/ p.id \in missed' \/ p.sku = NoSku
                             \/ [sapId |-> p.sku, id |-> p.id] \in registered'
    PROVE  RegistryInv'
<1>0. ProductsShaped /\ MadeAreThere /\ HandsAreProducts /\ RegistryPointsHome
  BY DEF RegistryInv
<1>1. ProductsShaped'
  BY <1>0 DEF ProductsShaped
<1>2. \A id : id \in Ids <=> id \in Ids'
  BY DEF Ids
<1>3. MadeAreThere'
  BY <1>0, <1>2 DEF MadeAreThere
<1>4. HandsAreProducts'
  <2> SUFFICES ASSUME NEW p \in ToRegister' PROVE p.id \in Ids' /\ \A q \in products' : q.id = p.id => q.sku = p.sku
    BY DEF HandsAreProducts
  <2>1. p.id \in Ids /\ \A q \in products : q.id = p.id => q.sku = p.sku
    BY <1>0 DEF HandsAreProducts
  <2> QED
    BY <1>2, <2>1
<1>5. \A m \in registered' : \E q \in products' : q.id = m.id /\ q.sku = m.sapId
  <2> SUFFICES ASSUME NEW m \in registered' PROVE \E q \in products' : q.id = m.id /\ q.sku = m.sapId
    OBVIOUS
  <2>1. \E q \in products : q.id = m.id /\ q.sku = m.sapId
    <3>1. CASE m \in registered
      BY <1>0, <3>1 DEF RegistryPointsHome
    <3>2. ASSUME NEW p \in ToRegister, p.id = m.id, p.sku = m.sapId
          PROVE  \E q \in products : q.id = m.id /\ q.sku = m.sapId
      <4>1. p.id \in Ids /\ \A q \in products : q.id = p.id => q.sku = p.sku
        BY <1>0 DEF HandsAreProducts
      <4> QED
        BY <3>2, <4>1 DEF Ids
    <3> QED
      BY <3>1, <3>2
  <2> QED
    BY <2>1
<1>6. ASSUME NEW q \in products', q.id \in made' \ missed', q.sku # NoSku
      PROVE  q.id \in {x.id : x \in ToRegister'} \/ [sapId |-> q.sku, id |-> q.id] \in registered'
  <2> PICK p \in products : q.id = p.id /\ q.sku = p.sku
    OBVIOUS
  <2>1. p.id \in made \ missed /\ p.sku # NoSku
    BY <1>6
  <2>2. p.id \in {x.id : x \in ToRegister} \/ [sapId |-> p.sku, id |-> p.id] \in registered
    BY <1>0, <2>1 DEF RegistryPointsHome
  <2>3. ASSUME NEW x \in ToRegister, x.id = p.id
        PROVE  q.id \in {y.id : y \in ToRegister'} \/ [sapId |-> q.sku, id |-> q.id] \in registered'
    <3>1. x.sku = p.sku
      BY <1>0, <2>3 DEF HandsAreProducts
    <3> QED
      BY <1>6, <2>3, <3>1
  <2> QED
    BY <2>2, <2>3
<1>7. RegistryPointsHome'
  BY <1>5, <1>6 DEF RegistryPointsHome
<1> QED
  BY <1>1, <1>3, <1>4, <1>7 DEF RegistryInv

\* New products have new ids; those whose making was answered are in hand.
LEMMA MakingKeepsRegistry ==
    ASSUME RegistryInv, NEW K, UNCHANGED <<registered, missed>>,
           \A p \in K : DOMAIN p = Product4 /\ p.id \in 1 .. MaxIds /\ p.id > Top,
           \A p, q \in K : p.id = q.id => p = q,
           products' = products \union K,
           \/ made' = made /\ ToRegister' = ToRegister
           \/ made' = made \union {p.id : p \in K} /\ ToRegister' = ToRegister \union K
    PROVE  RegistryInv'
<1>0. ProductsShaped /\ MadeAreThere /\ HandsAreProducts /\ RegistryPointsHome
  BY DEF RegistryInv
<1>1. ProductsShaped'
  BY <1>0 DEF ProductsShaped
<1>2. MadeAreThere'
  BY <1>0 DEF MadeAreThere, Ids
<1>4. \A p \in products : p.id <= Top
  BY <1>0, TopIsTop
<1>5. \A p \in K : p.id \notin Ids
  <2> SUFFICES ASSUME NEW p \in K, NEW q \in products, q.id = p.id PROVE FALSE
    BY DEF Ids
  <2>1. p.id > Top /\ p.id <= Top /\ p.id \in Int /\ Top \in Int
    BY <1>0, <1>4, TopIsTop
  <2> QED
    BY <2>1
<1>6. \A m \in registered' : \E p \in products' : p.id = m.id /\ p.sku = m.sapId
  BY <1>0 DEF RegistryPointsHome
<1>7. HandsAreProducts'
  <2> SUFFICES ASSUME NEW p \in ToRegister' PROVE p.id \in Ids' /\ \A q \in products' : q.id = p.id => q.sku = p.sku
    BY DEF HandsAreProducts
  <2>1. CASE p \in ToRegister
    <3>1. p.id \in Ids /\ \A q \in products : q.id = p.id => q.sku = p.sku
      BY <1>0, <2>1 DEF HandsAreProducts
    <3>2. p.id \in Ids'
      BY <3>1 DEF Ids
    <3>3. \A q \in K : q.id # p.id
      BY <1>5, <3>1
    <3> QED
      BY <3>1, <3>2, <3>3
  <2>2. CASE p \in K
    <3>1. p.id \in Ids'
      BY <2>2 DEF Ids
    <3>2. \A q \in products : q.id # p.id
      BY <1>5, <2>2 DEF Ids
    <3> QED
      BY <2>2, <3>1, <3>2
  <2> QED
    BY <2>1, <2>2
<1>8. ASSUME NEW p \in products', p.id \in made' \ missed', p.sku # NoSku
      PROVE  p.id \in {x.id : x \in ToRegister'} \/ [sapId |-> p.sku, id |-> p.id] \in registered'
  <2>1. CASE p \in K
    <3>1. p.id \notin made
      BY <1>0, <1>5, <2>1 DEF MadeAreThere
    <3> QED
      BY <1>8, <2>1, <3>1
  <2>2. CASE p \in products
    <3>1. \A q \in K : q.id # p.id
      BY <1>5, <2>2 DEF Ids
    <3>2. p.id \in made \ missed
      BY <1>8, <3>1
    <3>3. p.id \in {x.id : x \in ToRegister} \/ [sapId |-> p.sku, id |-> p.id] \in registered
      BY <1>0, <1>8, <2>2, <3>2 DEF RegistryPointsHome
    <3>4. ToRegister \subseteq ToRegister'
      OBVIOUS
    <3> QED
      BY <3>3, <3>4
  <2> QED
    BY <2>1, <2>2
<1>9. RegistryPointsHome'
  BY <1>6, <1>8 DEF RegistryPointsHome
<1> QED
  BY <1>1, <1>2, <1>7, <1>9 DEF RegistryInv

LEMMA ListedIsRows == ASSUME NEW chosen PROVE Listed(chosen) \in Seq(Rows)
<1> PICK N \in Nat : N = Len(RowList)
  BY RowsAreListed
<1>1. \A n \in Nat : Cardinality(Before(n, chosen)) \in Nat
  <2> SUFFICES ASSUME NEW n \in Nat PROVE Cardinality(Before(n, chosen)) \in Nat
    OBVIOUS
  <2>1. IsFiniteSet(1 .. n)
    BY FS_Interval
  <2>2. Before(n, chosen) \subseteq 1 .. n
    BY DEF Before
  <2>3. IsFiniteSet(Before(n, chosen))
    BY <2>1, <2>2, FS_Subset
  <2> QED
    BY <2>3, FS_CardinalityType
<1> DEFINE count(n) == Cardinality(Before(n, chosen))
<1>2. \A n \in 1 .. N : count(n) = IF RowList[n] \in chosen THEN count(n - 1) + 1 ELSE count(n - 1)
  <2> SUFFICES ASSUME NEW n \in 1 .. N
               PROVE  count(n) = IF RowList[n] \in chosen THEN count(n - 1) + 1 ELSE count(n - 1)
    OBVIOUS
  <2>1. Before(n, chosen) = IF RowList[n] \in chosen THEN Before(n - 1, chosen) \union {n}
                            ELSE Before(n - 1, chosen)
    <3>1. \A m \in 1 .. n : m \in 1 .. n - 1 \/ m = n
      OBVIOUS
    <3>2. \A m \in 1 .. n - 1 : m \in 1 .. n
      OBVIOUS
    <3> QED
      BY <3>1, <3>2 DEF Before
  <2>2. n \notin Before(n - 1, chosen)
    BY DEF Before
  <2>3. IsFiniteSet(Before(n - 1, chosen))
    <3>1. IsFiniteSet(1 .. n - 1)
      BY FS_Interval
    <3>2. Before(n - 1, chosen) \subseteq 1 .. n - 1
      BY DEF Before
    <3> QED
      BY <3>1, <3>2, FS_Subset
  <2>4. Cardinality(Before(n - 1, chosen) \union {n}) = Cardinality(Before(n - 1, chosen)) + 1
    BY <2>2, <2>3, FS_AddElement
  <2> QED
    BY <2>1, <2>4
<1>3. count(0) = 0
  <2>1. Before(0, chosen) = {}
    BY DEF Before
  <2> QED
    BY <2>1, FS_EmptySet
<1>4. \A n \in Nat : count(n) \in Nat
  BY <1>1
<1> HIDE DEF count
<1>5. \A k \in 1 .. count(N) : \E n \in DOMAIN RowList : RowList[n] \in chosen /\ count(n) = k
  <2> SUFFICES ASSUME NEW k \in 1 .. count(N)
               PROVE  \E n \in 1 .. N : RowList[n] \in chosen /\ count(n) = k
    BY RowsAreListed
  <2> PICK T : T = {n \in 0 .. N : count(n) >= k}
    OBVIOUS
  <2>0. k \in Nat /\ 1 <= k /\ k <= count(N)
    BY <1>4
  <2>1. N \in T /\ T \subseteq Nat
    BY <2>0, <1>4
  <2>2. PICK n \in T : \A y \in T : n <= y
    BY <2>1, Least
  <2>3. n \in 1 .. N /\ count(n) >= k
    BY <1>3, <2>0, <2>2
  <2>4. n - 1 \in 0 .. N /\ n - 1 \notin T
    BY <2>2, <2>3
  <2>5. count(n - 1) < k
    BY <1>4, <2>0, <2>4
  <2>6. count(n) \in Nat /\ count(n - 1) \in Nat
    <3>1. n \in Nat /\ n - 1 \in Nat
      BY <2>3
    <3> QED
      BY <1>4, <3>1
  <2> QED
    BY <1>2, <2>0, <2>3, <2>5, <2>6
<1> PICK c \in Nat : c = count(N)
  BY <1>4
<1> DEFINE At(k) == CHOOSE n \in DOMAIN RowList : RowList[n] \in chosen /\ count(n) = k
<1>6. \A k \in 1 .. c : At(k) \in DOMAIN RowList
  BY <1>5
<1>7. Listed(chosen) = [k \in 1 .. c |-> RowList[At(k)]]
  BY DEF Listed, At, count
<1> HIDE DEF At
<1>8. \A n \in DOMAIN RowList : RowList[n] \in Rows
  BY RowsAreListed
<1>9. \A k \in 1 .. c : RowList[At(k)] \in Rows
  BY <1>6, <1>8
<1>10. [k \in 1 .. c |-> RowList[At(k)]] \in Seq(Rows)
  BY <1>9
<1> QED
  BY <1>7, <1>10

\* A chunk that is about to start has nothing in hand.
New(chunk) ==
    /\ DOMAIN chunk = ChunkFields /\ chunk.rows \in Seq(Rows)
    /\ chunk.kind \in {"create", "items", "update"} /\ chunk.results = {}

LEMMA ChunksOfRows ==
    ASSUME NEW rs \in Seq(Rows), NEW kind \in {"create", "items", "update"}
    PROVE  \E n \in Nat : /\ DOMAIN Chunks(kind, rs) = 1 .. n /\ Len(Chunks(kind, rs)) = n
                          /\ Chunks(kind, rs) \in Seq(Range(Chunks(kind, rs)))
                          /\ \A i \in 1 .. n : New(Chunks(kind, rs)[i])
<1> PICK L \in Nat : L = Len(rs)
  OBVIOUS
<1> PICK k \in Nat : k = (L + ProductChunk - 1) \div ProductChunk
  <2>1. L + ProductChunk - 1 \in Nat /\ ProductChunk \in Nat \ {0}
    BY ChunksAreNotEmpty
  <2> QED
    BY <2>1
<1> DEFINE part(i) == SubSeq(rs, (i - 1) * ProductChunk + 1, Min({i * ProductChunk, L}))
<1>1. Chunks(kind, rs) = [i \in 1 .. k |-> Chunk(kind, part(i))]
  BY DEF Chunks
<1>2. \A i \in 1 .. k : part(i) \in Seq(Rows)
  <2> SUFFICES ASSUME NEW i \in 1 .. k PROVE part(i) \in Seq(Rows)
    OBVIOUS
  <2> PICK from : from = (i - 1) * ProductChunk + 1
    OBVIOUS
  <2> PICK full : full = i * ProductChunk
    OBVIOUS
  <2>1. from \in Nat /\ full \in Nat /\ from >= 1
    BY ChunksAreNotEmpty
  <2> PICK to : to = Min({full, L})
    OBVIOUS
  <2>2. \E x \in {full, L} : \A y \in {full, L} : x <= y
    BY <2>1
  <2>3. to \in {full, L} /\ to <= L
    BY <2>2 DEF Min
  <2>4. to \in Nat
    BY <2>1, <2>3
  <2>5. SubSeq(rs, from, to) \in Seq(Rows)
    <3>1. \A j \in from .. to : rs[j] \in Rows
      <4>1. \A j \in from .. to : j \in 1 .. L
        BY <2>1, <2>3, <2>4
      <4>2. \A j \in 1 .. L : rs[j] \in Rows
        OBVIOUS
      <4> QED
        BY <4>1, <4>2
    <3>2. from \in Int /\ to \in Int
      BY <2>1, <2>4
    <3> QED
      BY <3>1, <3>2, SubSeqProperties
  <2> QED
    BY <2>5
<1> HIDE DEF part
<1>3. \A i \in 1 .. k : New(Chunk(kind, part(i)))
  BY <1>2 DEF Chunk, New, ChunkFields
<1>4. /\ DOMAIN Chunks(kind, rs) = 1 .. k
      /\ \A i \in 1 .. k : New(Chunks(kind, rs)[i])
  BY <1>1, <1>3
<1>5. Chunks(kind, rs) \in Seq(Range(Chunks(kind, rs)))
  <2>1. \A i \in 1 .. k : Chunk(kind, part(i)) \in Range(Chunks(kind, rs))
    BY <1>1 DEF Range
  <2> QED
    BY <1>1, <2>1
<1>6. Len(Chunks(kind, rs)) = k
  BY <1>4, <1>5
<1> QED
  BY <1>4, <1>5, <1>6

\* A chunk at its turn moves on, and the run stays where it is.
LEMMA ChunkMovesOn ==
    ASSUME Control, NEW c \in DOMAIN chunks, Turn(c), NEW new, ChunkShaped(new), UNCHANGED sku,
           new.kind = chunks[c].kind, chunks' = [chunks EXCEPT ![c] = new],
           DOMAIN productRun' = RunFields, productRun'.pc = productRun.pc
    PROVE  /\ Control'
           /\ ToRegister' \subseteq ToRegister \union new.results
           /\ ToRegister \subseteq ToRegister' \union chunks[c].results
           /\ ToRegister \union new.results \subseteq ToRegister' \union chunks[c].results
           /\ \A p \in new.results : p \in ToRegister'
<1>1. DOMAIN chunks' = DOMAIN chunks /\ chunks'[c] = new /\ \A d \in DOMAIN chunks : d # c => chunks'[d] = chunks[d]
  OBVIOUS
<1>2. ChunkShaped(new)'
  BY DEF ChunkShaped, HandOf
<1>3. \A d \in DOMAIN chunks : ChunkShaped(chunks[d])
  BY DEF Control, ChunksShaped
<1>4. \A d \in DOMAIN chunks : d # c => ChunkShaped(chunks'[d])
  BY <1>1, <1>3
<1>5. ChunksShaped'
  BY <1>1, <1>2, <1>4 DEF ChunksShaped, ChunkShaped, HandOf
<1>6. RunShaped'
  <2>1. productRun'.pc \in {"create", "update"}
    BY DEF Turn
  <2>2. ASSUME productRun'.pc = "update", NEW d \in DOMAIN chunks', chunks'[d].kind # "update"
        PROVE  chunks'[d].pc = "done"
    <3>1. d # c
      BY <1>1, <2>2 DEF Turn
    <3> QED
      BY <1>1, <2>2, <3>1 DEF Control, RunShaped
  <2> QED
    BY <2>1, <2>2 DEF RunShaped
<1>7. \A p : p \in ToRegister <=> \E d \in DOMAIN chunks : p \in chunks[d].results
  BY DEF ToRegister
<1>8. \A p : p \in ToRegister' <=> \E d \in DOMAIN chunks' : p \in chunks'[d].results
  BY DEF ToRegister
<1>9. ToRegister' \subseteq ToRegister \union new.results /\ ToRegister \subseteq ToRegister' \union chunks[c].results
      /\ \A p \in new.results : p \in ToRegister'
  BY <1>1, <1>7, <1>8
<1> QED
  BY <1>5, <1>6, <1>9 DEF Control

LEMMA ToldMovesOn ==
    ASSUME Control, NEW c \in DOMAIN chunks, Turn(c), NEW what, NEW kind, Told(c, what, kind), UNCHANGED sku
    PROVE  Control' /\ ToRegister' \subseteq ToRegister /\ ToRegister \subseteq ToRegister' \union chunks[c].results
<1>1. ChunkShaped(chunks[c])
  BY DEF Control, ChunksShaped
<1>2. DOMAIN productRun' = RunFields /\ productRun'.pc = productRun.pc
  BY DEF Control, RunShaped, RunFields, Told
<1> PICK new : new = IF chunks[c].at = Len(chunks[c].rows)
                     THEN [chunks[c] EXCEPT !.pc = "done", !.results = {}]
                     ELSE [chunks[c] EXCEPT !.pc = "find", !.at = @ + 1, !.results = {}]
  OBVIOUS
<1>3. chunks' = [chunks EXCEPT ![c] = new]
  BY DEF Told, Onward
<1>4. ChunkShaped(new) /\ new.kind = chunks[c].kind /\ new.results = {}
  BY <1>1 DEF ChunkShaped, ChunkFields, HandOf
<1> QED
  BY <1>2, <1>3, <1>4, ChunkMovesOn

LEMMA BatchMovesOn ==
    ASSUME Control, NEW c \in DOMAIN chunks, Turn(c), chunks[c].results = {}, NEW kind, NEW rs, NEW gone,
           FallBack(c, kind) \/ SentAll(c, rs, gone), UNCHANGED sku
    PROVE  Control' /\ ToRegister' = ToRegister
<1>1. ChunkShaped(chunks[c])
  BY DEF Control, ChunksShaped
<1>2. DOMAIN productRun' = RunFields /\ productRun'.pc = productRun.pc
  BY DEF Control, RunShaped, RunFields, FallBack, SentAll, LeftOut
<1>3. PICK pc : chunks' = [chunks EXCEPT ![c].pc = pc]
  BY DEF FallBack, SentAll
<1> PICK new : new = [chunks[c] EXCEPT !.pc = pc]
  OBVIOUS
<1>4. chunks' = [chunks EXCEPT ![c] = new]
  BY <1>3
<1>5. ChunkShaped(new) /\ new.kind = chunks[c].kind /\ new.results = {}
  BY <1>1 DEF ChunkShaped, ChunkFields, HandOf
<1> QED
  BY <1>2, <1>4, <1>5, ChunkMovesOn

\* The products of an answer are taken in hand.
LEMMA TakingMovesOn ==
    ASSUME Control, NEW c \in DOMAIN chunks, Turn(c), chunks[c].results = {}, NEW pc, NEW K, Take(c, pc, K),
           DOMAIN productRun' = RunFields, productRun'.pc = productRun.pc, UNCHANGED sku,
           HandOf([chunks[c] EXCEPT !.pc = pc, !.results = K])
    PROVE  Control' /\ ToRegister' = ToRegister \union K /\ made' = made \union {p.id : p \in K}
<1>1. ChunkShaped(chunks[c])
  BY DEF Control, ChunksShaped
<1> PICK new : new = [chunks[c] EXCEPT !.pc = pc, !.results = K]
  OBVIOUS
<1>2. chunks' = [chunks EXCEPT ![c] = new]
  BY DEF Take
<1>3. ChunkShaped(new) /\ new.kind = chunks[c].kind /\ new.results = K
  BY <1>1 DEF ChunkShaped, ChunkFields
<1>4. /\ Control' /\ ToRegister' \subseteq ToRegister \union K /\ ToRegister \subseteq ToRegister' \union chunks[c].results
      /\ \A p \in K : p \in ToRegister'
  BY <1>2, <1>3, ChunkMovesOn
<1> QED
  BY <1>4 DEF Take

\* Nothing is in hand but between an answer and its last registration.
LEMMA HandsAreEmpty ==
    ASSUME Control, NEW c \in DOMAIN chunks, chunks[c].pc \notin {"register", "enter"}
    PROVE  chunks[c].results = {}
BY DEF Control, ChunksShaped, ChunkShaped, HandOf

LEMMA RunsAreEmptyHanded == ASSUME Control, productRun.pc \notin {"create", "update"},
                                   productRun.pc \in {"idle", "known", "read", "over"} PROVE ToRegister = {}
<1>1. \A c \in DOMAIN chunks : chunks[c].results = {}
  <2>1. CASE chunks = <<>>
    BY <2>1
  <2>2. CASE \A c \in DOMAIN chunks : chunks[c].pc = "done"
    BY <2>2, HandsAreEmpty
  <2> QED
    BY <2>1, <2>2 DEF Control, RunShaped
<1> QED
  BY <1>1 DEF ToRegister

\* Products, registry and hands are left alone.
LEMMA QuietKeepsRegistry ==
    ASSUME RegistryInv, UNCHANGED <<products, registered, made, missed>>, ToRegister' = ToRegister PROVE RegistryInv'
<1>1. \A q \in products' : DOMAIN q = Product4
  BY DEF RegistryInv, ProductsShaped
<1> QED
  BY <1>1, HandlingKeepsRegistry

LEMMA RegistryInitially == ProductInit => ProductsInv
<1> SUFFICES ASSUME ProductInit PROVE ProductsInv
  OBVIOUS
<1>1. chunks = <<>> /\ products = {} /\ registered = {} /\ made = {} /\ productRun = Idle
  BY DEF ProductInit
<1>2. ToRegister = {}
  BY <1>1 DEF ToRegister
<1>3. Control
  BY <1>1 DEF Control, ChunksShaped, RunShaped, Idle, RunFields
<1>4. RegistryInv
  BY <1>1, <1>2 DEF RegistryInv, ProductsShaped, MadeAreThere, HandsAreProducts, RegistryPointsHome
<1> QED
  BY <1>3, <1>4 DEF ProductsInv

\* New chunks: the run's, when it has read.
LEMMA NewChunksAreShaped ==
    ASSUME Control, productRun.pc = "read", productRun'.pc = "create", DOMAIN productRun' = RunFields,
           \A c \in DOMAIN chunks' : New(chunks'[c])
    PROVE  Control' /\ ToRegister' = ToRegister
<1>1. ChunksShaped'
  BY DEF ChunksShaped, ChunkShaped, New, HandOf
<1>2. ToRegister = {}
  BY RunsAreEmptyHanded
<1>3. ToRegister' = {}
  BY DEF ToRegister, New
<1> QED
  BY <1>1, <1>2, <1>3 DEF Control, RunShaped

LEMMA ReadKeepsRegistry ==
    ASSUME ProductsInv, NEW kind \in {"answered", "refused"}, ReadExisting(kind) PROVE ProductsInv'
<1>1. UNCHANGED <<products, registered, made, missed>> /\ productRun.pc = "read"
  BY DEF ReadExisting
<1>2. DOMAIN productRun' = RunFields /\ productRun'.pc = "create"
  BY DEF ReadExisting, ProductsInv, Control, RunShaped, RunFields
<1>3. \A c \in DOMAIN chunks' : New(chunks'[c])
  <2>1. CASE chunks' = Chunks("create", ToCreate) \o Chunks("update", ToUpdate)
    <3>1. ToCreate \in Seq(Rows) /\ ToUpdate \in Seq(Rows)
      BY ListedIsRows DEF ToCreate, ToUpdate
    <3> PICK A : A = Chunks("create", ToCreate)
      OBVIOUS
    <3> PICK B : B = Chunks("update", ToUpdate)
      OBVIOUS
    <3>2. PICK n \in Nat : DOMAIN A = 1 .. n /\ Len(A) = n /\ A \in Seq(Range(A)) /\ \A i \in 1 .. n : New(A[i])
      BY <3>1, ChunksOfRows
    <3>3. PICK m \in Nat : DOMAIN B = 1 .. m /\ Len(B) = m /\ B \in Seq(Range(B)) /\ \A i \in 1 .. m : New(B[i])
      BY <3>1, ChunksOfRows
    <3>4. chunks' = A \o B
      BY <2>1
    <3>5. DOMAIN (A \o B) = 1 .. (n + m) /\ \A i \in 1 .. (n + m) : (A \o B)[i] = IF i <= n THEN A[i] ELSE B[i - n]
      BY <3>2, <3>3
    <3>6. \A i \in 1 .. (n + m) : New((A \o B)[i])
      <4> SUFFICES ASSUME NEW i \in 1 .. (n + m) PROVE New((A \o B)[i])
        OBVIOUS
      <4>1. CASE i <= n
        <5>1. i \in 1 .. n
          BY <4>1
        <5> QED
          BY <3>2, <3>5, <4>1, <5>1
      <4>2. CASE ~(i <= n)
        <5>1. i - n \in 1 .. m
          BY <4>2
        <5> QED
          BY <3>3, <3>5, <4>2, <5>1
      <4> QED
        BY <4>1, <4>2
    <3> QED
      BY <3>4, <3>5, <3>6
  <2>2. CASE chunks' = <<Chunk("items", RowList)>>
    <3>1. New(Chunk("items", RowList))
      BY RowsAreListed DEF Chunk, New, ChunkFields
    <3> QED
      BY <2>2, <3>1
  <2> QED
    BY <2>1, <2>2 DEF ReadExisting
<1>4. Control' /\ ToRegister' = ToRegister
  BY <1>1, <1>2, <1>3, NewChunksAreShaped DEF ProductsInv
<1>5. RegistryInv'
  BY <1>1, <1>4, QuietKeepsRegistry DEF ProductsInv
<1> QED
  BY <1>4, <1>5 DEF ProductsInv

\* The steps that read, move on, or are others'.
LEMMA ReadingsKeepRegistry ==
    ASSUME ProductsInv,
           \/ StartRun \/ BeginProductUpdates \/ EndProductRun \/ Index \/ UNCHANGED productVars
           \/ \E kind \in {"answered", "refused"} : ReadKnown(kind)
           \/ \E r \in Rows : PriceChanges(r)
    PROVE  ProductsInv'
<1>0. Control /\ RegistryInv
  BY DEF ProductsInv
<1>1. UNCHANGED <<sku, products, registered, made, missed>>
  BY DEF StartRun, BeginProductUpdates, EndProductRun, Index, ReadKnown, PriceChanges, productVars
<1>2. CASE StartRun
  <2>1. chunks' = <<>> /\ DOMAIN productRun' = RunFields /\ productRun'.pc = "known"
    BY <1>2 DEF StartRun, Idle, RunFields
  <2>2. ToRegister' = {}
    BY <2>1 DEF ToRegister
  <2>3. Control'
    BY <2>1 DEF Control, ChunksShaped, RunShaped
  <2>4. ToRegister = {}
    BY <1>0, <1>2, RunsAreEmptyHanded DEF StartRun
  <2> QED
    BY <1>0, <1>1, <2>2, <2>3, <2>4, QuietKeepsRegistry DEF ProductsInv
<1>3. CASE chunks' = chunks /\ ~StartRun
  <2>1. ChunksShaped' /\ ToRegister' = ToRegister
    BY <1>0, <1>1, <1>3 DEF Control, ChunksShaped, ChunkShaped, HandOf, ToRegister
  <2>2. DOMAIN productRun' = RunFields
    BY <1>0, <1>3 DEF Control, RunShaped, RunFields, BeginProductUpdates, EndProductRun, Index, ReadKnown,
                      PriceChanges, productVars
  <2>3. \A c \in DOMAIN chunks : chunks[c].kind \in {"create", "items", "update"}
    BY <1>0 DEF Control, ChunksShaped, ChunkShaped
  <2>4. RunShaped'
    <3>1. RunShaped
      BY <1>0 DEF Control
    <3>2. CASE productRun' = productRun
      BY <1>3, <3>1, <3>2 DEF RunShaped
    <3>3. CASE BeginProductUpdates
      <4>1. productRun'.pc = "update" /\ ProductFinished({"create", "items"})
        BY <3>1, <3>3 DEF BeginProductUpdates, RunShaped, RunFields
      <4>2. \A c \in DOMAIN chunks : chunks[c].kind # "update" => chunks[c].pc = "done"
        BY <2>3, <4>1 DEF ProductFinished
      <4> QED
        BY <1>3, <2>2, <4>1, <4>2 DEF RunShaped
    <3>4. CASE EndProductRun
      <4>1. productRun'.pc = "over" /\ productRun.pc = "update" /\ ProductFinished({"update"})
        BY <3>1, <3>4 DEF EndProductRun, RunShaped, RunFields
      <4>2. \A c \in DOMAIN chunks : chunks[c].pc = "done"
        BY <3>1, <4>1 DEF ProductFinished, RunShaped
      <4> QED
        BY <1>3, <2>2, <4>1, <4>2 DEF RunShaped
    <3>5. ASSUME NEW kind, ReadKnown(kind) PROVE RunShaped'
      <4>1. productRun'.pc = "read" /\ productRun.pc = "known"
        BY <3>1, <3>5 DEF ReadKnown, RunShaped, RunFields
      <4> QED
        BY <1>3, <2>2, <3>1, <4>1 DEF RunShaped
    <3> QED
      BY <1>3, <3>2, <3>3, <3>4, <3>5 DEF Index, PriceChanges, productVars
  <2> QED
    BY <1>0, <1>1, <2>1, <2>4, QuietKeepsRegistry DEF ProductsInv, Control
<1> QED
  BY <1>2, <1>3 DEF BeginProductUpdates, EndProductRun, Index, ReadKnown, PriceChanges, productVars

LEMMA FindKeepsRegistry ==
    ASSUME ProductsInv, NEW c \in DOMAIN chunks, NEW kind, FindItem(c, kind) PROVE ProductsInv'
<1>0. Control /\ RegistryInv
  BY DEF ProductsInv
<1>1. UNCHANGED <<sku, products, registered, made, missed>> /\ Turn(c) /\ chunks[c].pc = "find"
  BY DEF FindItem
<1>2. chunks[c].results = {}
  BY <1>0, <1>1, HandsAreEmpty
<1>3. CASE Told(c, "failed", kind)
  <2>1. Control' /\ ToRegister' = ToRegister
    BY <1>0, <1>1, <1>2, <1>3, ToldMovesOn
  <2> QED
    BY <1>0, <1>1, <2>1, QuietKeepsRegistry DEF ProductsInv
<1>4. CASE \E id : chunks' = [chunks EXCEPT ![c].pc = "write", ![c].found = id] /\ UNCHANGED productRun
  <2> PICK id : chunks' = [chunks EXCEPT ![c].pc = "write", ![c].found = id]
    BY <1>4
  <2> PICK new : new = [chunks[c] EXCEPT !.pc = "write", !.found = id]
    OBVIOUS
  <2>1. chunks' = [chunks EXCEPT ![c] = new]
    OBVIOUS
  <2>2. ChunkShaped(new) /\ new.kind = chunks[c].kind /\ new.results = {}
    BY <1>0, <1>2 DEF Control, ChunksShaped, ChunkShaped, ChunkFields, HandOf
  <2>3. Control' /\ ToRegister' = ToRegister
    <3>1. DOMAIN productRun' = RunFields /\ productRun'.pc = productRun.pc
      BY <1>0, <1>4 DEF Control, RunShaped
    <3>2. /\ Control' /\ ToRegister' \subseteq ToRegister \union new.results
          /\ ToRegister \subseteq ToRegister' \union chunks[c].results
      BY <1>0, <1>1, <2>1, <2>2, <3>1, ChunkMovesOn
    <3> QED
      BY <1>2, <2>2, <3>2
  <2> QED
    BY <1>0, <1>1, <2>3, QuietKeepsRegistry DEF ProductsInv
<1> QED
  BY <1>3, <1>4 DEF FindItem

\* What HubSpot or its users overwrite: prices and stocks.
LEMMA OverwritingKeepsRegistry ==
    ASSUME RegistryInv, UNCHANGED <<registered, made, missed>>, ToRegister' = ToRegister, NEW new,
           \A p \in products : new[p].id = p.id /\ new[p].sku = p.sku /\ DOMAIN new[p] = Product4,
           \A p \in products : new[p] \in products',
           \A q \in products' : \E p \in products : q = new[p]
    PROVE  RegistryInv'
<1>1. \A p \in products : \E q \in products' : q.id = p.id /\ q.sku = p.sku
  OBVIOUS
<1>2. \A q \in products' : DOMAIN q = Product4 /\ \E p \in products : q.id = p.id /\ q.sku = p.sku
  OBVIOUS
<1> QED
  BY <1>1, <1>2, HandlingKeepsRegistry

LEMMA OverwrittenIsTheSame ==
    ASSUME ProductsShaped, NEW p \in products, NEW r
    PROVE  Overwritten(p, r).id = p.id /\ Overwritten(p, r).sku = p.sku /\ DOMAIN Overwritten(p, r) = Product4
BY DEF ProductsShaped, Product4, Overwritten

LEMMA PortalKeepsRegistry == ASSUME ProductsInv, PortalChanges PROVE ProductsInv'
<1>0. Control /\ RegistryInv
  BY DEF ProductsInv
<1>1. UNCHANGED <<sku, chunks, registered, made, missed>>
  BY DEF PortalChanges
<1>2. Control' /\ ToRegister' = ToRegister
  <2>1. ChunksShaped' /\ ToRegister' = ToRegister
    BY <1>0, <1>1 DEF Control, ChunksShaped, ChunkShaped, HandOf, ToRegister
  <2>2. DOMAIN productRun' = RunFields /\ productRun'.pc = productRun.pc
    BY <1>0 DEF Control, RunShaped, RunFields, PortalChanges
  <2> QED
    BY <1>0, <1>1, <2>1, <2>2 DEF Control, RunShaped
<1>3. \A p \in products : /\ [p EXCEPT !.stocked = FALSE].id = p.id /\ [p EXCEPT !.stocked = FALSE].sku = p.sku
                           /\ DOMAIN [p EXCEPT !.stocked = FALSE] = Product4
  BY <1>0 DEF RegistryInv, ProductsShaped, Product4
<1>4. products' = {[p EXCEPT !.stocked = FALSE] : p \in products}
  BY DEF PortalChanges
<1>5. \A p \in products : \E q \in products' : q.id = p.id /\ q.sku = p.sku
  BY <1>3, <1>4
<1>6. \A q \in products' : DOMAIN q = Product4 /\ \E p \in products : q.id = p.id /\ q.sku = p.sku
  BY <1>3, <1>4
<1>7. RegistryInv'
  BY <1>0, <1>1, <1>2, <1>5, <1>6, HandlingKeepsRegistry
<1> QED
  BY <1>2, <1>7 DEF ProductsInv

LEMMA BatchUpdateKeepsRegistry ==
    ASSUME ProductsInv, NEW c \in DOMAIN chunks, NEW kind \in Kinds, BatchUpdate(c, kind) PROVE ProductsInv'
<1> DEFINE rs == chunks[c].rows
<1> DEFINE ids == {ProductRead(rs[i]).id : i \in DOMAIN rs}
<1> DEFINE At(id) == CHOOSE i \in DOMAIN rs : ProductRead(rs[i]).id = id
<1> DEFINE after(left) == {IF p.id \in ids /\ At(p.id) # left
                           THEN Overwritten(p, rs[At(p.id)]) ELSE p : p \in products}
<1>0. Control /\ RegistryInv
  BY DEF ProductsInv
<1>1. \/ FallBack(c, kind) /\ UNCHANGED products
      \/ \E left : /\ products' = after(left)
                   /\ FallBack(c, kind) \/ \E gone : SentAll(c, rs, gone)
  <2>1. IF (~Nameable \/ Cardinality(ids) < Len(rs)) \/ kind = "refused"
        THEN FallBack(c, kind) /\ UNCHANGED products
        ELSE \E left \in IF kind = "partial" THEN DOMAIN rs ELSE {0} :
               /\ products' = after(left)
               /\ IF kind = "lost" THEN FallBack(c, kind)
                  ELSE SentAll(c, rs, IF left = 0 THEN {} ELSE {rs[left]})
    BY Zenon DEF BatchUpdate
  <2> HIDE DEF after, ids, At, rs
  <2> QED
    BY <2>1
<1> HIDE DEF At, ids, rs
<1>2. Turn(c) /\ chunks[c].pc = "batch" /\ UNCHANGED <<sku, registered, made, missed>>
  BY DEF BatchUpdate
<1>3. Control' /\ ToRegister' = ToRegister
  <2>1. FallBack(c, kind) \/ \E gone : SentAll(c, rs, gone)
    BY <1>1
  <2>2. chunks[c].results = {}
    BY <1>0, <1>2, HandsAreEmpty
  <2> QED
    BY <1>0, <1>2, <2>1, <2>2, BatchMovesOn
<1>4. CASE UNCHANGED products
  BY <1>0, <1>2, <1>3, <1>4, QuietKeepsRegistry DEF ProductsInv
<1>5. ASSUME NEW left, products' = after(left)
      PROVE  RegistryInv'
  <2> PICK new : new = [p \in products |-> IF p.id \in ids /\ At(p.id) # left
                                           THEN Overwritten(p, rs[At(p.id)]) ELSE p]
    OBVIOUS
  <2>1. products' = {new[p] : p \in products}
    BY <1>5
  <2>2. ProductsShaped
    BY <1>0 DEF RegistryInv
  <2>3. \A p \in products : new[p].id = p.id /\ new[p].sku = p.sku /\ DOMAIN new[p] = Product4
    BY <2>2, OverwrittenIsTheSame DEF ProductsShaped
  <2> QED
    BY <1>0, <1>2, <1>3, <2>1, <2>3, OverwritingKeepsRegistry
<1> QED
  BY <1>1, <1>3, <1>4, <1>5 DEF ProductsInv

LEMMA UpdateKeepsRegistry ==
    ASSUME ProductsInv, NEW c \in DOMAIN chunks, NEW kind, UpdateProduct(c, kind) PROVE ProductsInv'
<1>0. Control /\ RegistryInv
  BY DEF ProductsInv
<1>1. Turn(c) /\ chunks[c].pc = "write" /\ UNCHANGED <<sku, registered, made, missed>>
  BY DEF UpdateProduct
<1>2. Control' /\ ToRegister' = ToRegister
  <2>1. \E what : Told(c, what, kind)
    BY DEF UpdateProduct
  <2>2. chunks[c].results = {}
    BY <1>0, <1>1, HandsAreEmpty
  <2> QED
    BY <1>0, <1>1, <2>1, <2>2, ToldMovesOn
<1>3. CASE UNCHANGED products
  BY <1>0, <1>1, <1>2, <1>3, QuietKeepsRegistry DEF ProductsInv
<1>4. CASE products' = {IF p.id = chunks[c].found THEN Overwritten(p, ProductRow(c)) ELSE p : p \in products}
  <2> PICK new : new = [p \in products |-> IF p.id = chunks[c].found THEN Overwritten(p, ProductRow(c)) ELSE p]
    OBVIOUS
  <2>1. products' = {new[p] : p \in products}
    BY <1>4
  <2>2. ProductsShaped
    BY <1>0 DEF RegistryInv
  <2>3. \A p \in products : new[p].id = p.id /\ new[p].sku = p.sku /\ DOMAIN new[p] = Product4
    BY <2>2, OverwrittenIsTheSame DEF ProductsShaped
  <2>4. RegistryInv'
    BY <1>0, <1>1, <1>2, <2>1, <2>3, OverwritingKeepsRegistry
  <2> QED
    BY <1>2, <2>4 DEF ProductsInv
<1> QED
  BY <1>3, <1>4 DEF UpdateProduct

LEMMA CreateKeepsRegistry ==
    ASSUME ProductsInv, NEW c \in DOMAIN chunks, NEW kind, CreateProduct(c, kind) PROVE ProductsInv'
<1>0. Control /\ RegistryInv
  BY DEF ProductsInv
<1>1. Turn(c) /\ chunks[c].pc = "write" /\ UNCHANGED <<sku, registered, missed>>
  BY DEF CreateProduct
<1>2. chunks[c].results = {}
  BY <1>0, <1>1, HandsAreEmpty
<1> PICK r : r = ProductRow(c)
  OBVIOUS
<1> PICK p : p = Product(Top + 1, r)
  OBVIOUS
<1>3. DOMAIN p = Product4 /\ p.id = Top + 1 /\ p.sku = sku[r]
  BY DEF Product, Product4
<1>4. \/ Told(c, "failed", kind) /\ UNCHANGED <<products, made>>
      \/ /\ products' = products \union {p} /\ Top < MaxIds
         /\ \/ Told(c, "failed", kind) /\ UNCHANGED made
            \/ Take(c, "enter", {p}) /\ UNCHANGED productRun
  BY DEF CreateProduct
<1>5. CASE Told(c, "failed", kind) /\ UNCHANGED <<products, made>>
  <2>1. Control' /\ ToRegister' = ToRegister
    BY <1>0, <1>1, <1>2, <1>5, ToldMovesOn
  <2> QED
    BY <1>0, <1>1, <1>5, <2>1, QuietKeepsRegistry DEF ProductsInv
<1>6. CASE products' = products \union {p} /\ Top < MaxIds
  <2> PICK K : K = {p}
    OBVIOUS
  <2>1. Top + 1 \in 1 .. MaxIds /\ Top + 1 > Top
    <3>1. Top \in 0 .. MaxIds
      BY <1>0, TopIsTop DEF RegistryInv
    <3> QED
      BY <1>6, <3>1, IdsAreBounded
  <2>2. \A q \in K : DOMAIN q = Product4 /\ q.id \in 1 .. MaxIds /\ q.id > Top
    BY <1>3, <2>1
  <2>3. CASE Told(c, "failed", kind) /\ UNCHANGED made
    <3>1. Control' /\ ToRegister' = ToRegister
      BY <1>0, <1>1, <1>2, <2>3, ToldMovesOn
    <3>2. RegistryInv'
      BY <1>0, <1>1, <1>6, <2>2, <2>3, <3>1, MakingKeepsRegistry
    <3> QED
      BY <3>1, <3>2 DEF ProductsInv
  <2>4. CASE Take(c, "enter", {p}) /\ UNCHANGED productRun
    <3> PICK new : new = [chunks[c] EXCEPT !.pc = "enter", !.results = K]
      OBVIOUS
    <3>1. HandOf(new)
      <4>1. DOMAIN chunks[c] = ChunkFields
        BY <1>0 DEF Control, ChunksShaped, ChunkShaped
      <4>2. new.pc = "enter" /\ new.results = {p} /\ new.rows = chunks[c].rows /\ new.at = chunks[c].at
        BY <4>1 DEF ChunkFields
      <4>3. sku[new.rows[new.at]] = p.sku
        BY <1>3, <4>2 DEF ProductRow
      <4> QED
        BY <4>2, <4>3 DEF HandOf
    <3>2. DOMAIN productRun' = RunFields /\ productRun'.pc = productRun.pc
      BY <1>0, <2>4 DEF Control, RunShaped
    <3>3. Control' /\ ToRegister' = ToRegister \union K /\ made' = made \union {q.id : q \in K}
      BY <1>0, <1>1, <1>2, <2>4, <3>1, <3>2, TakingMovesOn
    <3>4. RegistryInv'
      BY <1>0, <1>1, <1>6, <2>2, <3>3, MakingKeepsRegistry
    <3> QED
      BY <3>3, <3>4 DEF ProductsInv
  <2> QED
    BY <1>4, <2>3, <2>4, <1>5
<1> QED
  BY <1>4, <1>5, <1>6

LEMMA BatchCreateKeepsRegistry ==
    ASSUME ProductsInv, NEW c \in DOMAIN chunks, NEW kind \in Kinds, BatchCreate(c, kind) PROVE ProductsInv'
<1> DEFINE rs == chunks[c].rows
<1> DEFINE all == [i \in DOMAIN rs |-> Product(Top + i, rs[i])]
<1> DEFINE kept(left) == {all[i] : i \in DOMAIN rs \ {left}}
<1> DEFINE gone(left) == IF left = 0 THEN {} ELSE {rs[left]}
<1>0. Control /\ RegistryInv
  BY DEF ProductsInv
<1>1. IF Refusable(rs) \/ kind = "refused"
      THEN FallBack(c, kind) /\ UNCHANGED <<products, made>>
      ELSE \E left \in IF kind = "partial" THEN DOMAIN rs ELSE {0} :
             /\ products' = products \cup kept(left)
             /\ IF kind = "lost"
                THEN FallBack(c, kind) /\ UNCHANGED made
                ELSE Take(c, "register", kept(left)) /\ productRun' = LeftOut(gone(left))
  BY Zenon DEF BatchCreate
<1>2. /\ Top + Len(rs) <= MaxIds /\ Turn(c) /\ chunks[c].pc = "batch"
      /\ UNCHANGED <<sku, registered, missed>>
  BY DEF BatchCreate
<1>3. rs \in Seq(Rows) /\ DOMAIN chunks[c] = ChunkFields
  BY <1>0 DEF Control, ChunksShaped, ChunkShaped
<1>4. Top \in 0 .. MaxIds
  BY <1>0, TopIsTop DEF RegistryInv
<1>5. chunks[c].results = {}
  BY <1>0, <1>2, HandsAreEmpty
<1>6. \A i \in DOMAIN rs : /\ DOMAIN all[i] = Product4 /\ all[i].id = Top + i /\ all[i].sku = sku[rs[i]]
                           /\ all[i].id \in 1 .. MaxIds /\ all[i].id > Top
  <2> SUFFICES ASSUME NEW i \in DOMAIN rs
               PROVE  /\ DOMAIN all[i] = Product4 /\ all[i].id = Top + i /\ all[i].sku = sku[rs[i]]
                      /\ all[i].id \in 1 .. MaxIds /\ all[i].id > Top
    OBVIOUS
  <2>1. all[i] = Product(Top + i, rs[i])
    OBVIOUS
  <2> HIDE DEF all
  <2>2. DOMAIN all[i] = Product4 /\ all[i].id = Top + i /\ all[i].sku = sku[rs[i]]
    BY <2>1 DEF Product, Product4
  <2>3. i \in Nat /\ 1 <= i /\ i <= Len(rs) /\ Len(rs) \in Nat
    BY <1>3
  <2> HIDE DEF rs
  <2>4. Top + i \in 1 .. MaxIds /\ Top + i > Top
    BY <1>2, <1>4, <2>3, IdsAreBounded
  <2> QED
    BY <2>2, <2>4
<1> HIDE DEF all
<1>7. \A i, j \in DOMAIN rs : all[i].id = all[j].id => i = j
  <2>1. \A i \in DOMAIN rs : i \in Int
    BY <1>3
  <2> QED
    BY <1>4, <1>6, <2>1
<1>8. ASSUME NEW left
      PROVE  /\ \A p \in kept(left) : DOMAIN p = Product4 /\ p.id \in 1 .. MaxIds /\ p.id > Top
             /\ \A p, q \in kept(left) : p.id = q.id => p = q
             /\ \A p \in kept(left) : \E i \in DOMAIN rs : sku[rs[i]] = p.sku
  BY <1>6, <1>7
<1> HIDE DEF kept, rs, gone
<1>9. CASE FallBack(c, kind) /\ UNCHANGED <<products, made>>
  <2>1. Control' /\ ToRegister' = ToRegister
    BY <1>0, <1>2, <1>5, <1>9, BatchMovesOn
  <2> QED
    BY <1>0, <1>2, <1>9, <2>1, QuietKeepsRegistry DEF ProductsInv
<1>10. ASSUME NEW left, products' = products \cup kept(left), FallBack(c, kind), UNCHANGED made
       PROVE  ProductsInv'
  <2>1. Control' /\ ToRegister' = ToRegister
    BY <1>0, <1>2, <1>5, <1>10, BatchMovesOn
  <2> PICK K : K = kept(left)
    OBVIOUS
  <2>2. /\ \A p \in K : DOMAIN p = Product4 /\ p.id \in 1 .. MaxIds /\ p.id > Top
        /\ \A p, q \in K : p.id = q.id => p = q
    BY <1>8
  <2>3. RegistryInv'
    BY <1>0, <1>2, <1>10, <2>1, <2>2, MakingKeepsRegistry
  <2> QED
    BY <2>1, <2>3 DEF ProductsInv
<1>11. ASSUME NEW left, products' = products \cup kept(left), Take(c, "register", kept(left)),
              productRun' = LeftOut(gone(left))
       PROVE  ProductsInv'
  <2> PICK K : K = kept(left)
    OBVIOUS
  <2>1. /\ \A p \in K : DOMAIN p = Product4 /\ p.id \in 1 .. MaxIds /\ p.id > Top
        /\ \A p, q \in K : p.id = q.id => p = q
        /\ \A p \in K : \E i \in DOMAIN rs : sku[rs[i]] = p.sku
    BY <1>8
  <2> PICK new : new = [chunks[c] EXCEPT !.pc = "register", !.results = K]
    OBVIOUS
  <2>2. HandOf(new)
    <3>1. new.pc = "register" /\ new.results = K /\ new.rows = rs
      BY <1>3 DEF ChunkFields, rs
    <3> QED
      BY <2>1, <3>1 DEF HandOf
  <2>3. DOMAIN productRun' = RunFields /\ productRun'.pc = productRun.pc
    BY <1>0, <1>11 DEF Control, RunShaped, RunFields, LeftOut
  <2>4. Control' /\ ToRegister' = ToRegister \union K /\ made' = made \union {p.id : p \in K}
    BY <1>0, <1>2, <1>5, <1>11, <2>2, <2>3, TakingMovesOn
  <2>5. RegistryInv'
    BY <1>0, <1>2, <1>11, <2>1, <2>4, MakingKeepsRegistry
  <2> QED
    BY <2>4, <2>5 DEF ProductsInv
<1> QED
  BY <1>1, <1>9, <1>10, <1>11

\* One product leaves the hands: it is registered under its sku, or given up.
LEMMA LeavingKeepsRegistry ==
    ASSUME RegistryInv, NEW p \in ToRegister, UNCHANGED <<products, made>>,
           ToRegister' \subseteq ToRegister, ToRegister \subseteq ToRegister' \union {p},
           \/ missed' = missed \union {p.id} /\ UNCHANGED registered
           \/ /\ UNCHANGED missed
              /\ registered' = registered \union
                                 (IF p.sku = NoSku THEN {} ELSE {[sapId |-> p.sku, id |-> p.id]})
    PROVE  RegistryInv'
<1>1. \A q \in products' : DOMAIN q = Product4 /\ \E x \in products : q.id = x.id /\ q.sku = x.sku
  BY DEF RegistryInv, ProductsShaped
<1>2. missed \subseteq missed' /\ registered \subseteq registered'
  OBVIOUS
<1>3. \A m \in registered' : m \in registered \/ \E x \in ToRegister : x.id = m.id /\ x.sku = m.sapId
  OBVIOUS
<1>4. \A x \in ToRegister : \/ x \in ToRegister' \/ x.id \in missed' \/ x.sku = NoSku
                        \/ [sapId |-> x.sku, id |-> x.id] \in registered'
  OBVIOUS
<1> QED
  BY <1>1, <1>2, <1>3, <1>4, HandlingKeepsRegistry

LEMMA RegisterResultKeepsRegistry ==
    ASSUME ProductsInv, NEW c \in DOMAIN chunks, NEW kind, RegisterResult(c, kind) PROVE ProductsInv'
<1>0. Control /\ RegistryInv
  BY DEF ProductsInv
<1>1. Turn(c) /\ chunks[c].pc = "register" /\ UNCHANGED <<sku, products, made, productRun>>
  BY DEF RegisterResult
<1>2. PICK p \in chunks[c].results :
        /\ chunks' = [chunks EXCEPT ![c].results = @ \ {p}]
        /\ IF kind = "answered"
           THEN registered' = registered \cup Registration(c, p) /\ UNCHANGED missed
           ELSE missed' = missed \cup {p.id} /\ UNCHANGED registered
  BY DEF RegisterResult
<1>3. ChunkShaped(chunks[c])
  BY <1>0 DEF Control, ChunksShaped
<1> PICK new : new = [chunks[c] EXCEPT !.results = @ \ {p}]
  OBVIOUS
<1>4. /\ chunks' = [chunks EXCEPT ![c] = new] /\ new.kind = chunks[c].kind
      /\ new.results = chunks[c].results \ {p} /\ ChunkShaped(new)
  BY <1>1, <1>2, <1>3 DEF ChunkShaped, ChunkFields, HandOf
<1>5. DOMAIN productRun' = RunFields /\ productRun'.pc = productRun.pc
  BY <1>0, <1>1 DEF Control, RunShaped
<1>6. /\ Control' /\ ToRegister' \subseteq ToRegister \union new.results
      /\ ToRegister \subseteq ToRegister' \union chunks[c].results /\ \A q \in new.results : q \in ToRegister'
  BY <1>0, <1>1, <1>4, <1>5, ChunkMovesOn
<1>7. chunks[c].results \subseteq ToRegister
  BY DEF ToRegister
<1>8. ToRegister' \subseteq ToRegister /\ ToRegister \subseteq ToRegister' \union {p} /\ p \in ToRegister
  BY <1>4, <1>6, <1>7
<1>9. Registration(c, p) = IF p.sku = NoSku THEN {} ELSE {[sapId |-> p.sku, id |-> p.id]}
  <2> PICK pos : pos = Len(chunks[c].rows) - Cardinality(chunks[c].results) + 1
    OBVIOUS
  <2>1. Registration(c, p) = {[sapId |-> sku[chunks[c].rows[i]], id |-> p.id] :
                                i \in RowOfResult(p, chunks[c].rows, pos)}
    BY DEF Registration
  <2>2. \A i : i \in RowOfResult(p, chunks[c].rows, pos) <=>
                 i \in DOMAIN chunks[c].rows /\ sku[chunks[c].rows[i]] = p.sku /\ p.sku # NoSku
    BY DEF RowOfResult
  <2>3. \E i \in DOMAIN chunks[c].rows : sku[chunks[c].rows[i]] = p.sku
    BY <1>1, <1>3 DEF ChunkShaped, HandOf
  <2> QED
    BY <2>1, <2>2, <2>3
<1>10. RegistryInv'
  BY <1>0, <1>1, <1>2, <1>8, <1>9, LeavingKeepsRegistry
<1> QED
  BY <1>6, <1>10 DEF ProductsInv

LEMMA RegisterProductKeepsRegistry ==
    ASSUME ProductsInv, NEW c \in DOMAIN chunks, NEW kind, RegisterProduct(c, kind) PROVE ProductsInv'
<1>0. Control /\ RegistryInv
  BY DEF ProductsInv
<1>1. Turn(c) /\ chunks[c].pc = "enter" /\ UNCHANGED <<sku, products, made>> /\ Told(c, "sent", "answered")
  BY DEF RegisterProduct
<1>2. PICK p \in chunks[c].results :
        IF kind = "answered"
        THEN registered' = registered \cup Mapping(ProductRow(c), p.id) /\ UNCHANGED missed
        ELSE missed' = missed \cup {p.id} /\ UNCHANGED registered
  BY DEF RegisterProduct
<1>3. ChunkShaped(chunks[c])
  BY <1>0 DEF Control, ChunksShaped
<1>4. chunks[c].results = {p} /\ sku[ProductRow(c)] = p.sku
  BY <1>1, <1>3 DEF ChunkShaped, HandOf, ProductRow
<1>5. Control' /\ ToRegister' \subseteq ToRegister /\ ToRegister \subseteq ToRegister' \union {p}
  BY <1>0, <1>1, <1>4, ToldMovesOn
<1>6. p \in ToRegister
  BY DEF ToRegister
<1>7. Mapping(ProductRow(c), p.id) = IF p.sku = NoSku THEN {} ELSE {[sapId |-> p.sku, id |-> p.id]}
  BY <1>4 DEF Mapping
<1>8. RegistryInv'
  BY <1>0, <1>1, <1>2, <1>5, <1>6, <1>7, LeavingKeepsRegistry
<1> QED
  BY <1>5, <1>8 DEF ProductsInv

LEMMA RegisteredKeepsRegistry ==
    ASSUME ProductsInv, NEW c \in DOMAIN chunks, BatchRegistered(c) PROVE ProductsInv'
<1>0. Control /\ RegistryInv
  BY DEF ProductsInv
<1>1. /\ Turn(c) /\ UNCHANGED <<sku, products, registered, made, missed>> /\ chunks[c].results = {}
      /\ SentAll(c, chunks[c].rows, {})
  BY DEF BatchRegistered
<1>2. Control' /\ ToRegister' = ToRegister
  BY <1>0, <1>1, BatchMovesOn
<1> QED
  BY <1>0, <1>1, <1>2, QuietKeepsRegistry DEF ProductsInv

\* A death gives up what was in hand.
LEMMA DeathKeepsRegistry == ASSUME ProductsInv, RunDies PROVE ProductsInv'
<1>0. RegistryInv
  BY DEF ProductsInv
<1>1. /\ UNCHANGED <<products, registered, made>> /\ productRun' = Idle /\ chunks' = <<>>
      /\ missed' = missed \cup {p.id : p \in ToRegister}
  BY DEF RunDies
<1>2. Control'
  BY <1>1 DEF Control, ChunksShaped, RunShaped, RunFields, Idle
<1>3. ToRegister' = {}
  BY <1>1 DEF ToRegister
<1>4. \A q \in products' : DOMAIN q = Product4 /\ \E x \in products : q.id = x.id /\ q.sku = x.sku
  BY <1>0, <1>1 DEF RegistryInv, ProductsShaped
<1>5. \A x \in ToRegister : x.id \in missed'
  BY <1>1
<1>6. RegistryInv'
  BY <1>0, <1>1, <1>3, <1>4, <1>5, HandlingKeepsRegistry
<1> QED
  BY <1>2, <1>6 DEF ProductsInv

\* RegistryPointsHome: a product is registered under the sku that it has, whatever the order of the
\* answers; one made by an answered write is registered, or about to be, unless its own registration
\* failed or the process died before it.
THEOREM RegistryIsTrue == ProductSpec => []RegistryPointsHome
<1>1. ProductInit => ProductsInv
  BY RegistryInitially
<1>2. ProductsInv /\ [ProductNext]_productVars => ProductsInv'
  BY ReadingsKeepRegistry, ReadKeepsRegistry, FindKeepsRegistry, PortalKeepsRegistry,
     BatchCreateKeepsRegistry, BatchUpdateKeepsRegistry, UpdateKeepsRegistry, CreateKeepsRegistry,
     RegisterResultKeepsRegistry, RegisterProductKeepsRegistry, RegisteredKeepsRegistry, DeathKeepsRegistry
     DEF ProductNext
<1>3. ProductsInv => RegistryPointsHome
  BY DEF ProductsInv, RegistryInv
<1> QED
  BY <1>1, <1>2, <1>3, PTL DEF ProductSpec

-----------------------------------------------------------------------------
(* Dropdowns.  HiddenOnlyWhenSapDropsIt rests on the options of a property being *)
(* one per value (PropertiesShaped), and on what a run has in hand: a list that  *)
(* some source offers, unless SAP changed since (FromSap).                       *)

\* Counting through a finite set of numbers meets each of its counts at an element.
LEMMA CountIsMet == ASSUME NEW N \in Nat, NEW chosen, chosen \subseteq 1 .. N,
                        NEW k \in Nat, 1 <= k, k <= Cardinality(chosen)
                 PROVE  \E n \in chosen : Cardinality(UpTo(chosen, n)) = k
<1> DEFINE Below(n) == UpTo(chosen, n)
<1>1. \A n \in Nat : IsFiniteSet(Below(n)) /\ Cardinality(Below(n)) \in Nat
  <2>1. IsFiniteSet(1 .. N)
    BY FS_Interval
  <2>2. \A n \in Nat : Below(n) \in SUBSET (1 .. N)
    BY DEF UpTo
  <2>3. \A n \in Nat : IsFiniteSet(Below(n))
    BY <2>1, <2>2, FS_Subset
  <2> HIDE DEF Below
  <2> QED
    BY <2>3, FS_CardinalityType
<1>0. \A m \in chosen : m \in Nat /\ 1 <= m /\ m <= N
  OBVIOUS
<1>2. Below(N) = chosen
  BY <1>0 DEF UpTo
<1>3. Below(0) = {}
  <2>1. \A m \in chosen : ~(m <= 0)
    BY <1>0
  <2> QED
    BY <2>1 DEF UpTo
<1>4. \A n \in 1 .. N : Below(n) = IF n \in chosen THEN Below(n - 1) \union {n} ELSE Below(n - 1)
  <2> SUFFICES ASSUME NEW n \in 1 .. N
               PROVE  Below(n) = IF n \in chosen THEN Below(n - 1) \union {n} ELSE Below(n - 1)
    OBVIOUS
  <2>1. \A m \in chosen : m <= n <=> m = n \/ m <= n - 1
    BY <1>0 DEF UpTo
  <2> QED
    BY <2>1 DEF UpTo
<1>5. \A n \in 1 .. N : n \notin Below(n - 1)
  BY <1>0 DEF UpTo
<1> HIDE DEF Below
<1> PICK count : count = [n \in Nat |-> Cardinality(Below(n))]
  OBVIOUS
<1>6. count \in [Nat -> Nat]
  BY <1>1
<1>7. count[N] >= k /\ count[0] = 0
  BY <1>2, <1>3, FS_EmptySet
<1>8. \A n \in 1 .. N : count[n] = IF n \in chosen THEN count[n - 1] + 1 ELSE count[n - 1]
  <2> SUFFICES ASSUME NEW n \in 1 .. N PROVE count[n] = IF n \in chosen THEN count[n - 1] + 1 ELSE count[n - 1]
    OBVIOUS
  <2>1. IsFiniteSet(Below(n - 1)) /\ n - 1 \in Nat /\ n \in Nat
    BY <1>1
  <2>2. Cardinality(Below(n - 1) \union {n}) = Cardinality(Below(n - 1)) + 1
    BY <1>5, <2>1, FS_AddElement
  <2> QED
    BY <1>4, <2>1, <2>2
<1> PICK T : T = {n \in 0 .. N : count[n] >= k}
  OBVIOUS
<1>9. PICK n \in T : \A y \in T : n <= y
  <2>1. N \in T /\ T \subseteq Nat
    BY <1>7
  <2> QED
    BY <2>1, Least
<1>10. n \in 1 .. N /\ count[n] >= k
  BY <1>7, <1>9
<1>11. count[n - 1] < k
  <2>1. n - 1 \in 0 .. N /\ n - 1 \notin T
    BY <1>9, <1>10
  <2> QED
    BY <1>6, <2>1
<1>12. n \in chosen /\ count[n] = k
  <2>1. count[n] \in Nat /\ count[n - 1] \in Nat
    BY <1>6, <1>10
  <2> QED
    BY <1>8, <1>10, <1>11, <2>1
<1> QED
  BY <1>10, <1>12 DEF Below

\* What is selected from a list is of the list, and each place is taken once.
LEMMA SelectedRows ==
    ASSUME NEW S, NEW list \in Seq(S), NEW places, places \subseteq DOMAIN list
    PROVE  /\ Selected(list, places) \in Seq(S)
           /\ \A k \in DOMAIN Selected(list, places) : \E n \in places : Selected(list, places)[k] = list[n]
           /\ \A k, j \in DOMAIN Selected(list, places) : k # j =>
                  \E n, m \in places : /\ n # m /\ Selected(list, places)[k] = list[n]
                                       /\ Selected(list, places)[j] = list[m]
<1> DEFINE C == Cardinality(places)
           Place(k) == CHOOSE n \in places : Cardinality(UpTo(places, n)) = k
<1>1. places \subseteq 1 .. Len(list) /\ Len(list) \in Nat
  OBVIOUS
<1>2. C \in Nat
  <2>1. IsFiniteSet(1 .. Len(list))
    BY <1>1, FS_Interval
  <2>2. IsFiniteSet(places)
    BY <1>1, <2>1, FS_Subset
  <2> QED
    BY <2>2, FS_CardinalityType
<1>3. \A k \in 1 .. C : Place(k) \in places /\ Cardinality(UpTo(places, Place(k))) = k
  <2> SUFFICES ASSUME NEW k \in 1 .. C PROVE \E n \in places : Cardinality(UpTo(places, n)) = k
    OBVIOUS
  <2>1. k \in Nat /\ 1 <= k /\ k <= C
    BY <1>2
  <2> QED
    BY <1>1, <2>1, CountIsMet
<1>4. Selected(list, places) = [k \in 1 .. C |-> list[Place(k)]]
  BY DEF Selected
<1> HIDE DEF C, Place
<1>5. DOMAIN Selected(list, places) = 1 .. C
  BY <1>4
<1>6. \A k \in 1 .. C : Selected(list, places)[k] = list[Place(k)] /\ list[Place(k)] \in S
  BY <1>1, <1>3, <1>4
<1>7. Selected(list, places) \in Seq(S)
  BY <1>2, <1>4, <1>6
<1>8. ASSUME NEW k \in 1 .. C, NEW j \in 1 .. C, k # j
      PROVE  \E n, m \in places : /\ n # m /\ Selected(list, places)[k] = list[n]
                                  /\ Selected(list, places)[j] = list[m]
  <2>1. Place(k) # Place(j)
    BY <1>3, <1>8
  <2> QED
    BY <1>3, <1>6, <2>1
<1> QED
  BY <1>3, <1>5, <1>6, <1>7, <1>8

OptionList(list) == list \in Seq(Option) /\ Distinct(list)
SapList(list) ==
    /\ list \in Seq(Range(list)) /\ Distinct(list)
    /\ \A n \in DOMAIN list : list[n].value \in Value /\ list[n].label \in Label

PropertiesShaped ==
    /\ DOMAIN property = Property
    /\ \A p \in Property : DOMAIN property[p] = {"kind", "options"} /\ OptionList(property[p].options)
CatalogsShaped == DOMAIN catalog = Source /\ \A s \in Source : catalog[s] \in Catalogs(s)

\* What a run holds for a field: options, one per value.
InHand(f) == sweep.sets[f] # Unclaimed
TargetOf(at) == at[1] \in Field /\ at[2] \in Property /\ at[2] \in mapping[at[1]] /\ InHand(at[1])
DropdownRun ==
    /\ DOMAIN sweep = DOMAIN NoRun
    /\ sweep.pc \in {"idle", "fetch", "token", "targets", "property", "patch"}
    /\ sweep.source \in Nat \ {0}
    /\ DOMAIN sweep.sets = Field
    /\ \A f \in Field : InHand(f) => SapList(sweep.sets[f])
    /\ sweep.pc \in {"property", "patch"} => \A at \in sweep.todo : TargetOf(at)
    /\ sweep.pc = "patch" => TargetOf(sweep.at) /\ OptionList(sweep.seen)
FromSap ==
    sweep.calm => \A f \in Field : InHand(f) => \E s \in Source : Offered(s, f) # <<>> /\ sweep.sets[f] = Offered(s, f)

DropdownInv == PropertiesShaped /\ CatalogsShaped /\ DropdownRun /\ FromSap

LEMMA OwnRange == ASSUME NEW S, NEW list \in Seq(S) PROVE list \in Seq(Range(list))
  BY DEF Range

LEMMA FirstsMakeOptions ==
    ASSUME NEW rows, RowsOfSap(rows)
    PROVE  SapList(BuildTargetOptions(rows))
<1> DEFINE firsts == FirstOfItsValue(rows)
           options == Selected(rows, firsts)
<1>1. rows \in Seq(Range(rows)) /\ firsts \subseteq DOMAIN rows /\ DOMAIN rows \subseteq Nat
  BY DEF RowsOfSap, FirstOfItsValue
<1>2. \A n \in firsts : rows[n].value \in Value /\ rows[n].label \in Label
  BY DEF RowsOfSap, FirstOfItsValue
<1>3. \A n, m \in firsts : n # m => rows[n].value # rows[m].value
  <2> SUFFICES ASSUME NEW n \in firsts, NEW m \in firsts, n < m PROVE rows[n].value # rows[m].value
    BY <1>1
  <2> QED
    BY DEF FirstOfItsValue
<1> HIDE DEF firsts
<1>4. /\ options \in Seq(Range(rows))
      /\ \A k \in DOMAIN options : \E n \in firsts : options[k] = rows[n]
      /\ \A k, j \in DOMAIN options : k # j =>
             \E n, m \in firsts : n # m /\ options[k] = rows[n] /\ options[j] = rows[m]
  BY <1>1, SelectedRows
<1> HIDE DEF options
<1>5. options \in Seq(Range(options))
  BY <1>4, OwnRange
<1>6. \A k \in DOMAIN options : options[k].value \in Value /\ options[k].label \in Label
  BY <1>2, <1>4
<1>7. Distinct(options)
  BY <1>3, <1>4 DEF Distinct
<1> QED
  BY <1>5, <1>6, <1>7 DEF SapList, BuildTargetOptions, options, firsts

LEMMA CapKeepsOptions ==
    ASSUME NEW list, SapList(list)
    PROVE  SapList(CapOptions(list))
<1> DEFINE n == IF Len(list) < Cap THEN Len(list) ELSE Cap
           cut == SubSeq(list, 1, n)
<1>1. list \in Seq(Range(list)) /\ n \in Nat /\ n <= Len(list)
  BY DropdownBounds DEF SapList
<1> HIDE DEF n
<1>2. cut \in Seq(Range(list)) /\ DOMAIN cut = 1 .. n /\ \A k \in 1 .. n : cut[k] = list[k]
  BY <1>1
<1>3. DOMAIN cut \subseteq DOMAIN list
  BY <1>1, <1>2
<1> HIDE DEF cut
<1>4. cut \in Seq(Range(cut))
  BY <1>2, OwnRange
<1> QED
  BY <1>2, <1>3, <1>4 DEF SapList, Distinct, CapOptions, cut, n

LEMMA EmptyIsSapList == SapList(<<>>)
  BY DEF SapList, Distinct, Range

\* What a source offers has one option per value.
LEMMA OfferedIsSapList ==
    ASSUME CatalogsShaped, NEW s \in Source, NEW f
    PROVE  SapList(Offered(s, f))
<1> DEFINE Shared == SapList(ExtractShared(s))
<1>1. CASE f \notin Feeds[s].fields
  BY <1>1, EmptyIsSapList DEF Offered
<1>2. CASE f \in Feeds[s].fields /\ ~Feeds[s].perRow
  <2>1. RowsOfSap(catalog[s])
    BY <1>2, CatalogsAreRows DEF CatalogsShaped
  <2>2. SapList(ExtractShared(s))
    BY <2>1, FirstsMakeOptions, CapKeepsOptions DEF ExtractShared
  <2> QED
    BY <1>2, <2>2 DEF Offered
<1>3. CASE f \in Feeds[s].fields /\ Feeds[s].perRow
  <2>1. catalog[s] \in Seq(Range(catalog[s])) /\ \A n \in DOMAIN catalog[s] : RowsOfSap(catalog[s][n].rows)
    BY <1>3, CatalogsAreRows DEF CatalogsShaped
  <2>2. Defines(s, f) \subseteq DOMAIN catalog[s] /\ Defines(s, f) \subseteq Nat
    BY <2>1 DEF Defines
  <2> DEFINE first == CHOOSE n \in Defines(s, f) : \A m \in Defines(s, f) : n <= m
  <2>3. CASE Defines(s, f) # {}
    <3>1. first \in Defines(s, f)
      BY <2>2, <2>3, Least
    <3> HIDE DEF first
    <3>2. SapList(CapOptions(BuildTargetOptions(catalog[s][first].rows)))
      BY <2>1, <2>2, <3>1, FirstsMakeOptions, CapKeepsOptions
    <3> QED
      BY <1>3, <2>3, <3>2 DEF Offered, ExtractPerRow, first
  <2>4. CASE Defines(s, f) = {}
    BY <1>3, <2>4, EmptyIsSapList DEF Offered, ExtractPerRow
  <2> QED
    BY <2>3, <2>4
<1> QED
  BY <1>1, <1>2, <1>3

\* A rewrite leaves an option per value, and hides only what the list does not have.
LEMMA MergeOfOptions ==
    ASSUME NEW existing, OptionList(existing), NEW sap, SapList(sap)
    PROVE  LET merged == MergePropertyOptions(existing, sap)
           IN  /\ OptionList(merged)
               /\ \A j \in DOMAIN merged : merged[j].hidden => merged[j].value \notin ValuesOf(sap)
<1> DEFINE gone == {n \in DOMAIN existing : existing[n].value \notin ValuesOf(sap)}
           kept == Selected(existing, gone)
           hidden == [i \in DOMAIN kept |-> [kept[i] EXCEPT !.hidden = TRUE]]
           merged == MergePropertyOptions(existing, sap)
           listed == Shown(existing, sap)
<1>a. gone \subseteq DOMAIN existing /\ existing \in Seq(Option)
  BY DEF OptionList
<1>2. \A n \in gone : existing[n].value \notin ValuesOf(sap)
  OBVIOUS
<1>3. \A n, m \in gone : n # m => existing[n].value # existing[m].value
  BY DEF OptionList, Distinct
<1>4. Obsolete(existing, sap) = hidden
  BY DEF Obsolete
<1> HIDE DEF gone
<1>1. /\ kept \in Seq(Option)
      /\ \A k \in DOMAIN kept : \E n \in gone : kept[k] = existing[n]
      /\ \A k, j \in DOMAIN kept : k # j => \E n, m \in gone : n # m /\ kept[k] = existing[n] /\ kept[j] = existing[m]
  BY <1>a, SelectedRows
<1> HIDE DEF kept
<1>5. \A i \in DOMAIN kept : /\ hidden[i] \in Option /\ hidden[i].value = kept[i].value /\ hidden[i].hidden = TRUE
  <2> SUFFICES ASSUME NEW i \in DOMAIN kept
               PROVE  hidden[i] \in Option /\ hidden[i].value = kept[i].value /\ hidden[i].hidden = TRUE
    OBVIOUS
  <2>1. kept[i] \in Option
    BY <1>1
  <2> QED
    BY <2>1 DEF Option
<1>6. DOMAIN hidden = DOMAIN kept /\ DOMAIN kept = 1 .. Len(kept) /\ Len(kept) \in Nat
      /\ hidden = [i \in 1 .. Len(kept) |-> hidden[i]]
  BY <1>1
<1> HIDE DEF hidden
<1>7. hidden \in Seq(Option) /\ Len(hidden) = Len(kept)
  BY <1>5, <1>6
<1>8. \A i \in DOMAIN hidden : hidden[i].value \notin ValuesOf(sap)
  BY <1>1, <1>2, <1>5, <1>6
<1>9. \A i, j \in DOMAIN hidden : i # j => hidden[i].value # hidden[j].value
  BY <1>1, <1>3, <1>5, <1>6
<1>10. sap \in Seq(Range(sap)) /\ \A i \in DOMAIN sap : sap[i].value \in Value /\ sap[i].label \in Label
  BY DEF SapList
<1>11. DOMAIN listed = DOMAIN sap /\ listed = [i \in DOMAIN sap |-> listed[i]]
       /\ \A i \in DOMAIN sap : /\ listed[i] \in Option /\ listed[i].value = sap[i].value /\ listed[i].hidden = FALSE
  BY <1>10 DEF Shown, Noted, Option
<1> HIDE DEF listed
<1>12. listed \in Seq(Option)
  BY <1>10, <1>11
<1>13. \A i \in DOMAIN listed : listed[i].value \in ValuesOf(sap)
  BY <1>11 DEF ValuesOf
<1>14. \A i, j \in DOMAIN listed : i # j => listed[i].value # listed[j].value
  BY <1>11 DEF SapList, Distinct
<1>15. merged = listed \o hidden
  BY <1>4 DEF MergePropertyOptions, listed, hidden
<1> HIDE DEF merged
<1>16. merged \in Seq(Option) /\ Len(merged) = Len(listed) + Len(hidden)
  BY <1>7, <1>12, <1>15, ConcatProperties
<1>17. \A j \in DOMAIN merged :
          \/ j \in DOMAIN listed /\ merged[j] = listed[j]
          \/ (j - Len(listed)) \in DOMAIN hidden /\ merged[j] = hidden[j - Len(listed)]
  BY <1>7, <1>12, <1>15, <1>16, ConcatProperties
<1>18. Distinct(merged)
  <2> SUFFICES ASSUME NEW i \in DOMAIN merged, NEW j \in DOMAIN merged, i # j
               PROVE  merged[i].value # merged[j].value
    BY DEF Distinct
  <2>1. i \in Int /\ j \in Int /\ Len(listed) \in Int
    BY <1>12, <1>16
  <2>2. i - Len(listed) # j - Len(listed)
    BY <2>1
  <2> QED
    BY <1>8, <1>9, <1>13, <1>14, <1>17, <2>2
<1>19. \A j \in DOMAIN merged : merged[j].hidden => merged[j].value \notin ValuesOf(sap)
  BY <1>8, <1>11, <1>17
<1> QED
  BY <1>16, <1>18, <1>19 DEF OptionList, merged

LEMMA SameOffers ==
    ASSUME catalog' = catalog
    PROVE  \A s \in Source, f \in Field : Offered(s, f)' = Offered(s, f)
  BY DEF Offered, ExtractShared, ExtractPerRow, Defines

\* A step that leaves what the run has in hand, the catalogs and the mappings as they are.
SameHands == sweep'.sets = sweep.sets /\ UNCHANGED <<catalog, mapping>>

LEMMA HandsStay ==
    ASSUME DropdownInv, SameHands, sweep'.calm = sweep.calm \/ sweep'.calm = FALSE
    PROVE  /\ CatalogsShaped' /\ FromSap'
           /\ \A f \in Field : InHand(f)' = InHand(f)
           /\ \A at : TargetOf(at) => TargetOf(at)'
<1>1. CatalogsShaped'
  BY DEF DropdownInv, CatalogsShaped, SameHands
<1>2. \A f \in Field : InHand(f)' = InHand(f)
  BY DEF InHand, SameHands
<1>3. \A at : TargetOf(at) => TargetOf(at)'
  BY <1>2 DEF TargetOf, SameHands
<1>4. FromSap'
  <2>1. \A s \in Source, f \in Field : Offered(s, f)' = Offered(s, f)
    BY SameOffers DEF SameHands
  <2> QED
    BY <1>2, <2>1 DEF DropdownInv, FromSap, SameHands
<1> QED
  BY <1>1, <1>2, <1>3, <1>4

\* A step of the run that only moves it on among the targets it has.
LEMMA RunMovesOn ==
    ASSUME DropdownInv, SameHands, PropertiesShaped',
           NEW pc, pc \in {"idle", "targets", "property"},
           DOMAIN sweep' = DOMAIN sweep, sweep'.source = sweep.source, sweep'.pc = pc,
           sweep'.calm = sweep.calm,
           pc = "property" => sweep.pc \in {"property", "patch"} /\ sweep'.todo \subseteq sweep.todo
    PROVE  DropdownInv'
<1>1. /\ CatalogsShaped' /\ FromSap'
      /\ \A f \in Field : InHand(f)' = InHand(f)
      /\ \A at : TargetOf(at) => TargetOf(at)'
  BY HandsStay
<1>2. sweep'.pc \in {"property", "patch"} => \A at \in sweep'.todo : TargetOf(at)'
  BY <1>1 DEF DropdownInv, DropdownRun
<1>3. DropdownRun'
  BY <1>1, <1>2 DEF DropdownInv, DropdownRun, SameHands
<1> QED
  BY <1>1, <1>3 DEF DropdownInv

LEMMA DropdownsStartShaped == DropdownInit => DropdownInv
<1> SUFFICES ASSUME DropdownInit PROVE DropdownInv
  OBVIOUS
<1>1. PropertiesShaped
  <2> SUFFICES ASSUME NEW p \in Property
               PROVE  DOMAIN property[p] = {"kind", "options"} /\ OptionList(property[p].options)
    BY DEF DropdownInit, PropertiesShaped
  <2>1. property[p] \in [kind : {"enumeration", "other", "invalidName"}, options : Lists]
    BY DEF DropdownInit
  <2> QED
    BY <2>1, ListsAreOptions DEF OptionList
<1>2. CatalogsShaped
  BY DEF DropdownInit, CatalogsShaped
<1>3. sweep = NoRun
  BY DEF DropdownInit
<1>4. \A f \in Field : ~InHand(f)
  BY <1>3 DEF InHand, NoRun
<1>5. sweep.pc = "idle" /\ sweep.source = 1 /\ DOMAIN sweep.sets = Field
  BY <1>3 DEF NoRun
<1> QED
  BY <1>1, <1>2, <1>3, <1>4, <1>5 DEF DropdownInv, DropdownRun, FromSap

LEMMA StartKeepsDropdowns == DropdownInv /\ StartDropdownRun => DropdownInv'
<1> SUFFICES ASSUME DropdownInv, StartDropdownRun PROVE DropdownInv'
  OBVIOUS
<1>1. UNCHANGED <<property, catalog, mapping>>
  BY DEF StartDropdownRun, Quiet
<1>2. /\ DOMAIN sweep' = DOMAIN NoRun /\ sweep'.pc \in {"idle", "fetch"}
      /\ sweep'.source = 1 /\ sweep'.sets = [f \in Field |-> Unclaimed]
  BY DEF StartDropdownRun, NoRun
<1>3. \A f \in Field : ~InHand(f)'
  BY <1>2 DEF InHand
<1>4. PropertiesShaped' /\ CatalogsShaped'
  BY <1>1 DEF DropdownInv, PropertiesShaped, CatalogsShaped
<1>5. DropdownRun'
  BY <1>2, <1>3 DEF DropdownRun, NoRun
<1> QED
  BY <1>3, <1>4, <1>5 DEF DropdownInv, FromSap

LEMMA FetchKeepsDropdowns == DropdownInv /\ FetchRows => DropdownInv'
<1> SUFFICES ASSUME DropdownInv, FetchRows PROVE DropdownInv'
  OBVIOUS
<1>1. UNCHANGED <<property, catalog, mapping>>
  BY DEF FetchRows, Quiet
<1>2. sweep.source \in Source
  BY FeedsAreListed DEF FetchRows, Unfetched, DropdownInv, DropdownRun, Source
<1>3. /\ DOMAIN sweep' = DOMAIN sweep /\ sweep'.pc = "fetch" /\ sweep'.source = sweep.source + 1
      /\ sweep'.sets = [f \in Field |-> FirstClaim(sweep.source, f)] /\ sweep'.calm = sweep.calm
  BY DEF FetchRows, Unfetched, DropdownInv, DropdownRun, NoRun
<1>4. \A f \in Field : InHand(f)' => \/ InHand(f) /\ sweep'.sets[f] = sweep.sets[f]
                                     \/ /\ Offered(sweep.source, f) # <<>>
                                        /\ sweep'.sets[f] = Offered(sweep.source, f)
  BY <1>3 DEF InHand, FirstClaim, Claims
<1>5. \A s \in Source, f \in Field : Offered(s, f)' = Offered(s, f)
  BY <1>1, SameOffers
<1>6. FromSap'
  BY <1>2, <1>3, <1>4, <1>5 DEF FromSap, DropdownInv
<1>7. \A f \in Field : SapList(Offered(sweep.source, f))
  BY <1>2, OfferedIsSapList DEF DropdownInv
<1>8. \A f \in Field : InHand(f)' => SapList(sweep'.sets[f])
  BY <1>4, <1>7 DEF DropdownInv, DropdownRun
<1>9. PropertiesShaped' /\ CatalogsShaped'
  BY <1>1 DEF DropdownInv, PropertiesShaped, CatalogsShaped
<1>10. \A f \in Field : InHand(f)' => SapList(sweep.sets[f])'
  BY <1>8
<1>11. sweep'.source \in Nat \ {0}
  BY <1>3 DEF DropdownInv, DropdownRun
<1>12. DOMAIN sweep'.sets = Field
  BY <1>3
<1>13. DropdownRun'
  BY <1>3, <1>10, <1>11, <1>12 DEF DropdownInv, DropdownRun
<1> QED
  BY <1>6, <1>9, <1>13 DEF DropdownInv

LEMMA FetchFailsKeepsDropdowns == DropdownInv /\ FetchRowsFails => DropdownInv'
<1> SUFFICES ASSUME DropdownInv, FetchRowsFails PROVE DropdownInv'
  OBVIOUS
<1>1. PropertiesShaped'
  BY DEF FetchRowsFails, DropdownInv, PropertiesShaped
<1>2. /\ DOMAIN sweep' = DOMAIN sweep /\ sweep'.pc = "fetch" /\ sweep'.source = sweep.source + 1
      /\ sweep'.sets = sweep.sets /\ sweep'.calm = sweep.calm
  BY DEF FetchRowsFails, Unfetched, DropdownInv, DropdownRun, NoRun
<1>3. SameHands
  BY <1>2 DEF SameHands, FetchRowsFails, Quiet
<1>4. /\ CatalogsShaped' /\ FromSap' /\ \A f \in Field : InHand(f)' = InHand(f)
  BY <1>2, <1>3, HandsStay
<1>5. sweep'.source \in Nat \ {0}
  BY <1>2 DEF DropdownInv, DropdownRun
<1>6. DropdownRun'
  BY <1>2, <1>4, <1>5 DEF DropdownInv, DropdownRun
<1> QED
  BY <1>1, <1>4, <1>6 DEF DropdownInv

LEMMA TargetsAreHeld == DropdownInv /\ FindTargets => DropdownInv'
<1> SUFFICES ASSUME DropdownInv, FindTargets PROVE DropdownInv'
  OBVIOUS
<1>1. PropertiesShaped'
  BY DEF FindTargets, DropdownInv, PropertiesShaped
<1>2. /\ DOMAIN sweep' = DOMAIN sweep /\ sweep'.pc = "property" /\ sweep'.source = sweep.source
      /\ sweep'.sets = sweep.sets /\ sweep'.calm = sweep.calm /\ sweep'.todo = Targets
  BY DEF FindTargets, DropdownInv, DropdownRun, NoRun
<1>3. SameHands
  BY <1>2 DEF SameHands, FindTargets, Quiet
<1>4. /\ CatalogsShaped' /\ FromSap' /\ \A f \in Field : InHand(f)' = InHand(f)
      /\ \A at : TargetOf(at) => TargetOf(at)'
  BY <1>2, <1>3, HandsStay
<1>5. \A at \in Targets : TargetOf(at)
  BY DEF Targets, Claimed, TargetOf, InHand
<1>6. DropdownRun'
  BY <1>2, <1>4, <1>5 DEF DropdownInv, DropdownRun
<1> QED
  BY <1>1, <1>4, <1>6 DEF DropdownInv

LEMMA ReadKeepsDropdowns ==
    ASSUME DropdownInv, NEW f \in Field, NEW p \in Property, FindProperty(f, p)
    PROVE  DropdownInv'
<1>1. PropertiesShaped'
  BY DEF FindProperty, DropdownInv, PropertiesShaped
<1>2. /\ DOMAIN sweep' = DOMAIN sweep /\ sweep'.pc = "patch" /\ sweep'.source = sweep.source
      /\ sweep'.sets = sweep.sets /\ sweep'.calm = sweep.calm /\ sweep'.todo \subseteq sweep.todo
      /\ sweep'.at = <<f, p>> /\ sweep'.seen = property[p].options
  BY DEF FindProperty, Counted, DropdownInv, DropdownRun, NoRun
<1>3. SameHands
  BY <1>2 DEF SameHands, FindProperty, Quiet
<1>4. /\ CatalogsShaped' /\ FromSap' /\ \A g \in Field : InHand(g)' = InHand(g)
      /\ \A at : TargetOf(at) => TargetOf(at)'
  BY <1>2, <1>3, HandsStay
<1>5. TargetOf(<<f, p>>) /\ \A at \in sweep.todo : TargetOf(at)
  BY DEF FindProperty, TakeTarget, DropdownInv, DropdownRun
<1>6. OptionList(property[p].options)
  BY DEF DropdownInv, PropertiesShaped
<1>7. DropdownRun'
  BY <1>2, <1>4, <1>5, <1>6 DEF DropdownInv, DropdownRun
<1> QED
  BY <1>1, <1>4, <1>7 DEF DropdownInv

\* The rewrite: the property gets options one per value, and hides only what the source lacks.
LEMMA RewriteOfOptions ==
    ASSUME DropdownInv, UpdatePropertyOptions
    PROVE  LET f == sweep.at[1]
               p == sweep.at[2]
           IN  /\ TargetOf(sweep.at) /\ DropdownInv'
               /\ property' = [property EXCEPT ![p].options = property'[p].options]
               /\ \A j \in DOMAIN property'[p].options :
                      property'[p].options[j].hidden => property'[p].options[j].value \notin ValuesOf(sweep.sets[f])
<1> DEFINE f == sweep.at[1]
           p == sweep.at[2]
           merged == MergePropertyOptions(sweep.seen, sweep.sets[f])
<1>1. TargetOf(sweep.at) /\ f \in Field /\ p \in Property /\ SapList(sweep.sets[f]) /\ OptionList(sweep.seen)
  BY DEF UpdatePropertyOptions, DropdownInv, DropdownRun, TargetOf
<1>2. /\ OptionList(merged)
      /\ \A j \in DOMAIN merged : merged[j].hidden => merged[j].value \notin ValuesOf(sweep.sets[f])
  BY <1>1, MergeOfOptions
<1>3. property' = [property EXCEPT ![p].options = merged]
  BY DEF UpdatePropertyOptions
<1> HIDE DEF merged
<1>4. property'[p].options = merged
  BY <1>1, <1>3 DEF DropdownInv, PropertiesShaped
<1>5. PropertiesShaped'
  <2>1. DOMAIN property' = Property
    BY <1>3 DEF DropdownInv, PropertiesShaped
  <2>2. \A q \in Property \ {p} : property'[q] = property[q]
    BY <1>3 DEF DropdownInv, PropertiesShaped
  <2>3. DOMAIN property'[p] = {"kind", "options"}
    BY <1>1, <1>3 DEF DropdownInv, PropertiesShaped
  <2>4. OptionList(property'[p].options)
    BY <1>2, <1>4
  <2> QED
    BY <2>1, <2>2, <2>3, <2>4 DEF DropdownInv, PropertiesShaped
<1>6. /\ DOMAIN sweep' = DOMAIN sweep /\ sweep'.pc = "property" /\ sweep'.source = sweep.source
      /\ sweep'.sets = sweep.sets /\ sweep'.calm = sweep.calm /\ sweep'.todo = sweep.todo
      /\ sweep.pc = "patch"
  BY DEF UpdatePropertyOptions, DropdownInv, DropdownRun, NoRun
<1>7. SameHands
  BY <1>6 DEF SameHands, UpdatePropertyOptions, Quiet
<1>8. DropdownInv'
  BY <1>5, <1>6, <1>7, RunMovesOn
<1> QED
  BY <1>1, <1>2, <1>3, <1>4, <1>8

\* What the run does beside reading and writing a property.
MovesOn == \/ ResolveAccessToken \/ RunFails \/ UpdatePropertyOptionsFails \/ FinishRun
           \/ \E f \in Field, p \in Property :
                  SkipTarget(f, p) \/ FindPropertyFails(f, p) \/ AlreadyUpToDate(f, p)

LEMMA MovingOnKeepsDropdowns == DropdownInv /\ MovesOn => DropdownInv'
<1> SUFFICES ASSUME DropdownInv, MovesOn PROVE DropdownInv'
  OBVIOUS
<1>1. UNCHANGED <<property, catalog, mapping>>
  BY DEF MovesOn, ResolveAccessToken, RunFails, UpdatePropertyOptionsFails, FinishRun,
         SkipTarget, FindPropertyFails, AlreadyUpToDate, Quiet
<1>2. PropertiesShaped'
  BY <1>1 DEF DropdownInv, PropertiesShaped
<1>3. DOMAIN sweep = DOMAIN NoRun
  BY DEF DropdownInv, DropdownRun
<1>4. \/ sweep' = [sweep EXCEPT !.pc = "targets"]
      \/ \E status : sweep' = [sweep EXCEPT !.pc = "idle", !.status = status]
      \/ /\ sweep.pc = "patch"
         /\ sweep' = [sweep EXCEPT !.pc = "property", !.seen = <<>>, !.failed = @ + 1, !.faultless = FALSE]
      \/ /\ sweep.pc = "property"
         /\ \E f \in Field, p \in Property :
                \/ sweep' = Counted(f, p, [sweep EXCEPT !.skipped = @ + 1])
                \/ sweep' = FailedRead(f, p)
                \/ sweep' = Counted(f, p, [sweep EXCEPT !.unchanged = @ + 1])
  BY DEF MovesOn, ResolveAccessToken, RunFails, UpdatePropertyOptionsFails, FinishRun, Finish,
         SkipTarget, FindPropertyFails, AlreadyUpToDate, TakeTarget
<1>a. \A moved, f, p : DOMAIN moved = DOMAIN NoRun =>
         LET c == Counted(f, p, moved)
         IN  /\ DOMAIN c = DOMAIN NoRun /\ c.source = moved.source /\ c.sets = moved.sets /\ c.calm = moved.calm
             /\ c.pc = moved.pc /\ c.todo \subseteq moved.todo
  BY DEF Counted, NoRun
<1> DEFINE AsBefore(moved) == /\ DOMAIN moved = DOMAIN NoRun /\ moved.source = sweep.source /\ moved.sets = sweep.sets
                          /\ moved.calm = sweep.calm /\ moved.pc = sweep.pc /\ moved.todo = sweep.todo
<1>b. \A f, p : \E moved : AsBefore(moved) /\ FailedRead(f, p) = Counted(f, p, moved)
  <2> SUFFICES ASSUME NEW f, NEW p PROVE \E moved : AsBefore(moved) /\ FailedRead(f, p) = Counted(f, p, moved)
    OBVIOUS
  <2>1. FailedRead(f, p) = Counted(f, p, [sweep EXCEPT !.failed = @ + 1, !.faultless = FALSE])
    BY DEF FailedRead
  <2>2. AsBefore([sweep EXCEPT !.failed = @ + 1, !.faultless = FALSE])
    BY <1>3 DEF NoRun
  <2> QED
    BY <2>1, <2>2
<1>c. AsBefore([sweep EXCEPT !.skipped = @ + 1]) /\ AsBefore([sweep EXCEPT !.unchanged = @ + 1])
  BY <1>3 DEF NoRun
<1>d. (\E f, p, moved : sweep' = Counted(f, p, moved) /\ AsBefore(moved) /\ sweep.pc = "property") =>
         /\ DOMAIN sweep' = DOMAIN sweep /\ sweep'.source = sweep.source
         /\ sweep'.sets = sweep.sets /\ sweep'.calm = sweep.calm
         /\ sweep'.pc = "property" /\ sweep.pc = "property" /\ sweep'.todo \subseteq sweep.todo
  BY <1>3, <1>a
<1>e. \/ sweep' = [sweep EXCEPT !.pc = "targets"]
      \/ \E status : sweep' = [sweep EXCEPT !.pc = "idle", !.status = status]
      \/ /\ sweep.pc = "patch"
         /\ sweep' = [sweep EXCEPT !.pc = "property", !.seen = <<>>, !.failed = @ + 1, !.faultless = FALSE]
      \/ \E f, p, moved : sweep' = Counted(f, p, moved) /\ AsBefore(moved) /\ sweep.pc = "property"
  <2>1. CASE sweep.pc = "property" /\ \E f \in Field, p \in Property :
                \/ sweep' = Counted(f, p, [sweep EXCEPT !.skipped = @ + 1])
                \/ sweep' = FailedRead(f, p)
                \/ sweep' = Counted(f, p, [sweep EXCEPT !.unchanged = @ + 1])
    <3>1. PICK f \in Field, p \in Property :
                \/ sweep' = Counted(f, p, [sweep EXCEPT !.skipped = @ + 1])
                \/ sweep' = FailedRead(f, p)
                \/ sweep' = Counted(f, p, [sweep EXCEPT !.unchanged = @ + 1])
      BY <2>1
    <3> HIDE DEF AsBefore
    <3>2. \E moved : sweep' = Counted(f, p, moved) /\ AsBefore(moved)
      BY <3>1, <1>b, <1>c
    <3> QED
      BY <2>1, <3>2
  <2> QED
    BY <1>4, <2>1
<1> HIDE DEF AsBefore
<1>5. /\ DOMAIN sweep' = DOMAIN sweep /\ sweep'.source = sweep.source
      /\ sweep'.sets = sweep.sets /\ sweep'.calm = sweep.calm
  BY <1>3, <1>d, <1>e DEF NoRun
<1>6. \/ sweep'.pc \in {"idle", "targets"}
      \/ sweep'.pc = "property" /\ sweep.pc \in {"property", "patch"} /\ sweep'.todo \subseteq sweep.todo
  BY <1>3, <1>d, <1>e DEF NoRun
<1>7. SameHands
  BY <1>1, <1>5 DEF SameHands
<1> QED
  BY <1>2, <1>5, <1>6, <1>7, RunMovesOn

\* Somebody edits: the run is no longer calm.
LEMMA EditEndsTheCalm ==
    ASSUME DropdownInv, Edit
    PROVE  /\ sweep'.calm = FALSE /\ sweep'.sets = sweep.sets /\ mapping' = mapping
           /\ DropdownRun' /\ FromSap'
<1>1. /\ DOMAIN sweep' = DOMAIN sweep /\ sweep'.source = sweep.source /\ sweep'.pc = sweep.pc
      /\ sweep'.sets = sweep.sets /\ sweep'.calm = FALSE /\ sweep'.todo = sweep.todo
      /\ sweep'.at = sweep.at /\ sweep'.seen = sweep.seen /\ mapping' = mapping
  BY DEF Edit, DropdownInv, DropdownRun, NoRun
<1>2. /\ \A f \in Field : InHand(f)' = InHand(f)
      /\ \A at : TargetOf(at) => TargetOf(at)'
  BY <1>1 DEF InHand, TargetOf
<1>3. DropdownRun'
  BY <1>1, <1>2 DEF DropdownInv, DropdownRun
<1> QED
  BY <1>1, <1>3 DEF FromSap

LEMMA CatalogEditKeepsDropdowns ==
    ASSUME DropdownInv, NEW s \in Source, CatalogChanges(s)
    PROVE  DropdownInv'
<1>1. DropdownRun' /\ FromSap' /\ property' = property
  BY EditEndsTheCalm DEF CatalogChanges
<1>2. PICK rows \in Catalogs(s) : catalog' = [catalog EXCEPT ![s] = rows]
  BY DEF CatalogChanges
<1>3. CatalogsShaped'
  BY <1>2 DEF DropdownInv, CatalogsShaped
<1> QED
  BY <1>1, <1>3 DEF DropdownInv, PropertiesShaped

LEMMA AddedOptionKeepsDropdowns ==
    ASSUME DropdownInv, NEW p \in Property, NEW v \in Value, SomeoneAdds(p, v)
    PROVE  DropdownInv'
<1> DEFINE old == property[p].options
           added == [value |-> v, label |-> 1, hidden |-> FALSE, note |-> TRUE]
           new == Append(old, added)
<1>1. DropdownRun' /\ FromSap' /\ catalog' = catalog
  BY EditEndsTheCalm DEF SomeoneAdds
<1>2. property' = [property EXCEPT ![p].options = new] /\ v \notin ValuesOf(old)
  BY DEF SomeoneAdds
<1>a. added \in Option /\ added.value = v
  BY DEF Option, Label
<1>b. old \in Seq(Option) /\ Distinct(old)
  BY DEF DropdownInv, PropertiesShaped, OptionList
<1>3. old \in Seq(Option) /\ Distinct(old) /\ added \in Option /\ added.value = v
  BY <1>a, <1>b
<1> HIDE DEF added, old
<1>4. /\ new \in Seq(Option) /\ Len(new) = Len(old) + 1 /\ new[Len(old) + 1] = added
      /\ \A j \in DOMAIN old : new[j] = old[j]
  BY <1>3
<1>5. Len(old) \in Nat /\ DOMAIN old = 1 .. Len(old) /\ DOMAIN new = 1 .. (Len(old) + 1)
  BY <1>3, <1>4
<1>6. \A j \in DOMAIN new : j \in DOMAIN old \/ j = Len(old) + 1
  BY <1>5
<1> HIDE DEF new
<1>7. \A j \in DOMAIN old : old[j].value # v
  BY <1>2 DEF ValuesOf
<1>8. Distinct(new)
  BY <1>3, <1>4, <1>6, <1>7 DEF Distinct
<1>9. OptionList(new)
  BY <1>4, <1>8 DEF OptionList
<1>10. PropertiesShaped'
  BY <1>2, <1>9 DEF DropdownInv, PropertiesShaped
<1>11. CatalogsShaped'
  BY <1>1 DEF DropdownInv, CatalogsShaped
<1> QED
  BY <1>1, <1>10, <1>11 DEF DropdownInv

LEMMA HiddenOptionKeepsDropdowns ==
    ASSUME DropdownInv, NEW p \in Property, NEW i \in DOMAIN property[p].options, SomeoneHides(p, i)
    PROVE  DropdownInv'
<1> DEFINE old == property[p].options
           new == [old EXCEPT ![i].hidden = TRUE]
<1>1. DropdownRun' /\ FromSap' /\ catalog' = catalog
  BY EditEndsTheCalm DEF SomeoneHides
<1>2. property' = [property EXCEPT ![p].options = new]
  BY DEF SomeoneHides, DropdownInv, PropertiesShaped
<1>3. old \in Seq(Option) /\ Distinct(old) /\ i \in DOMAIN old
  BY DEF DropdownInv, PropertiesShaped, OptionList
<1> HIDE DEF old
<1>4. DOMAIN new = DOMAIN old /\ \A j \in DOMAIN old : new[j] \in Option /\ new[j].value = old[j].value
  <2> SUFFICES ASSUME NEW j \in DOMAIN old PROVE new[j] \in Option /\ new[j].value = old[j].value
    OBVIOUS
  <2>1. old[j] \in Option
    BY <1>3
  <2> QED
    BY <1>3, <2>1 DEF Option
<1>5. new = [j \in DOMAIN old |-> new[j]]
  BY <1>3
<1> HIDE DEF new
<1>b. DOMAIN old = 1 .. Len(old) /\ Len(old) \in Nat
  BY <1>3
<1>6. new \in Seq(Option)
  BY <1>4, <1>5, <1>b
<1>7. OptionList(new)
  BY <1>3, <1>4, <1>6 DEF OptionList, Distinct
<1>8. PropertiesShaped'
  BY <1>2, <1>7 DEF DropdownInv, PropertiesShaped
<1>9. CatalogsShaped'
  BY <1>1 DEF DropdownInv, CatalogsShaped
<1> QED
  BY <1>1, <1>8, <1>9 DEF DropdownInv

LEMMA DropdownsKeepShape == DropdownInv /\ [DropdownNext]_dropdownVars => DropdownInv'
<1> SUFFICES ASSUME DropdownInv, [DropdownNext]_dropdownVars PROVE DropdownInv'
  OBVIOUS
<1>1. CASE StartDropdownRun
  BY <1>1, StartKeepsDropdowns
<1>2. CASE FetchRows
  BY <1>2, FetchKeepsDropdowns
<1>3. CASE FetchRowsFails
  BY <1>3, FetchFailsKeepsDropdowns
<1>4. CASE FindTargets
  BY <1>4, TargetsAreHeld
<1>5. CASE MovesOn
  BY <1>5, MovingOnKeepsDropdowns
<1>6. CASE \E f \in Field, p \in Property : FindProperty(f, p)
  BY <1>6, ReadKeepsDropdowns
<1>7. CASE UpdatePropertyOptions
  BY <1>7, RewriteOfOptions
<1>8. CASE \E s \in Source : CatalogChanges(s)
  BY <1>8, CatalogEditKeepsDropdowns
<1>9. CASE \E p \in Property, v \in Value : SomeoneAdds(p, v)
  BY <1>9, AddedOptionKeepsDropdowns
<1>10. CASE \E p \in Property : \E i \in DOMAIN property[p].options : SomeoneHides(p, i)
  BY <1>10, HiddenOptionKeepsDropdowns
<1>11. CASE UNCHANGED dropdownVars
  <2>1. UNCHANGED <<property, catalog, mapping, sweep>>
    BY <1>11 DEF dropdownVars
  <2>2. \A s \in Source, f \in Field : Offered(s, f)' = Offered(s, f)
    BY <2>1, SameOffers
  <2>3. FromSap'
    BY <2>1, <2>2 DEF DropdownInv, FromSap, InHand
  <2>4. PropertiesShaped' /\ CatalogsShaped' /\ DropdownRun'
    BY <2>1 DEF DropdownInv, PropertiesShaped, CatalogsShaped, DropdownRun, InHand, TargetOf
  <2> QED
    BY <2>3, <2>4 DEF DropdownInv
<1> QED
  BY <1>1, <1>2, <1>3, <1>4, <1>5, <1>6, <1>7, <1>8, <1>9, <1>10, <1>11 DEF DropdownNext, MovesOn

\* A step that hides an option is a rewrite from a list that some source offers without it.
LEMMA HidingIsARewrite ==
    ASSUME DropdownInv, [DropdownNext]_dropdownVars, sweep'.calm,
           NEW p \in Property, NEW i \in DOMAIN property[p].options, ~property[p].options[i].hidden,
           NEW j \in DOMAIN property'[p].options, property'[p].options[j].hidden,
           property'[p].options[j].value = property[p].options[i].value
    PROVE  \E s \in Source, f \in Field :
               p \in mapping[f] /\ Offered(s, f) # <<>> /\ property[p].options[i].value \notin ValuesOf(Offered(s, f))
<1>1. property'[p] # property[p]
  BY DEF DropdownInv, PropertiesShaped, OptionList, Distinct
<1>2. \/ UpdatePropertyOptions \/ Edit \/ property' = property
  BY DEF DropdownNext, dropdownVars, StartDropdownRun, FetchRows, FetchRowsFails, ResolveAccessToken, RunFails,
         FindTargets, SkipTarget, FindPropertyFails, AlreadyUpToDate, FindProperty,
         UpdatePropertyOptionsFails, FinishRun, CatalogChanges, SomeoneAdds, SomeoneHides
<1>3. CASE Edit
  BY <1>3, EditEndsTheCalm
<1>4. CASE UpdatePropertyOptions
  <2> DEFINE f == sweep.at[1]
             q == sweep.at[2]
  <2>1. /\ TargetOf(sweep.at)
        /\ property' = [property EXCEPT ![q].options = property'[q].options]
        /\ \A k \in DOMAIN property'[q].options :
               property'[q].options[k].hidden => property'[q].options[k].value \notin ValuesOf(sweep.sets[f])
    BY <1>4, RewriteOfOptions
  <2>2. p = q
    BY <1>1, <2>1 DEF DropdownInv, PropertiesShaped
  <2>3. property[p].options[i].value \notin ValuesOf(sweep.sets[f])
    BY <2>1, <2>2
  <2>4. sweep.calm
    BY <1>4 DEF UpdatePropertyOptions, DropdownInv, DropdownRun, NoRun
  <2>5. f \in Field /\ p \in mapping[f] /\ InHand(f)
    BY <2>1, <2>2 DEF TargetOf
  <2>6. \E s \in Source : Offered(s, f) # <<>> /\ sweep.sets[f] = Offered(s, f)
    BY <2>4, <2>5 DEF DropdownInv, FromSap
  <2> QED
    BY <2>3, <2>5, <2>6
<1> QED
  BY <1>1, <1>2, <1>3, <1>4

\* An option disappears from a dropdown only because a source of a field mapped to it lists
\* others (collectOptionSets, mergePropertyOptions): HiddenOnlyWhenSapDropsIt.
THEOREM OptionsHiddenBySap == DropdownSpec => HiddenOnlyWhenSapDropsIt
<1>1. DropdownInit => DropdownInv
  BY DropdownsStartShaped
<1>2. DropdownInv /\ [DropdownNext]_dropdownVars => DropdownInv'
  BY DropdownsKeepShape
<1>3. DropdownInv /\ [DropdownNext]_dropdownVars =>
        (sweep'.calm => \A p \in Property : \A i \in DOMAIN property[p].options :
           LET o == property[p].options[i]
           IN  (~o.hidden /\ \E j \in DOMAIN property'[p].options :
                    property'[p].options[j].value = o.value /\ property'[p].options[j].hidden) =>
               \E s \in Source, f \in Field :
                   p \in mapping[f] /\ Offered(s, f) # <<>> /\ o.value \notin ValuesOf(Offered(s, f)))
  BY HidingIsARewrite
<1> QED
  BY <1>1, <1>2, <1>3, PTL DEF DropdownSpec, HiddenOnlyWhenSapDropsIt

-----------------------------------------------------------------------------
(* NothingVanishes.  A rewrite merges what the run has read; as long as nobody   *)
(* writes, that is what the property holds (SeenIsNow).                          *)

SeenIsNow == (sweep.pc = "patch" /\ sweep.calm) => sweep.seen = property[sweep.at[2]].options

LEMMA SelectedTakesAll ==
    ASSUME NEW S, NEW list \in Seq(S), NEW places, places \subseteq DOMAIN list, NEW n \in places
    PROVE  \E k \in DOMAIN Selected(list, places) : Selected(list, places)[k] = list[n]
<1> DEFINE C == Cardinality(places)
           Count(m) == Cardinality(UpTo(places, m))
           Place(k) == CHOOSE m \in places : Count(m) = k
<1>1. IsFiniteSet(places) /\ places \subseteq Nat
  <2>1. Len(list) \in Nat /\ places \subseteq 1 .. Len(list)
    OBVIOUS
  <2>2. IsFiniteSet(1 .. Len(list))
    BY <2>1, FS_Interval
  <2> QED
    BY <2>1, <2>2, FS_Subset
<1>2. \A m \in Nat : /\ UpTo(places, m) \in SUBSET places /\ IsFiniteSet(UpTo(places, m))
                     /\ Count(m) \in Nat /\ Count(m) <= C
  <2> SUFFICES ASSUME NEW m \in Nat
               PROVE  /\ UpTo(places, m) \in SUBSET places /\ IsFiniteSet(UpTo(places, m))
                      /\ Count(m) \in Nat /\ Count(m) <= C
    OBVIOUS
  <2>1. UpTo(places, m) \in SUBSET places
    BY DEF UpTo
  <2> QED
    BY <1>1, <2>1, FS_Subset, FS_CardinalityType
<1>3. C \in Nat
  BY <1>1, FS_CardinalityType
<1>4. ASSUME NEW m \in places, NEW l \in places, m < l PROVE Count(m) < Count(l)
  <2>1. UpTo(places, m) \in SUBSET UpTo(places, l) /\ l \in UpTo(places, l) /\ l \notin UpTo(places, m)
    BY <1>1, <1>4 DEF UpTo
  <2>2. UpTo(places, m) # UpTo(places, l) /\ l \in Nat /\ m \in Nat
    BY <1>1, <2>1
  <2>3. IsFiniteSet(UpTo(places, l)) /\ Count(m) \in Nat /\ Count(l) \in Nat
    BY <1>2, <2>2
  <2>4. /\ Count(m) <= Count(l)
        /\ Count(m) = Count(l) => UpTo(places, m) = UpTo(places, l)
    BY <2>1, <2>3, FS_Subset
  <2> QED
    BY <2>2, <2>3, <2>4
<1>5. n \in UpTo(places, n) /\ n \in Nat
  BY <1>1 DEF UpTo
<1>6. Count(n) \in 1 .. C
  <2>1. Count(n) # 0
    BY <1>2, <1>5, FS_EmptySet
  <2> QED
    BY <1>2, <1>3, <1>5, <2>1
<1>7. Selected(list, places) = [k \in 1 .. C |-> list[Place(k)]]
  BY DEF Selected
<1>8. Place(Count(n)) \in places /\ Count(Place(Count(n))) = Count(n)
  OBVIOUS
<1> HIDE DEF Place
<1>9. Place(Count(n)) = n
  <2>1. \A m \in places : m # n => Count(m) # Count(n)
    <3> SUFFICES ASSUME NEW m \in places, m # n PROVE Count(m) # Count(n)
      OBVIOUS
    <3>1. m \in Nat /\ n \in Nat
      BY <1>1
    <3>2. m < n \/ n < m
      BY <3>1
    <3>3. Count(m) \in Nat /\ Count(n) \in Nat
      BY <1>2, <3>1
    <3> HIDE DEF Count
    <3> QED
      BY <1>4, <3>2, <3>3
  <2> QED
    BY <1>8, <2>1
<1> HIDE DEF Count, C
<1> QED
  BY <1>6, <1>7, <1>9

\* A rewrite keeps every option the list had, and what people wrote beside it.
LEMMA MergeKeepsOptions ==
    ASSUME NEW existing, OptionList(existing), NEW sap, SapList(sap), NEW i \in DOMAIN existing
    PROVE  LET merged == MergePropertyOptions(existing, sap)
           IN  \E j \in DOMAIN merged : merged[j].value = existing[i].value /\ merged[j].note = existing[i].note
<1> DEFINE gone == {n \in DOMAIN existing : existing[n].value \notin ValuesOf(sap)}
           kept == Selected(existing, gone)
           hidden == Obsolete(existing, sap)
           listed == Shown(existing, sap)
           merged == MergePropertyOptions(existing, sap)
<1>1. existing \in Seq(Option) /\ gone \subseteq DOMAIN existing
  BY DEF OptionList
<1>2. hidden = [k \in DOMAIN kept |-> [kept[k] EXCEPT !.hidden = TRUE]]
  BY DEF Obsolete
<1>3. i \in gone <=> existing[i].value \notin ValuesOf(sap)
  OBVIOUS
<1> HIDE DEF gone
<1>a. kept \in Seq(Option)
  BY <1>1, SelectedRows
<1>b. i \in gone => \E k \in DOMAIN kept : kept[k] = existing[i]
  BY <1>1, SelectedTakesAll
<1>4. kept \in Seq(Option) /\ (i \in gone => \E k \in DOMAIN kept : kept[k] = existing[i])
  BY <1>a, <1>b
<1> HIDE DEF kept, hidden
<1>5. \A k \in DOMAIN kept : hidden[k].value = kept[k].value /\ hidden[k].note = kept[k].note
  <2> SUFFICES ASSUME NEW k \in DOMAIN kept
               PROVE  hidden[k].value = kept[k].value /\ hidden[k].note = kept[k].note
    OBVIOUS
  <2>1. kept[k] \in Option
    BY <1>4
  <2> QED
    BY <1>2, <2>1 DEF Option
<1>6. DOMAIN hidden = 1 .. Len(kept) /\ Len(kept) \in Nat
  BY <1>2, <1>4
<1>7. hidden \in Seq(Range(hidden)) /\ DOMAIN hidden = DOMAIN kept
  <2>1. hidden = [k \in 1 .. Len(kept) |-> hidden[k]]
    BY <1>2, <1>6
  <2>2. \A k \in 1 .. Len(kept) : hidden[k] \in Range(hidden)
    BY <1>6 DEF Range
  <2> HIDE DEF hidden
  <2> QED
    BY <1>4, <1>6, <2>1, <2>2
<1>8. sap \in Seq(Range(sap)) /\ listed = [k \in DOMAIN sap |-> listed[k]]
      /\ \A k \in DOMAIN sap : listed[k].value = sap[k].value /\ listed[k].note = Noted(existing, sap[k].value)
  BY DEF SapList, Shown
<1> HIDE DEF listed
<1>9. Len(sap) \in Nat /\ DOMAIN sap = 1 .. Len(sap)
  BY <1>8
<1>10. listed \in Seq(Range(listed)) /\ DOMAIN listed = DOMAIN sap
  <2>1. \A k \in 1 .. Len(sap) : listed[k] \in Range(listed)
    BY <1>8, <1>9 DEF Range
  <2> QED
    BY <1>8, <1>9, <2>1
<1>11. merged = listed \o hidden
  BY DEF MergePropertyOptions, listed, hidden
<1>12. \A j \in DOMAIN listed : j \in DOMAIN merged /\ merged[j] = listed[j]
  BY <1>7, <1>10, <1>11
<1>13. \A k \in DOMAIN hidden : k + Len(listed) \in DOMAIN merged /\ merged[k + Len(listed)] = hidden[k]
  BY <1>7, <1>10, <1>11
<1> HIDE DEF merged
<1>14. CASE i \in gone
  <2>1. PICK k \in DOMAIN kept : kept[k] = existing[i]
    BY <1>4, <1>14
  <2> QED
    BY <1>5, <1>7, <1>13, <2>1 DEF merged
<1>15. CASE i \notin gone
  <2>1. PICK k \in DOMAIN sap : sap[k].value = existing[i].value
    BY <1>3, <1>15 DEF ValuesOf
  <2>2. Noted(existing, existing[i].value) <=> existing[i].note
    BY DEF Noted, OptionList, Distinct
  <2>a. existing[i] \in Option
    BY <1>1
  <2>3. existing[i].note \in BOOLEAN
    BY <2>a DEF Option
  <2>4. listed[k].note = existing[i].note
    <3>1. Noted(existing, existing[i].value) = existing[i].note
      BY <2>2, <2>3 DEF Noted
    <3> QED
      BY <1>8, <2>1, <3>1
  <2> QED
    BY <1>8, <1>10, <1>12, <2>1, <2>4 DEF merged
<1> QED
  BY <1>14, <1>15

LEMMA SeenStaysNow == DropdownInv /\ SeenIsNow /\ [DropdownNext]_dropdownVars => SeenIsNow'
<1> SUFFICES ASSUME DropdownInv, SeenIsNow, [DropdownNext]_dropdownVars PROVE SeenIsNow'
  OBVIOUS
<1>0. DOMAIN sweep = DOMAIN NoRun
  BY DEF DropdownInv, DropdownRun
<1>1. CASE Edit
  BY <1>1, EditEndsTheCalm DEF SeenIsNow
<1>2. CASE \E f \in Field, p \in Property : FindProperty(f, p)
  <2>1. PICK f \in Field, p \in Property : FindProperty(f, p)
    BY <1>2
  <2>2. sweep'.at = <<f, p>> /\ sweep'.seen = property[p].options /\ property' = property
    BY <1>0, <2>1 DEF FindProperty, Counted, NoRun
  <2> QED
    BY <2>2 DEF SeenIsNow
<1>3. CASE UNCHANGED dropdownVars
  BY <1>3 DEF SeenIsNow, dropdownVars
<1>4. CASE \/ StartDropdownRun \/ FetchRows \/ FetchRowsFails \/ ResolveAccessToken \/ RunFails \/ FindTargets
           \/ UpdatePropertyOptions \/ UpdatePropertyOptionsFails \/ FinishRun
  <2>1. sweep'.pc # "patch"
    BY <1>0, <1>4 DEF StartDropdownRun, FetchRows, FetchRowsFails, ResolveAccessToken, RunFails, FindTargets,
        UpdatePropertyOptions, UpdatePropertyOptionsFails, FinishRun, Finish, Unfetched, NoRun
  <2> QED
    BY <2>1 DEF SeenIsNow
<1>5. CASE \E f \in Field, p \in Property : SkipTarget(f, p) \/ FindPropertyFails(f, p) \/ AlreadyUpToDate(f, p)
  <2>1. PICK f \in Field, p \in Property : SkipTarget(f, p) \/ FindPropertyFails(f, p) \/ AlreadyUpToDate(f, p)
    BY <1>5
  <2>2. CASE SkipTarget(f, p)
    BY <1>0, <2>2 DEF SkipTarget, TakeTarget, Counted, NoRun, SeenIsNow
  <2>3. CASE FindPropertyFails(f, p)
    BY <1>0, <2>3 DEF FindPropertyFails, FailedRead, TakeTarget, Counted, NoRun, SeenIsNow
  <2>4. CASE AlreadyUpToDate(f, p)
    BY <1>0, <2>4 DEF AlreadyUpToDate, TakeTarget, Counted, NoRun, SeenIsNow
  <2> QED
    BY <2>1, <2>2, <2>3, <2>4
<1> QED
  BY <1>1, <1>2, <1>3, <1>4, <1>5 DEF DropdownNext, CatalogChanges, SomeoneAdds, SomeoneHides

LEMMA OptionsStay ==
    ASSUME DropdownInv, SeenIsNow, [DropdownNext]_dropdownVars, sweep'.calm,
           NEW p \in Property, NEW i \in DOMAIN property[p].options
    PROVE  \E j \in DOMAIN property'[p].options :
               /\ property'[p].options[j].value = property[p].options[i].value
               /\ property'[p].options[j].note = property[p].options[i].note
<1>1. \/ UpdatePropertyOptions \/ Edit \/ property' = property
  BY DEF DropdownNext, dropdownVars, StartDropdownRun, FetchRows, FetchRowsFails, ResolveAccessToken, RunFails,
         FindTargets, SkipTarget, FindPropertyFails, AlreadyUpToDate, FindProperty,
         UpdatePropertyOptionsFails, FinishRun, CatalogChanges, SomeoneAdds, SomeoneHides
<1>2. CASE Edit
  BY <1>2, EditEndsTheCalm
<1>3. CASE UpdatePropertyOptions
  <2> DEFINE f == sweep.at[1]
             q == sweep.at[2]
             merged == MergePropertyOptions(sweep.seen, sweep.sets[f])
  <2>1. sweep.pc = "patch" /\ sweep.calm
    BY <1>3 DEF UpdatePropertyOptions, DropdownInv, DropdownRun, NoRun
  <2>2. SapList(sweep.sets[f]) /\ OptionList(sweep.seen) /\ q \in Property /\ sweep.seen = property[q].options
    BY <2>1 DEF DropdownInv, DropdownRun, TargetOf, SeenIsNow
  <2>3. property' = [property EXCEPT ![q].options = merged]
    BY <1>3 DEF UpdatePropertyOptions
  <2>4. CASE p # q
    BY <2>3, <2>4 DEF DropdownInv, PropertiesShaped
  <2>5. CASE p = q
    <3>1. property'[p].options = merged
      BY <2>2, <2>3, <2>5 DEF DropdownInv, PropertiesShaped
    <3>2. \E j \in DOMAIN merged : /\ merged[j].value = property[p].options[i].value
                                   /\ merged[j].note = property[p].options[i].note
      BY <2>2, <2>5, MergeKeepsOptions
    <3> QED
      BY <3>1, <3>2
  <2> QED
    BY <2>4, <2>5
<1> QED
  BY <1>1, <1>2, <1>3

\* A rewrite removes no option and no description that was there when the run read the
\* property (mergePropertyOptions): NothingVanishes.
THEOREM OptionsAreKept == DropdownSpec => NothingVanishes
<1>1. DropdownInit => DropdownInv /\ SeenIsNow
  BY DropdownsStartShaped DEF DropdownInit, NoRun, SeenIsNow
<1>2. DropdownInv /\ SeenIsNow /\ [DropdownNext]_dropdownVars => (DropdownInv /\ SeenIsNow)'
  BY DropdownsKeepShape, SeenStaysNow
<1>3. DropdownInv /\ SeenIsNow /\ [DropdownNext]_dropdownVars =>
        (sweep'.calm => \A p \in Property : \A i \in DOMAIN property[p].options :
           \E j \in DOMAIN property'[p].options :
               /\ property'[p].options[j].value = property[p].options[i].value
               /\ property'[p].options[j].note = property[p].options[i].note)
  BY OptionsStay
<1> QED
  BY <1>1, <1>2, <1>3, PTL DEF DropdownSpec, NothingVanishes

=============================================================================
