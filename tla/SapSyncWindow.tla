----------------------------- MODULE SapSyncWindow -----------------------------
(***************************************************************************)
(* When an INCREMENTAL config with a window runs. Two functions of the     *)
(* code must agree: the scheduler turns the window into a cron pattern     *)
(* (minutes x hours), and the job that the pattern fires checks the window *)
(* and the interval again, on a clock of its own reading. The cron pattern *)
(* is wider than the window; the check is what cuts it to size.            *)
(*                                                                         *)
(* Time is the minute of the day in America/Costa_Rica, which has no       *)
(* daylight saving: parsing "HH:mm" is left out.                           *)
(***************************************************************************)
EXTENDS Integers

CONSTANTS
    MinutesPerHour,     \* 60
    HoursPerDay,        \* 24
    MidnightIs24        \* does Intl print the hour after midnight as 24?

ASSUME WindowAssumption ==
    /\ MinutesPerHour \in Nat \ {0} /\ HoursPerDay \in Nat \ {0}
    /\ MidnightIs24 \in BOOLEAN

Day == MinutesPerHour * HoursPerDay

Minutes == 0..(Day - 1)

Window == [start : Minutes, end : Minutes, interval : Nat \ {0}]

Hour(m) == m \div MinutesPerHour

MinuteOfHour(m) == m % MinutesPerHour
-----------------------------------------------------------------------------
\* What a window means: one run at its start and one every interval after
\* it, until its end, which may be past midnight.
Length(w) == IF w.start <= w.end THEN w.end - w.start ELSE w.end + Day - w.start

After(w, n) == IF w.start + n < Day THEN w.start + n ELSE w.start + n - Day

Due(w, m) ==
    \E n \in 0..Length(w) : n % w.interval = 0 /\ m = After(w, n)
-----------------------------------------------------------------------------
(* The cron pattern.                                                       *)

HourField(w) ==
    LET from == Hour(w.start)
        to == Hour(w.end)
    IN  IF from = to \/ w.start < w.end
        THEN from..to
        ELSE from..(HoursPerDay - 1) \union 0..to

FromTheHour(w) == {n \in 0..(MinutesPerHour - 1) : n % w.interval = 0}

\* From the offset of the start within the hour, every interval minutes.
MinuteField(w) ==
    {n \in 0..(MinutesPerHour - 1) :
        n >= MinuteOfHour(w.start) % w.interval
        /\ (n - (MinuteOfHour(w.start) % w.interval)) % w.interval = 0}

\* An interval longer than an hour has no pattern: the config is not scheduled.
HasPattern(w) == w.interval <= MinutesPerHour

FiresAt(w, m) == Hour(m) \in HourField(w) /\ MinuteOfHour(m) \in MinuteField(w)
-----------------------------------------------------------------------------
(* The job's check, over the hour and minute Intl.DateTimeFormat prints.   *)

Zoned(m) == IF MidnightIs24 /\ Hour(m) = 0 THEN m + Day ELSE m

InsideWindow(w, m) ==
    IF w.start <= w.end
    THEN w.start <= m /\ m <= w.end
    ELSE w.start <= m \/ m <= w.end

SinceStart(w, m) == IF m >= w.start THEN m - w.start ELSE m + Day - w.start

RunsAt(w, m) ==
    /\ InsideWindow(w, Zoned(m))
    /\ SinceStart(w, Zoned(m)) % w.interval = 0
-----------------------------------------------------------------------------
\* The windows of which pattern and check make exactly the due runs. Of the
\* others, an interval that does not divide the hour loses runs (the minutes
\* of the pattern repeat every hour, the due ones do not), and so does a window
\* that ends before it starts within one hour (its pattern has that hour only);
\* where midnight prints as 24, a window from that hour on loses its runs in
\* it, and one that ends in it goes on until one o'clock.
Exact(w) ==
    /\ MinutesPerHour % w.interval = 0
    /\ Hour(w.start) = Hour(w.end) => w.start <= w.end
    /\ MidnightIs24 => IF w.start <= w.end THEN Hour(w.start) > 0 ELSE Hour(w.end) > 0
=============================================================================
