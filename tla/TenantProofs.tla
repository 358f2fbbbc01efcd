------------------------------ MODULE TenantProofs ------------------------------
(***************************************************************************)
(* Theorems about what a tenant is set up with: the window of a config     *)
(* (SapSyncWindow), the tenant and its configs (TenantSetup), the          *)
(* schedulers of its configs (SapSyncSchedule) and what its rows do to a     *)
(* record (FieldValues).                                                   *)
(***************************************************************************)
EXTENDS SapSyncSchedule, TenantSetup, FieldValues, FiniteSetTheorems, WellFoundedInduction, TLAPS

-----------------------------------------------------------------------------
(* SapSyncWindow.  For every window, hour length and day: where Exact       *)
(* holds, the cron pattern and the job's check agree on the due runs and on *)
(* nothing else.  The argument is arithmetic: all three conditions reduce   *)
(* to "m leaves the same rest as the start, modulo the interval", and an    *)
(* interval that divides the hour lets the rest be read off the minute of   *)
(* the hour.                                                                *)

\* Division of naturals, as the provers know it.
LEMMA DivMod ==
    ASSUME NEW a \in Nat, NEW b \in Nat \ {0}
    PROVE  /\ a \div b \in Nat /\ a % b \in 0..(b - 1)
           /\ a = b * (a \div b) + (a % b)
  BY Z3

\* Quotient and rest are unique.
LEMMA ModUnique ==
    ASSUME NEW a \in Nat, NEW b \in Nat \ {0}, NEW q \in Nat, NEW r \in 0..(b - 1),
           a = b * q + r
    PROVE  a % b = r /\ a \div b = q
  <1> DEFINE p == a \div b
             t == a % b
  <1>1. p \in Nat /\ t \in 0..(b - 1) /\ b * p + t = b * q + r
    BY DivMod
  <1> HIDE DEF p, t
  <1>2. ~(p < q)
    <2> SUFFICES ASSUME p < q PROVE FALSE
      OBVIOUS
    <2> DEFINE k == q - p
    <2>1. k \in Nat /\ k >= 1 /\ q = p + k  BY <1>1
    <2> HIDE DEF k
    <2>2. b * q = b * p + b * k /\ b * k >= b  BY <2>1, <1>1
    <2> QED  BY <2>2, <1>1
  <1>3. ~(q < p)
    <2> SUFFICES ASSUME q < p PROVE FALSE
      OBVIOUS
    <2> DEFINE k == p - q
    <2>1. k \in Nat /\ k >= 1 /\ p = q + k  BY <1>1
    <2> HIDE DEF k
    <2>2. b * p = b * q + b * k /\ b * k >= b  BY <2>1, <1>1
    <2> QED  BY <2>2, <1>1
  <1>4. p = q  BY <1>1, <1>2, <1>3
  <1>5. t = r  BY <1>1, <1>4
  <1> QED  BY <1>4, <1>5 DEF p, t

\* A difference is a multiple exactly if both leave the same rest.
LEMMA SameRest ==
    ASSUME NEW a \in Nat, NEW b \in Nat, NEW d \in Nat \ {0}, a >= b
    PROVE  (a - b) % d = 0 <=> a % d = b % d
  <1>1. ASSUME (a - b) % d = 0 PROVE a % d = b % d
    <2> DEFINE q == (a - b) \div d
               p == b \div d
    <2>1. q \in Nat /\ a - b = d * q  BY <1>1, DivMod
    <2>2. p \in Nat /\ b % d \in 0..(d - 1) /\ b = d * p + (b % d)  BY DivMod
    <2> HIDE DEF q, p
    <2>3. d * (p + q) = d * p + d * q  BY <2>1, <2>2
    <2>4. a = d * (p + q) + (b % d)  BY <2>1, <2>2, <2>3
    <2>5. p + q \in Nat  BY <2>1, <2>2
    <2> QED  BY <2>2, <2>4, <2>5, ModUnique
  <1>2. ASSUME a % d = b % d PROVE (a - b) % d = 0
    <2> DEFINE p == a \div d
               q == b \div d
    <2>1. p \in Nat /\ a = d * p + (a % d) /\ a % d \in 0..(d - 1)  BY DivMod
    <2>2. q \in Nat /\ b = d * q + (a % d)  BY <1>2, DivMod
    <2> HIDE DEF p, q
    <2>3. p >= q
      <3> SUFFICES ASSUME q >= p + 1 PROVE FALSE  BY <2>1, <2>2
      <3>1. d * q >= d * (p + 1) /\ d * (p + 1) = d * p + d  BY <2>1, <2>2
      <3> QED  BY <3>1, <2>1, <2>2
    <2>4. p - q \in Nat /\ d * (p - q) = d * p - d * q  BY <2>1, <2>2, <2>3
    <2>5. a - b \in Nat /\ a - b = d * (p - q) + 0 /\ 0 \in 0..(d - 1)
      BY <2>1, <2>2, <2>4
    <2> QED  BY <2>4, <2>5, ModUnique
  <1> QED  BY <1>1, <1>2

\* Division is monotonic.
LEMMA DivMonotonic ==
    ASSUME NEW a \in Nat, NEW b \in Nat, NEW d \in Nat \ {0}, a <= b
    PROVE  a \div d <= b \div d
  <1> DEFINE p == a \div d
             q == b \div d
  <1>1. p \in Nat /\ a % d \in 0..(d - 1) /\ a = d * p + (a % d)  BY DivMod
  <1>2. q \in Nat /\ b % d \in 0..(d - 1) /\ b = d * q + (b % d)  BY DivMod
  <1> HIDE DEF p, q
  <1>3. p <= q
    <2> SUFFICES ASSUME p >= q + 1 PROVE FALSE  BY <1>1, <1>2
    <2>1. d * p >= d * (q + 1) /\ d * (q + 1) = d * q + d  BY <1>1, <1>2
    <2> QED  BY <2>1, <1>1, <1>2
  <1> QED  BY <1>3 DEF p, q

LEMMA DayPositive == Day \in Nat \ {0} /\ MinutesPerHour \in Nat \ {0}
  BY WindowAssumption DEF Day
-----------------------------------------------------------------------------
\* If the interval divides the hour, a minute and its minute of the hour
\* leave the same rest, and so do a minute and the same minute a day later.
LEMMA RestOfHour ==
    ASSUME NEW d \in Nat \ {0}, MinutesPerHour % d = 0, NEW m \in Nat
    PROVE  /\ MinuteOfHour(m) \in 0..(MinutesPerHour - 1)
           /\ MinuteOfHour(m) % d = m % d
           /\ (m + Day) % d = m % d
  <1> DEFINE h == MinutesPerHour \div d
             p == m \div MinutesPerHour
             r == m % MinutesPerHour
  <1>1. h \in Nat /\ MinutesPerHour = d * h  BY DivMod, DayPositive
  <1>2. p \in Nat /\ r \in 0..(MinutesPerHour - 1) /\ m = MinutesPerHour * p + r
    BY DivMod, DayPositive
  <1>3. HoursPerDay \in Nat  BY WindowAssumption
  <1> HIDE DEF h, p, r
  <1>4. MinutesPerHour * p = d * (h * p) /\ h * p \in Nat  BY <1>1, <1>2
  <1>5. m >= r /\ m - r = d * (h * p) + 0 /\ m - r \in Nat /\ r \in Nat
    BY <1>2, <1>4, DayPositive
  <1>6. (m - r) % d = 0  BY <1>4, <1>5, ModUnique, 0 \in 0..(d - 1)
  <1>7. m % d = r % d  BY <1>5, <1>6, SameRest
  <1>8. Day = d * (h * HoursPerDay) /\ h * HoursPerDay \in Nat
    BY <1>1, <1>3 DEF Day
  <1>9. Day = d * (h * HoursPerDay) + 0 /\ 0 \in 0..(d - 1)  BY <1>8, DayPositive
  <1>10. Day % d = 0  BY <1>8, <1>9, ModUnique, DayPositive
  <1>11. m + Day >= m /\ (m + Day) - m = Day /\ m + Day \in Nat  BY DayPositive
  <1>12. (m + Day) % d = m % d  BY <1>10, <1>11, SameRest
  <1> QED  BY <1>2, <1>7, <1>12 DEF r, MinuteOfHour

\* The hours of a day's minutes.
LEMMA HourRange ==
    ASSUME NEW m \in Minutes
    PROVE  Hour(m) \in 0..(HoursPerDay - 1)
  <1> DEFINE p == m \div MinutesPerHour
  <1>1. m \in Nat /\ m < MinutesPerHour * HoursPerDay /\ HoursPerDay \in Nat \ {0}
    BY WindowAssumption, DayPositive DEF Minutes, Day
  <1>2. p \in Nat /\ m % MinutesPerHour \in Nat
        /\ m = MinutesPerHour * p + (m % MinutesPerHour)
    <2>1. m \in Nat /\ MinutesPerHour \in Nat \ {0}  BY <1>1, DayPositive
    <2>2. m % MinutesPerHour \in 0..(MinutesPerHour - 1)  BY <2>1, DivMod
    <2>3. p \in Nat /\ m = MinutesPerHour * p + (m % MinutesPerHour)  BY <2>1, DivMod
    <2> QED  BY <2>1, <2>2, <2>3
  <1> HIDE DEF p
  <1>3. p <= HoursPerDay - 1
    <2> SUFFICES ASSUME p >= HoursPerDay PROVE FALSE  BY <1>1, <1>2
    <2>1. MinutesPerHour * p >= MinutesPerHour * HoursPerDay  BY <1>1, <1>2, DayPositive
    <2>2. MinutesPerHour * p \in Nat /\ MinutesPerHour * HoursPerDay \in Nat
      BY <1>1, <1>2, DayPositive
    <2> QED  BY <2>1, <2>2, <1>1, <1>2
  <1> QED  BY <1>1, <1>2, <1>3 DEF p, Hour
-----------------------------------------------------------------------------
\* The cron pattern's minutes are those of the start's rest.
LEMMA MinuteFieldIsRest ==
    ASSUME NEW w \in Window, MinutesPerHour % w.interval = 0, NEW m \in Minutes
    PROVE  MinuteOfHour(m) \in MinuteField(w) <=> m % w.interval = w.start % w.interval
  <1> DEFINE d == w.interval
             n == MinuteOfHour(m)
             v == MinuteOfHour(w.start)
             o == v % d
  <1>1. d \in Nat \ {0} /\ m \in Nat /\ w.start \in Nat /\ MinutesPerHour % d = 0
    BY DayPositive DEF Window, Minutes
  <1> HIDE DEF d
  <1>2. n \in 0..(MinutesPerHour - 1) /\ n % d = m % d  BY <1>1, RestOfHour
  <1>3. v \in 0..(MinutesPerHour - 1) /\ v % d = w.start % d  BY <1>1, RestOfHour
  <1>4. n \in MinuteField(w) <=> n >= o /\ (n - o) % d = 0
    BY <1>2 DEF MinuteField, d
  <1> HIDE DEF n, v
  <1>5. n \in Nat /\ v \in Nat  BY <1>2, <1>3, DayPositive
  <1>6. o \in 0..(d - 1)  BY <1>1, <1>5, DivMod
  <1>7. n % d \in Nat /\ n \div d \in Nat /\ n = d * (n \div d) + (n % d)
    <2>1. n % d \in 0..(d - 1)  BY <1>1, <1>5, DivMod
    <2>2. n \div d \in Nat /\ n = d * (n \div d) + (n % d)  BY <1>1, <1>5, DivMod
    <2> QED  BY <2>1, <2>2, <1>1
  <1> HIDE DEF o
  <1>8. o \in Nat /\ o = d * 0 + o  BY <1>1, <1>6
  <1>9. o % d = o  BY <1>1, <1>6, <1>8, ModUnique
  <1>10. n % d <= n
    <2>1. d * (n \div d) \in Nat  BY <1>1, <1>7
    <2> QED  BY <2>1, <1>7
  <1>11. n >= o => ((n - o) % d = 0 <=> n % d = o % d)
    BY <1>1, <1>5, <1>8, SameRest
  <1>12. n \in MinuteField(w) <=> n % d = o
    BY <1>4, <1>5, <1>8, <1>9, <1>10, <1>11
  <1> QED  BY <1>12, <1>2, <1>3 DEF o, n, d

\* The check's distance from the start, for a minute of either midnight.
LEMMA SinceStartIsRest ==
    ASSUME NEW w \in Window, MinutesPerHour % w.interval = 0, NEW m \in Minutes,
           NEW x \in {m, m + Day}
    PROVE  SinceStart(w, x) % w.interval = 0 <=> m % w.interval = w.start % w.interval
  <1> DEFINE d == w.interval
             s == w.start
  <1>1. d \in Nat \ {0} /\ m \in Nat /\ s \in Nat /\ s < Day /\ m < Day
        /\ Day \in Nat /\ x \in Nat /\ x + Day \in Nat /\ MinutesPerHour % d = 0
    BY DayPositive DEF Window, Minutes
  <1>2. SinceStart(w, x) = IF x >= s THEN x - s ELSE (x + Day) - s
    BY <1>1 DEF SinceStart
  <1> HIDE DEF d, s
  <1>3. m % d = x % d /\ (x + Day) % d = x % d  BY <1>1, RestOfHour
  <1>4. x >= s => ((x - s) % d = 0 <=> x % d = s % d)
    BY <1>1, SameRest
  <1>5. ((x + Day) - s) % d = 0 <=> (x + Day) % d = s % d
    <2> DEFINE y == x + Day
    <2>1. y \in Nat /\ y >= s  BY <1>1
    <2> HIDE DEF y
    <2>2. (y - s) % d = 0 <=> y % d = s % d  BY <2>1, <1>1, SameRest
    <2> QED  BY <2>2 DEF y
  <1>6. SinceStart(w, x) % d = 0 <=> m % d = s % d
    BY <1>2, <1>3, <1>4, <1>5
  <1> QED  BY <1>6 DEF d, s

\* The due minutes are those of the window with the start's rest.
LEMMA DueIsRest ==
    ASSUME NEW w \in Window, MinutesPerHour % w.interval = 0, NEW m \in Minutes
    PROVE  Due(w, m) <=> InsideWindow(w, m) /\ m % w.interval = w.start % w.interval
  <1> DEFINE n == SinceStart(w, m)
  <1>1. /\ m \in 0..(Day - 1) /\ w.start \in 0..(Day - 1) /\ w.end \in 0..(Day - 1)
        /\ Day \in Nat
    BY DayPositive DEF Window, Minutes
  <1>2. \A k \in 0..Length(w) : m = After(w, k) => k = n /\ InsideWindow(w, m)
    BY <1>1 DEF Length, After, SinceStart, InsideWindow
  <1>3. InsideWindow(w, m) => n \in 0..Length(w) /\ m = After(w, n)
    BY <1>1 DEF Length, After, SinceStart, InsideWindow
  <1>4. n % w.interval = 0 <=> m % w.interval = w.start % w.interval
    BY SinceStartIsRest
  <1> HIDE DEF n
  <1> QED  BY <1>2, <1>3, <1>4 DEF Due

\* Inside its window, the pattern covers the hour, and the check sees what
\* the clock shows, even if it prints midnight as 24.
LEMMA HoursCover ==
    ASSUME NEW w \in Window, Exact(w), NEW m \in Minutes
    PROVE  InsideWindow(w, m) <=> Hour(m) \in HourField(w) /\ InsideWindow(w, Zoned(m))
  <1>1. /\ m \in 0..(Day - 1) /\ w.start \in 0..(Day - 1) /\ w.end \in 0..(Day - 1)
        /\ Day \in Nat /\ m \in Nat /\ w.start \in Nat /\ w.end \in Nat
    BY DayPositive DEF Window, Minutes
  <1>2. Hour(m) \in 0..(HoursPerDay - 1) /\ HoursPerDay \in Nat
        /\ Hour(w.start) \in 0..(HoursPerDay - 1) /\ Hour(w.end) \in 0..(HoursPerDay - 1)
    BY HourRange, WindowAssumption DEF Window
  <1>3. /\ w.start <= m => Hour(w.start) <= Hour(m)
        /\ m <= w.end => Hour(m) <= Hour(w.end)
        /\ w.end <= m => Hour(w.end) <= Hour(m)
        /\ w.start <= w.end => Hour(w.start) <= Hour(w.end)
    BY <1>1, DivMonotonic, DayPositive DEF Hour
  <1>4. InsideWindow(w, m) => Hour(m) \in HourField(w)
    BY <1>1, <1>2, <1>3 DEF InsideWindow, HourField, Exact
  <1>5. CASE ~(MidnightIs24 /\ Hour(m) = 0)
    BY <1>4, <1>5 DEF Zoned
  <1>6. CASE MidnightIs24 /\ Hour(m) = 0
    <2>1. Zoned(m) = m + Day  BY <1>6 DEF Zoned
    <2>2. CASE w.start <= w.end
      <3>1. Hour(w.start) > 0  BY <1>6, <2>2 DEF Exact
      <3>2. ~InsideWindow(w, m)  BY <1>1, <1>2, <1>3, <1>6, <2>2, <3>1 DEF InsideWindow
      <3>3. ~InsideWindow(w, m + Day)  BY <1>1, <2>2 DEF InsideWindow
      <3> QED  BY <2>1, <3>2, <3>3
    <2>3. CASE ~(w.start <= w.end)
      <3>1. Hour(w.end) > 0  BY <1>6, <2>3 DEF Exact
      <3>2. m <= w.end  BY <1>1, <1>2, <1>3, <1>6, <3>1
      <3>3. InsideWindow(w, m)  BY <3>2, <2>3 DEF InsideWindow
      <3>4. InsideWindow(w, m + Day)  BY <1>1, <2>3 DEF InsideWindow
      <3> QED  BY <2>1, <3>3, <3>4, <1>4
    <2> QED  BY <2>2, <2>3
  <1> QED  BY <1>5, <1>6

\* Scheduler and job agree: of a window whose interval divides the hour, the
\* minutes at which the pattern fires and the check lets the job go on are
\* the due ones, all of them and no other.
THEOREM WindowsAreExact ==
    ASSUME NEW w \in Window, Exact(w), NEW m \in Minutes
    PROVE  Due(w, m) <=> FiresAt(w, m) /\ RunsAt(w, m)
  <1> DEFINE same == m % w.interval = w.start % w.interval
  <1>1. MinutesPerHour % w.interval = 0  BY DEF Exact
  <1>2. Due(w, m) <=> InsideWindow(w, m) /\ same  BY <1>1, DueIsRest
  <1>3. FiresAt(w, m) <=> Hour(m) \in HourField(w) /\ same
    BY <1>1, MinuteFieldIsRest DEF FiresAt
  <1>4. Zoned(m) \in {m, m + Day}  BY DEF Zoned
  <1>5. RunsAt(w, m) <=> InsideWindow(w, Zoned(m)) /\ same
    BY <1>1, <1>4, SinceStartIsRest DEF RunsAt
  <1>6. InsideWindow(w, m) <=> Hour(m) \in HourField(w) /\ InsideWindow(w, Zoned(m))
    BY HoursCover
  <1> HIDE DEF same
  <1> QED  BY <1>2, <1>3, <1>5, <1>6

-----------------------------------------------------------------------------
(* TenantSetup: provisionings.  The unique tenantKey lets one call per      *)
(* company past the creation of the client; what that one has done so far   *)
(* is what the tenant holds, and the others have failed or not begun.       *)

Before == {"client", "failed"}
Steps == {"client", "subscribe", "modes", "flavor", "filters", "credential", "done", "failed"}

NothingYet == flavor = "none" /\ filters = <<>>

\* What the call at a step has done, in the order it does it.
DoneSoFar(p) ==
    /\ client = FlavorOf[p]
    /\ \A q \in Provisioners : q # p => provision[q] \in Before
    /\ provision[p] # "subscribe" => subscribed
    /\ provision[p] \notin {"subscribe", "modes"} => modes
    /\ provision[p] \in {"subscribe", "modes", "flavor"} => NothingYet
    /\ provision[p] \in {"filters", "credential", "done"} => flavor = FlavorOf[p]
    /\ provision[p] = "filters" => filters = <<>>
    /\ provision[p] \in {"credential", "done"} => filters = <<FlavorOf[p]>>

ProvisionInv ==
    /\ provision \in [Provisioners -> Steps]
    /\ client = "none" => NothingYet /\ \A p \in Provisioners : provision[p] \in Before
    /\ \A p \in Provisioners : provision[p] \notin Before => DoneSoFar(p)

LEMMA ProvisionStepKeeps ==
    ASSUME ProvisionInv, NEW p \in Provisioners, ProvisionStep(p) PROVE ProvisionInv'
  <1>1. PICK s \in Steps : provision' = [provision EXCEPT ![p] = s]
    BY DEF ProvisionStep, CreateClient, Subscribe, EnsureModes, EnsureConfigurations, ReplicateFilters,
       ResolveCredential, FailProvision, Steps
  <1>2. provision' \in [Provisioners -> Steps]
    BY <1>1 DEF ProvisionInv
  <1>3. provision'[p] = s /\ \A q \in Provisioners : q # p => provision'[q] = provision[q]
    BY <1>1 DEF ProvisionInv
  <1>4. FlavorOf[p] \in Flavors /\ FlavorOf[p] # "none"
    BY SetupAssumption DEF Flavors
  <1>5. CASE CreateClient(p)
    <2>1. CASE client = "none"
      <3>1. s = "subscribe" /\ client' = FlavorOf[p] /\ UNCHANGED <<flavor, filters>>
        BY <1>1, <1>3, <1>5, <2>1 DEF CreateClient, ProvisionInv
      <3>2. DoneSoFar(p)'
        BY <1>3, <2>1, <3>1 DEF ProvisionInv, DoneSoFar, NothingYet
      <3> QED BY <1>2, <1>3, <1>4, <2>1, <3>1, <3>2 DEF ProvisionInv
    <2>2. CASE client # "none"
      <3>1. s = "failed" /\ UNCHANGED <<client, subscribed, modes, flavor, filters>>
        BY <1>1, <1>3, <1>5, <2>2 DEF CreateClient, ProvisionInv
      <3> QED BY <1>2, <1>3, <2>2, <3>1 DEF ProvisionInv, DoneSoFar, NothingYet, Before
    <2> QED BY <2>1, <2>2
  <1>6. ASSUME ~CreateClient(p) PROVE ProvisionInv'
    <2>1. CASE FailProvision(p)
      <3>1. s = "failed" /\ UNCHANGED <<client, subscribed, modes, flavor, filters>>
        BY <1>1, <1>3, <2>1 DEF FailProvision, tenantVars, ProvisionInv
      <3> QED BY <1>2, <1>3, <3>1 DEF ProvisionInv, DoneSoFar, NothingYet, Before
    <2>2. ASSUME ~FailProvision(p) PROVE ProvisionInv'
      <3>1. provision[p] \notin Before /\ client' = client
        BY <1>6, <2>2 DEF ProvisionStep, Subscribe, EnsureModes, EnsureConfigurations, ReplicateFilters,
           ResolveCredential, Before
      <3>2. DoneSoFar(p) /\ client # "none"
        BY <1>4, <3>1 DEF ProvisionInv, DoneSoFar
      <3>3. \A q \in Provisioners : q # p => provision'[q] \in Before
        BY <1>3, <3>2 DEF DoneSoFar
      <3>4. DoneSoFar(p)'
        <4>1. CASE Subscribe(p)
          BY <1>3, <3>2, <3>3, <4>1, <1>1 DEF Subscribe, DoneSoFar, NothingYet, ProvisionInv
        <4>2. CASE EnsureModes(p)
          BY <1>3, <3>2, <3>3, <4>2, <1>1 DEF EnsureModes, DoneSoFar, NothingYet, ProvisionInv
        <4>3. CASE EnsureConfigurations(p)
          BY <1>3, <3>2, <3>3, <4>3, <1>1 DEF EnsureConfigurations, DoneSoFar, NothingYet, ProvisionInv
        <4>4. CASE ReplicateFilters(p)
          BY <1>3, <3>2, <3>3, <4>4, <1>1 DEF ReplicateFilters, DoneSoFar, NothingYet, ProvisionInv
        <4>5. CASE ResolveCredential(p)
          BY <1>3, <3>2, <3>3, <4>5, <1>1 DEF ResolveCredential, DoneSoFar, NothingYet, ProvisionInv
        <4> QED BY <1>6, <2>2, <4>1, <4>2, <4>3, <4>4, <4>5 DEF ProvisionStep
      <3> QED BY <1>2, <3>1, <3>2, <3>3, <3>4 DEF ProvisionInv
    <2> QED BY <2>1, <2>2
  <1> QED BY <1>5, <1>6

LEMMA SetupKeepsProvisions == ProvisionInv /\ [SetupNext]_setupVars => ProvisionInv'
  <1> SUFFICES ASSUME ProvisionInv, [SetupNext]_setupVars PROVE ProvisionInv'
    OBVIOUS
  <1>1. CASE UNCHANGED <<client, subscribed, modes, flavor, filters, provision>>
    BY <1>1 DEF ProvisionInv, DoneSoFar, NothingYet
  <1>2. CASE \/ UNCHANGED setupVars \/ (\E k \in Callbacks : CallbackStep(k))
             \/ (\E a \in AdminConfigs : CreateClientConfig(a)) \/ SeedClientConfig
             \/ (\E o \in AdminObjects : CreateAdminMapping(o) \/ CreateTenantMapping(o))
             \/ (\E i \in 1..Len(clientConfigs) : StartEnsure(i)) \/ FinishEnsure
    BY <1>1, <1>2 DEF setupVars, tenantVars, CallbackStep, ReadTemplates, CreateReplica, SeedReplica,
       FailCallback, CreateClientConfig, SeedClientConfig, CreateAdminMapping, CreateTenantMapping,
       StartEnsure, FinishEnsure
  <1> QED BY <1>2, ProvisionStepKeeps DEF SetupNext

LEMMA SetupInitProvisions == SetupInit => ProvisionInv
  BY DEF SetupInit, ProvisionInv, NothingYet, Before, Steps

\* However many calls are made for a company and wherever they fail: one that
\* answers success left the tenant with the flavor, the modes and the default
\* filters it asked for, exactly once (provisionTenant).
THEOREM ProvisioningIsAsAsked == SetupSpec => []DoneIsAsAsked
  <1>1. ProvisionInv => DoneIsAsAsked
    <2> SUFFICES ASSUME ProvisionInv, NEW p \in Provisioners, provision[p] = "done"
                 PROVE  /\ Served /\ modes
                        /\ client = FlavorOf[p] /\ flavor = FlavorOf[p] /\ filters = <<FlavorOf[p]>>
      BY DEF DoneIsAsAsked
    <2> QED BY SetupAssumption DEF ProvisionInv, DoneSoFar, Before, Served, Flavors
  <1> QED BY <1>1, SetupInitProvisions, SetupKeepsProvisions, PTL DEF SetupSpec

-----------------------------------------------------------------------------
(* TenantSetup: callbacks.  What one has read and copied stays in its       *)
(* memory until it ends; clientName is nowhere unique.                      *)

CallbackFields == {"pc", "flavor", "names", "seeds", "config", "rivals", "early"}

IsSeq(s) == \E S : s \in Seq(S)

LEMMA Appended ==
    ASSUME NEW s, IsSeq(s), NEW x
    PROVE  /\ IsSeq(Append(s, x)) /\ Len(s) \in Nat
           /\ Len(Append(s, x)) = Len(s) + 1 /\ Append(s, x)[Len(s) + 1] = x
           /\ \A i \in 1..Len(s) : Append(s, x)[i] = s[i]
  <1>1. PICK S : s \in Seq(S)
    BY DEF IsSeq
  <1>2. s \in Seq(S \union {x}) /\ x \in S \union {x}
    BY <1>1
  <1>3. Append(s, x) \in Seq(S \union {x})
    BY <1>2
  <1> QED BY <1>2, <1>3 DEF IsSeq

\* A callback goes on, or ends, with what it read and the names it knows.
GoesOn(c, d, names) ==
    /\ DOMAIN d = CallbackFields
    /\ d.rivals = c.rivals /\ d.early = c.early /\ d.flavor = c.flavor
    /\ d.pc \in {"create", "seed", "ok", "failed"}
    /\ d.pc \in {"create", "seed"} => d.names = names

LEMMA AdvanceGoesOn ==
    ASSUME NEW c, DOMAIN c = CallbackFields PROVE GoesOn(c, Advance(c), c.names)
  BY DEF Advance, GoesOn, CallbackFields

LEMMA AbortGoesOn ==
    ASSUME NEW c, DOMAIN c = CallbackFields PROVE GoesOn(c, Abort(c), c.names)
  BY DEF Abort, GoesOn, CallbackFields

\* Its steps after the read: nothing is stored, or the config of a template
\* whose name it does not know.
NothingStored(k) ==
    /\ \E d : callback' = [callback EXCEPT ![k] = d] /\ GoesOn(callback[k], d, callback[k].names)
    /\ UNCHANGED clientConfigs

Copied(k, t) == NewConfig(t.name, t.object, callback[k].flavor, TRUE, k)

TemplateCopied(k, t) ==
    /\ t.name \notin callback[k].names
    /\ clientConfigs' = Append(clientConfigs, Copied(k, t))
    /\ \E d : /\ callback' = [callback EXCEPT ![k] = d]
              /\ GoesOn(callback[k], d, callback[k].names \union {t.name})

LEMMA CallbackSteps ==
    ASSUME NEW k, DOMAIN callback[k] = CallbackFields,
           CreateReplica(k) \/ SeedReplica(k) \/ FailCallback(k)
    PROVE  Running(k) /\ (NothingStored(k) \/ \E t : TemplateCopied(k, t))
  <1> DEFINE c == callback[k]
  <1>1. Running(k)
    BY DEF CreateReplica, SeedReplica, FailCallback, Running
  <1>2. CASE FailCallback(k)
    BY <1>1, <1>2, AbortGoesOn DEF FailCallback, tenantVars, NothingStored
  <1>3. CASE SeedReplica(k)
    <2> DEFINE n == [c EXCEPT !.seeds = Tail(@)]
    <2>1. DOMAIN n = CallbackFields /\ n.rivals = c.rivals /\ n.early = c.early
          /\ n.flavor = c.flavor /\ n.names = c.names /\ n.pc = c.pc
      BY DEF CallbackFields
    <2>2. c.pc = "seed" /\ clientConfigs' = clientConfigs
      BY <1>3 DEF SeedReplica
    <2>3. \/ callback' = [callback EXCEPT ![k] = Abort(c)]
          \/ callback' = [callback EXCEPT ![k] = IF n.seeds = <<>> THEN Advance(n) ELSE n]
      BY <1>3 DEF SeedReplica
    <2>4. GoesOn(c, Abort(c), c.names)
      BY AbortGoesOn
    <2> HIDE DEF n
    <2>5. GoesOn(c, Advance(n), c.names)
      BY <2>1, AdvanceGoesOn DEF GoesOn
    <2>6. GoesOn(c, n, c.names)
      BY <2>1, <2>2 DEF GoesOn
    <2> QED BY <1>1, <2>2, <2>3, <2>4, <2>5, <2>6 DEF NothingStored
  <1>4. CASE CreateReplica(k)
    <2>1. PICK next \in Left(c) :
            LET t == ConfigTemplates[next]
                n == [c EXCEPT !.pc = "seed", !.config = Len(clientConfigs) + 1,
                               !.names = @ \union {t.name}, !.seeds = Defaults(c.flavor, t.object)]
            IN /\ clientConfigs' = Append(clientConfigs, Copied(k, t))
               /\ callback' = [callback EXCEPT ![k] = IF n.seeds = <<>> THEN Advance(n) ELSE n]
      BY <1>4 DEF CreateReplica, Copied
    <2> DEFINE t == ConfigTemplates[next]
               n == [c EXCEPT !.pc = "seed", !.config = Len(clientConfigs) + 1,
                              !.names = @ \union {t.name}, !.seeds = Defaults(c.flavor, t.object)]
    <2>2. DOMAIN n = CallbackFields /\ n.rivals = c.rivals /\ n.early = c.early
          /\ n.flavor = c.flavor /\ n.names = c.names \union {t.name} /\ n.pc = "seed"
      BY DEF CallbackFields
    <2>3. t.name \notin c.names
      BY DEF Left
    <2>4. callback' = [callback EXCEPT ![k] = IF n.seeds = <<>> THEN Advance(n) ELSE n]
          /\ clientConfigs' = Append(clientConfigs, Copied(k, t))
      BY <2>1
    <2> HIDE DEF n, t
    <2>5. GoesOn(c, Advance(n), c.names \union {t.name})
      BY <2>2, AdvanceGoesOn DEF GoesOn
    <2>6. GoesOn(c, n, c.names \union {t.name})
      BY <2>2 DEF GoesOn
    <2>7. TemplateCopied(k, t)
      BY <2>3, <2>4, <2>5, <2>6 DEF TemplateCopied
    <2> QED BY <1>1, <2>7
  <1> QED BY <1>2, <1>3, <1>4

\* Of two callbacks one read the names while the other was running.
Rivals(a, b) == a \in callback[b].rivals \/ b \in callback[a].rivals

\* A running callback knows the names it has copied, and all others that are
\* not a rival's.
CallbacksInv ==
    /\ DOMAIN callback = Callbacks /\ \A k \in Callbacks : DOMAIN callback[k] = CallbackFields
    /\ IsSeq(clientConfigs)
    /\ \A i \in 1..Len(clientConfigs), k \in Callbacks :
         clientConfigs[i].by = k => /\ callback[k].pc # "idle"
                                    /\ Running(k) => clientConfigs[i].name \in callback[k].names
    /\ \A a, b \in Callbacks : a # b /\ Running(a) /\ Running(b) => Rivals(a, b)
    /\ \A i \in 1..Len(clientConfigs), a, b \in Callbacks :
         (a # b /\ clientConfigs[i].by = a /\ Running(b) /\ clientConfigs[i].name \notin callback[b].names)
            => Rivals(a, b)
    /\ TwinsExplained

LEMMA NothingStoredKeepsTwins ==
    ASSUME CallbacksInv, NEW k \in Callbacks, Running(k), NothingStored(k) PROVE CallbacksInv'
  <1>1. PICK d : callback' = [callback EXCEPT ![k] = d] /\ GoesOn(callback[k], d, callback[k].names)
    BY DEF NothingStored
  <1>2. clientConfigs' = clientConfigs
    BY DEF NothingStored
  <1>3. DOMAIN callback' = Callbacks /\ \A j \in Callbacks : DOMAIN callback'[j] = CallbackFields
    BY <1>1 DEF CallbacksInv, GoesOn
  <1>4. \A j \in Callbacks : /\ callback'[j].rivals = callback[j].rivals
                             /\ callback'[j].pc = "idle" <=> callback[j].pc = "idle"
                             /\ Running(j)' => Running(j) /\ callback'[j].names = callback[j].names
    BY <1>1 DEF CallbacksInv, GoesOn, Running
  <1>5. \A a, b \in Callbacks : Rivals(a, b)' = Rivals(a, b)
    BY <1>4 DEF Rivals
  <1>6. TwinsExplained'
    BY <1>2, <1>4 DEF CallbacksInv, TwinsExplained
  <1> QED BY <1>2, <1>3, <1>4, <1>5, <1>6 DEF CallbacksInv

LEMMA CopyKeepsTwins ==
    ASSUME CallbacksInv, NEW k \in Callbacks, Running(k), NEW t, TemplateCopied(k, t)
    PROVE  CallbacksInv'
  <1> DEFINE n == Len(clientConfigs) + 1
             known == callback[k].names \union {t.name}
  <1>1. PICK d : callback' = [callback EXCEPT ![k] = d] /\ GoesOn(callback[k], d, known)
    BY DEF TemplateCopied
  <1>2. /\ IsSeq(clientConfigs)' /\ Len(clientConfigs) \in Nat /\ Len(clientConfigs') = n
        /\ clientConfigs'[n] = Copied(k, t)
        /\ \A i \in 1..Len(clientConfigs) : clientConfigs'[i] = clientConfigs[i]
    BY Appended DEF TemplateCopied, CallbacksInv
  <1>3. clientConfigs'[n].by = k /\ clientConfigs'[n].name = t.name /\ t.name \notin callback[k].names
    BY <1>2 DEF Copied, NewConfig, TemplateCopied
  <1>4. \A i \in 1..Len(clientConfigs') : i = n \/ i \in 1..Len(clientConfigs)
    BY <1>2
  <1>5. DOMAIN callback' = Callbacks /\ \A j \in Callbacks : DOMAIN callback'[j] = CallbackFields
    BY <1>1 DEF CallbacksInv, GoesOn
  <1>6. \A j \in Callbacks : /\ callback'[j].rivals = callback[j].rivals
                             /\ callback'[j].pc = "idle" <=> callback[j].pc = "idle"
                             /\ Running(j)' => Running(j)
                             /\ j # k => callback'[j].names = callback[j].names
    BY <1>1 DEF CallbacksInv, GoesOn, Running
  <1>7. Running(k)' => callback'[k].names = known
    BY <1>1 DEF CallbacksInv, GoesOn, Running
  <1>8. callback[k].pc # "idle"
    BY DEF Running
  <1> HIDE DEF n, known
  <1>9. \A a, b \in Callbacks : Rivals(a, b)' = Rivals(a, b)
    BY <1>6 DEF Rivals
  <1>10. \A i \in 1..Len(clientConfigs'), j \in Callbacks :
           clientConfigs'[i].by = j => /\ callback'[j].pc # "idle"
                                       /\ Running(j)' => clientConfigs'[i].name \in callback'[j].names
    BY <1>2, <1>3, <1>4, <1>6, <1>7, <1>8 DEF CallbacksInv, known
  <1>11. \A i \in 1..Len(clientConfigs'), a, b \in Callbacks :
           (a # b /\ clientConfigs'[i].by = a /\ Running(b)' /\ clientConfigs'[i].name \notin callback'[b].names)
              => Rivals(a, b)
    BY <1>2, <1>3, <1>4, <1>6, <1>7 DEF CallbacksInv, known
  <1>12. TwinsExplained'
    <2> SUFFICES ASSUME NEW i \in 1..Len(clientConfigs'), NEW j \in 1..Len(clientConfigs'), i # j,
                        clientConfigs'[i].by \in Callbacks, clientConfigs'[j].by \in Callbacks,
                        clientConfigs'[i].name = clientConfigs'[j].name
                 PROVE  /\ clientConfigs'[i].by # clientConfigs'[j].by
                        /\ Rivals(clientConfigs'[i].by, clientConfigs'[j].by)
      BY <1>9 DEF TwinsExplained, Rivals
    <2>1. CASE i # n /\ j # n
      BY <1>2, <1>4, <2>1 DEF CallbacksInv, TwinsExplained, Rivals
    <2>2. ASSUME NEW m \in 1..Len(clientConfigs), clientConfigs[m].by \in Callbacks,
                 clientConfigs[m].name = t.name
          PROVE  clientConfigs[m].by # k /\ Rivals(clientConfigs[m].by, k) /\ Rivals(k, clientConfigs[m].by)
      BY <1>3, <2>2 DEF CallbacksInv, Rivals
    <2>3. CASE i = n
      BY <1>2, <1>3, <1>4, <2>2, <2>3
    <2>4. CASE j = n
      BY <1>2, <1>3, <1>4, <2>2, <2>4
    <2> QED BY <2>1, <2>3, <2>4
  <1> QED BY <1>2, <1>5, <1>6, <1>9, <1>10, <1>11, <1>12 DEF CallbacksInv

\* A callback that reads: it has stored nothing, knows every name there is,
\* and every running callback is its rival.
LEMMA ReadKeepsTwins ==
    ASSUME CallbacksInv, NEW k \in Callbacks, ReadTemplates(k) PROVE CallbacksInv'
  <1> DEFINE c == [pc |-> "create", flavor |-> TenantFlavor, names |-> ExistingClientNames,
                   seeds |-> <<>>, config |-> 0,
                   rivals |-> {j \in Callbacks \ {k} : Running(j)},
                   early |-> \A p \in Provisioners : provision[p] # "done"]
  <1>1. DOMAIN c = CallbackFields /\ c.names = ConfigNames /\ c.rivals = {j \in Callbacks \ {k} : Running(j)}
    BY DEF CallbackFields, ExistingClientNames
  <1>2. callback[k].pc = "idle" /\ clientConfigs' = clientConfigs
        /\ \E d : callback' = [callback EXCEPT ![k] = d] /\ (d = Abort(c) \/ d = Advance(c))
    BY DEF ReadTemplates
  <1> HIDE DEF c
  <1>3. PICK d : callback' = [callback EXCEPT ![k] = d] /\ GoesOn(c, d, ConfigNames)
    BY <1>1, <1>2, AbortGoesOn, AdvanceGoesOn
  <1>4. DOMAIN callback' = Callbacks /\ \A j \in Callbacks : DOMAIN callback'[j] = CallbackFields
    BY <1>3 DEF CallbacksInv, GoesOn
  <1>5. \A j \in Callbacks : j # k => callback'[j] = callback[j] /\ Running(j)' = Running(j)
    BY <1>3 DEF CallbacksInv, Running
  <1>6. /\ callback'[k].pc # "idle" /\ callback'[k].rivals = {j \in Callbacks \ {k} : Running(j)}
        /\ Running(k)' => callback'[k].names = ConfigNames
    BY <1>1, <1>3 DEF CallbacksInv, GoesOn, Running
  <1>7. \A i \in 1..Len(clientConfigs) : clientConfigs[i].by # k /\ clientConfigs[i].name \in ConfigNames
    BY <1>2 DEF CallbacksInv, ConfigNames
  <1>8. \A a, b \in Callbacks : a # k /\ b # k => Rivals(a, b)' = Rivals(a, b)
    BY <1>5 DEF Rivals
  <1>9. \A a \in Callbacks : a # k /\ Running(a) => Rivals(a, k)' /\ Rivals(k, a)'
    BY <1>6 DEF Rivals
  <1>10. TwinsExplained'
    BY <1>2, <1>5, <1>7, <1>8 DEF CallbacksInv, TwinsExplained, Rivals
  <1> QED BY <1>2, <1>4, <1>5, <1>6, <1>7, <1>8, <1>9, <1>10 DEF CallbacksInv

\* The administrator's config is no replica.
LEMMA AdminKeepsTwins ==
    ASSUME CallbacksInv, NEW a, CreateClientConfig(a) PROVE CallbacksInv'
  <1> DEFINE x == NewConfig(a.name, a.object, TenantFlavor, a.credential, "admin")
             n == Len(clientConfigs) + 1
  <1>1. callback' = callback /\ clientConfigs' = Append(clientConfigs, x) /\ x.by = "admin"
    BY DEF CreateClientConfig, NewConfig
  <1> HIDE DEF x
  <1>2. /\ IsSeq(clientConfigs)' /\ Len(clientConfigs) \in Nat /\ Len(clientConfigs') = n
        /\ clientConfigs'[n].by \notin Callbacks
        /\ \A i \in 1..Len(clientConfigs) : clientConfigs'[i] = clientConfigs[i]
    BY <1>1, Appended, SetupAssumption DEF CallbacksInv
  <1>3. \A i \in 1..Len(clientConfigs') : i = n \/ i \in 1..Len(clientConfigs)
    BY <1>2
  <1> HIDE DEF n
  <1>4. TwinsExplained'
    BY <1>1, <1>2, <1>3 DEF CallbacksInv, TwinsExplained
  <1> QED BY <1>1, <1>2, <1>3, <1>4 DEF CallbacksInv, Running, Rivals

LEMMA SetupKeepsTwins == CallbacksInv /\ [SetupNext]_setupVars => CallbacksInv'
  <1> SUFFICES ASSUME CallbacksInv, [SetupNext]_setupVars PROVE CallbacksInv'
    OBVIOUS
  <1>1. CASE UNCHANGED <<callback, clientConfigs>>
    BY <1>1 DEF CallbacksInv, TwinsExplained, Running, Rivals
  <1>2. CASE \/ UNCHANGED setupVars \/ (\E p \in Provisioners : ProvisionStep(p)) \/ SeedClientConfig
             \/ (\E o \in AdminObjects : CreateAdminMapping(o) \/ CreateTenantMapping(o))
             \/ (\E i \in 1..Len(clientConfigs) : StartEnsure(i)) \/ FinishEnsure
    BY <1>1, <1>2 DEF setupVars, tenantVars, ProvisionStep, CreateClient, Subscribe, EnsureModes,
       EnsureConfigurations, ReplicateFilters, ResolveCredential, FailProvision, SeedClientConfig,
       CreateAdminMapping, CreateTenantMapping, StartEnsure, FinishEnsure
  <1>3. ASSUME NEW k \in Callbacks, CallbackStep(k) PROVE CallbacksInv'
    <2>1. DOMAIN callback[k] = CallbackFields
      BY DEF CallbacksInv
    <2> QED BY <1>3, <2>1, CallbackSteps, ReadKeepsTwins, NothingStoredKeepsTwins, CopyKeepsTwins
            DEF CallbackStep
  <1> QED BY <1>2, <1>3, AdminKeepsTwins DEF SetupNext

\* Whatever callbacks, provisionings and administrators do at once and
\* wherever they fail, a template is copied twice only by callbacks one of
\* which read the names while the other was copying
\* (replicateMasterClientConfigs).
THEOREM TwinConfigsAreExplained == SetupSpec => []TwinsExplained
  <1>1. SetupInit => CallbacksInv
    <2> SUFFICES ASSUME SetupInit PROVE CallbacksInv
      OBVIOUS
    <2>1. callback = [k \in Callbacks |-> IdleCallback] /\ clientConfigs = <<>>
      BY DEF SetupInit
    <2>2. DOMAIN IdleCallback = CallbackFields /\ IdleCallback.pc = "idle"
      BY DEF IdleCallback, CallbackFields
    <2>3. IsSeq(clientConfigs) /\ Len(clientConfigs) = 0
      <3>1. clientConfigs \in Seq({})
        BY <2>1
      <3> QED BY <2>1, <3>1 DEF IsSeq
    <2> QED BY <2>1, <2>2, <2>3 DEF CallbacksInv, TwinsExplained, Running
  <1>2. CallbacksInv => TwinsExplained
    BY DEF CallbacksInv
  <1> QED BY <1>1, <1>2, SetupKeepsTwins, PTL DEF SetupSpec

-----------------------------------------------------------------------------
(* TenantSetup: what a callback replicates once a provisioning has finished *)
(* is of the tenant as it stays.                                            *)

SomeDone == \E p \in Provisioners : provision[p] = "done"
OfTheTenant == client \in Flavors /\ flavor = client /\ filters = <<client>>

LEMMA DoneIsOfTheTenant == ProvisionInv /\ SomeDone => OfTheTenant
  BY SetupAssumption DEF ProvisionInv, SomeDone, OfTheTenant, DoneSoFar, Before

LEMMA DoneStays ==
    ASSUME ProvisionInv, SomeDone, [SetupNext]_setupVars
    PROVE  SomeDone' /\ client' = client
  <1>1. PICK p \in Provisioners : provision[p] = "done"
    BY DEF SomeDone
  <1>2. client # "none" /\ \A q \in Provisioners : q # p => provision[q] \in Before
    BY <1>1 DEF ProvisionInv, DoneSoFar, Before
  <1>3. CASE UNCHANGED <<client, provision>>
    BY <1>1, <1>3 DEF SomeDone
  <1>4. ASSUME NEW q \in Provisioners, ProvisionStep(q) PROVE SomeDone' /\ client' = client
    <2>1. provision[q] \notin {"done", "failed"}
      BY <1>4 DEF ProvisionStep, CreateClient, Subscribe, EnsureModes, EnsureConfigurations,
         ReplicateFilters, ResolveCredential, FailProvision
    <2>2. q # p /\ provision[q] = "client"
      BY <1>1, <1>2, <2>1 DEF Before
    <2>3. CreateClient(q) \/ FailProvision(q)
      BY <1>4, <2>2 DEF ProvisionStep, Subscribe, EnsureModes, EnsureConfigurations, ReplicateFilters,
         ResolveCredential
    <2>4. client' = client
      BY <1>2, <2>3 DEF CreateClient, FailProvision, tenantVars
    <2>5. provision'[p] = provision[p]
      BY <1>1, <2>2, <2>3 DEF CreateClient, FailProvision, ProvisionInv
    <2> QED BY <1>1, <2>4, <2>5 DEF SomeDone
  <1>5. CASE \/ UNCHANGED setupVars \/ (\E k \in Callbacks : CallbackStep(k))
             \/ (\E a \in AdminConfigs : CreateClientConfig(a)) \/ SeedClientConfig
             \/ (\E o \in AdminObjects : CreateAdminMapping(o) \/ CreateTenantMapping(o))
             \/ (\E i \in 1..Len(clientConfigs) : StartEnsure(i)) \/ FinishEnsure
    BY <1>3, <1>5 DEF setupVars, tenantVars, CallbackStep, ReadTemplates, CreateReplica, SeedReplica,
       FailCallback, CreateClientConfig, SeedClientConfig, CreateAdminMapping, CreateTenantMapping,
       StartEnsure, FinishEnsure
  <1> QED BY <1>4, <1>5 DEF SetupNext

Late(k) == callback[k].pc # "idle" /\ ~callback[k].early

ReplicaIsRight(i) ==
    clientConfigs[i].by \in Callbacks =>
        /\ callback[clientConfigs[i].by].pc # "idle"
        /\ Late(clientConfigs[i].by) =>
             clientConfigs[i].flavor = client /\ clientConfigs[i].filters = <<client>>

ReplicasInv ==
    /\ DOMAIN callback = Callbacks /\ \A k \in Callbacks : DOMAIN callback[k] = CallbackFields
    /\ IsSeq(clientConfigs)
    /\ \A k \in Callbacks : Late(k) => SomeDone
    /\ \A k \in Callbacks : Running(k) /\ Late(k) => callback[k].flavor = client
    /\ \A i \in 1..Len(clientConfigs) : ReplicaIsRight(i)

LEMMA StepKeepsReplicas ==
    ASSUME ProvisionInv, ReplicasInv, [SetupNext]_setupVars PROVE ReplicasInv'
  <1>1. SomeDone => SomeDone' /\ client' = client
    BY DoneStays
  <1>2. SomeDone => OfTheTenant
    BY DoneIsOfTheTenant
  <1>3. CASE UNCHANGED <<callback, clientConfigs>>
    BY <1>1, <1>3 DEF ReplicasInv, ReplicaIsRight, Late, Running
  <1>4. ASSUME NEW k \in Callbacks, NEW d, NEW names, GoesOn(callback[k], d, names),
               callback' = [callback EXCEPT ![k] = d], callback[k].pc # "idle", Running(k)
        PROVE  /\ DOMAIN callback' = Callbacks /\ \A j \in Callbacks : DOMAIN callback'[j] = CallbackFields
               /\ \A j \in Callbacks : /\ Late(j)' = Late(j)
                                       /\ callback'[j].pc = "idle" <=> callback[j].pc = "idle"
                                       /\ callback'[j].flavor = callback[j].flavor
                                       /\ Running(j)' => Running(j)
    BY <1>4 DEF ReplicasInv, GoesOn, Late, Running
  <1>5. ASSUME NEW k \in Callbacks, Running(k), NothingStored(k) PROVE ReplicasInv'
    <2>1. callback[k].pc # "idle" /\ clientConfigs' = clientConfigs
      BY <1>5 DEF Running, NothingStored
    <2>2. PICK d : callback' = [callback EXCEPT ![k] = d] /\ GoesOn(callback[k], d, callback[k].names)
      BY <1>5 DEF NothingStored
    <2> QED BY <1>1, <1>4, <1>5, <2>1, <2>2 DEF ReplicasInv, ReplicaIsRight
  <1>6. ASSUME NEW k \in Callbacks, Running(k), NEW t, TemplateCopied(k, t) PROVE ReplicasInv'
    <2>0. PICK n : n = Len(clientConfigs) + 1
      OBVIOUS
    <2>1. callback[k].pc # "idle"
      BY <1>6 DEF Running
    <2>2. PICK d : /\ callback' = [callback EXCEPT ![k] = d]
                   /\ GoesOn(callback[k], d, callback[k].names \union {t.name})
      BY <1>6 DEF TemplateCopied
    <2>3. /\ IsSeq(clientConfigs)' /\ Len(clientConfigs) \in Nat /\ Len(clientConfigs') = n
          /\ clientConfigs'[n] = Copied(k, t)
          /\ \A i \in 1..Len(clientConfigs) : clientConfigs'[i] = clientConfigs[i]
      BY <1>6, <2>0, Appended DEF TemplateCopied, ReplicasInv
    <2>4. /\ clientConfigs'[n].by = k /\ clientConfigs'[n].flavor = callback[k].flavor
          /\ clientConfigs'[n].filters = filters
      BY <2>3 DEF Copied, NewConfig
    <2>5. \A i \in 1..Len(clientConfigs') : i = n \/ i \in 1..Len(clientConfigs)
      BY <2>0, <2>3
    <2>6. Late(k) => callback[k].flavor = client' /\ filters = <<client'>>
      BY <1>1, <1>2, <1>6 DEF ReplicasInv, OfTheTenant
    <2>7. \A j \in Callbacks : /\ Late(j)' = Late(j)
                               /\ callback'[j].pc = "idle" <=> callback[j].pc = "idle"
      BY <1>4, <1>6, <2>1, <2>2
    <2>8. ReplicaIsRight(n)'
      BY <2>1, <2>4, <2>6, <2>7 DEF ReplicaIsRight
    <2>9. ASSUME NEW i \in 1..Len(clientConfigs) PROVE ReplicaIsRight(i)'
      BY <1>1, <2>3, <2>7 DEF ReplicasInv, ReplicaIsRight
    <2> QED BY <1>1, <1>4, <1>6, <2>1, <2>2, <2>3, <2>5, <2>8, <2>9 DEF ReplicasInv
  <1>7. ASSUME NEW k \in Callbacks, ReadTemplates(k) PROVE ReplicasInv'
    <2> DEFINE c == [pc |-> "create", flavor |-> TenantFlavor, names |-> ExistingClientNames,
                     seeds |-> <<>>, config |-> 0,
                     rivals |-> {j \in Callbacks \ {k} : Running(j)},
                     early |-> \A p \in Provisioners : provision[p] # "done"]
    <2>1. DOMAIN c = CallbackFields /\ c.flavor = TenantFlavor /\ c.early = ~SomeDone
      BY DEF CallbackFields, SomeDone
    <2>2. callback[k].pc = "idle" /\ clientConfigs' = clientConfigs
          /\ \E d : callback' = [callback EXCEPT ![k] = d] /\ (d = Abort(c) \/ d = Advance(c))
      BY <1>7 DEF ReadTemplates
    <2> HIDE DEF c
    <2>3. PICK d : callback' = [callback EXCEPT ![k] = d] /\ GoesOn(c, d, c.names)
      BY <2>1, <2>2, AbortGoesOn, AdvanceGoesOn
    <2>4. DOMAIN callback' = Callbacks /\ \A j \in Callbacks : DOMAIN callback'[j] = CallbackFields
      BY <2>3 DEF ReplicasInv, GoesOn
    <2>5. \A j \in Callbacks : j # k => callback'[j] = callback[j]
      BY <2>3 DEF ReplicasInv
    <2>6. (Late(k)' <=> SomeDone) /\ callback'[k].pc # "idle" /\ callback'[k].flavor = TenantFlavor
      BY <2>1, <2>3 DEF ReplicasInv, GoesOn, Late
    <2>7. SomeDone => TenantFlavor = client'
      BY <1>1, <1>2 DEF OfTheTenant, TenantFlavor, Flavors
    <2>8. \A i \in 1..Len(clientConfigs) : clientConfigs[i].by # k
      BY <2>2 DEF ReplicasInv, ReplicaIsRight
    <2>9. \A j \in Callbacks : j # k => Late(j)' = Late(j) /\ Running(j)' = Running(j)
      BY <2>5 DEF Late, Running
    <2>10. \A i \in 1..Len(clientConfigs) : ReplicaIsRight(i)'
      BY <1>1, <2>2, <2>5, <2>8, <2>9 DEF ReplicasInv, ReplicaIsRight
    <2> QED BY <1>1, <2>2, <2>4, <2>5, <2>6, <2>7, <2>9, <2>10 DEF ReplicasInv
  <1>8. ASSUME NEW a, CreateClientConfig(a) PROVE ReplicasInv'
    <2> DEFINE x == NewConfig(a.name, a.object, TenantFlavor, a.credential, "admin")
    <2>1. callback' = callback /\ clientConfigs' = Append(clientConfigs, x) /\ x.by = "admin"
      BY <1>8 DEF CreateClientConfig, NewConfig
    <2> HIDE DEF x
    <2>2. /\ IsSeq(clientConfigs)' /\ Len(clientConfigs) \in Nat
          /\ Len(clientConfigs') = Len(clientConfigs) + 1
          /\ clientConfigs'[Len(clientConfigs) + 1].by \notin Callbacks
          /\ \A i \in 1..Len(clientConfigs) : clientConfigs'[i] = clientConfigs[i]
      BY <2>1, Appended, SetupAssumption DEF ReplicasInv
    <2>3. \A i \in 1..Len(clientConfigs') : i = Len(clientConfigs) + 1 \/ i \in 1..Len(clientConfigs)
      BY <2>2
    <2> QED BY <1>1, <2>1, <2>2, <2>3 DEF ReplicasInv, ReplicaIsRight, Late, Running
  <1>9. CASE \/ UNCHANGED setupVars \/ (\E p \in Provisioners : ProvisionStep(p)) \/ SeedClientConfig
             \/ (\E o \in AdminObjects : CreateAdminMapping(o) \/ CreateTenantMapping(o))
             \/ (\E i \in 1..Len(clientConfigs) : StartEnsure(i)) \/ FinishEnsure
    BY <1>3, <1>9 DEF setupVars, tenantVars, ProvisionStep, CreateClient, Subscribe, EnsureModes,
       EnsureConfigurations, ReplicateFilters, ResolveCredential, FailProvision, SeedClientConfig,
       CreateAdminMapping, CreateTenantMapping, StartEnsure, FinishEnsure
  <1>10. ASSUME NEW k \in Callbacks, CallbackStep(k) PROVE ReplicasInv'
    <2>1. DOMAIN callback[k] = CallbackFields
      BY DEF ReplicasInv
    <2> QED BY <1>5, <1>6, <1>7, <1>10, <2>1, CallbackSteps DEF CallbackStep
  <1> QED BY <1>8, <1>9, <1>10 DEF SetupNext

\* A config replicated by a callback that read the tenant after a provisioning
\* of it had finished has the tenant's flavor and its default filters, exactly
\* once, for good (replicateMasterClientConfigs).
THEOREM ReplicasFollowTheTenant == SetupSpec => []ReplicasAreOfTheTenant
  <1>1. SetupInit => ReplicasInv
    <2> SUFFICES ASSUME SetupInit PROVE ReplicasInv
      OBVIOUS
    <2>1. callback = [k \in Callbacks |-> IdleCallback] /\ clientConfigs = <<>>
      BY DEF SetupInit
    <2>2. DOMAIN IdleCallback = CallbackFields /\ IdleCallback.pc = "idle"
      BY DEF IdleCallback, CallbackFields
    <2>3. IsSeq(clientConfigs) /\ Len(clientConfigs) = 0
      <3>1. clientConfigs \in Seq({})
        BY <2>1
      <3> QED BY <2>1, <3>1 DEF IsSeq
    <2> QED BY <2>1, <2>2, <2>3 DEF ReplicasInv, Running, Late
  <1>2. ReplicasInv => ReplicasAreOfTheTenant
    BY DEF ReplicasInv, ReplicasAreOfTheTenant, ReplicaIsRight, Late
  <1>3. (ProvisionInv /\ ReplicasInv) /\ [SetupNext]_setupVars => (ProvisionInv /\ ReplicasInv)'
    BY SetupKeepsProvisions, StepKeepsReplicas
  <1> QED BY <1>1, <1>2, <1>3, SetupInitProvisions, PTL DEF SetupSpec

-----------------------------------------------------------------------------
(* SapSyncSchedule.  For any number of configs, tenants, requests and       *)
(* failures, an undisturbed registration is exact.  SettledIsScheduled is   *)
(* not inductive: what an actor has in memory must still be what the        *)
(* database holds, and what it has registered so far must be a part of its  *)
(* plan, as long as it works on the config alone.                           *)

Requests == {"idle", "found", "keyed", "list", "remove", "add"}

Registering == {"list", "remove", "add"}

\* Actor a holds the saved document of c and has registered part of its plan.
Progress(a, c) ==
    /\ doc[a] = saved[c]
    /\ pc[a] = "remove" => left[a] = Names(jobs[c])
    /\ pc[a] = "add" =>
         /\ ShouldSchedule(doc[a])
         /\ \A n \in Name : jobs[c][n] = IF n \in left[a] THEN {} ELSE Plan(doc[a].setting)[n]

\* Two actors at work on one config know that they are not alone.
Alone ==
    \A a, b \in Actor : \A c \in Config :
        a # b /\ Busy(a, c) /\ Busy(b, c) => <<a, c>> \in overlapped

\* A settled config is at rest.
AtRest == \A c \in settled : AsSaved(c) /\ \A a \in Actor : ~Busy(a, c)

RequestsProgress ==
    \A r \in Requester :
        /\ pc[r] \in Requests
        /\ pc[r] # "idle" /\ <<r, target[r]>> \notin overlapped => Progress(r, target[r])

AtHand(c) == pc[Boot] \in Registering /\ target[Boot] = c

\* The order of the bootstrap: a config is waiting, read, at hand or repaired.
BootOrder ==
    /\ pc[Boot] \notin {"found", "keyed"}
    /\ pc[Boot] \in {"idle", "load", "sweep"} => DOMAIN configs = {}
    /\ pc[Boot] \in {"idle", "sweep"} => todo = {}
    /\ pc[Boot] # "sweep" => orphans = {}
    /\ orphans \intersect expected = {}
    /\ \A c \in Config :
        /\ TenantOf[c] \in todo => c \notin DOMAIN configs
        /\ TenantOf[c] \in todo \/ c \in DOMAIN configs => c \notin repaired /\ ~AtHand(c)
        /\ AtHand(c) => c \notin repaired

\* What the bootstrap knows of a config nobody else works on.
BootKnows(c) ==
    /\ TenantOf[c] \in todo => TenantOf[c] \in tenants
    /\ c \in DOMAIN configs => configs[c] = saved[c] /\ TenantOf[c] \in tenants
    /\ AtHand(c) => Progress(Boot, c) /\ TenantOf[c] \in tenants
    /\ c \in repaired => TenantOf[c] \in tenants /\ jobs[c] = Scheduled(saved[c])
    /\ c \in repaired \/ AtHand(c) => {c} \X Names(Scheduled(saved[c])) \subseteq expected
    /\ TenantOf[c] \notin tenants => \A n \in Name : <<c, n>> \notin expected
    /\ pc[Boot] = "sweep" =>
         \A n \in Name : jobs[c][n] # {} => <<c, n>> \in orphans \union expected

BootProgress ==
    \A c \in Config : pc[Boot] # "idle" /\ <<Boot, c>> \notin overlapped => BootKnows(c)

\* Only an actor at work on a config holds a document of it.
HoldsDocument == \A a \in Actor : pc[a] \in Registering \union {"found", "keyed"} => doc[a] \in Value

IInv == TypeOK /\ HoldsDocument /\ Alone /\ AtRest /\ RequestsProgress /\ BootOrder /\ BootProgress
-----------------------------------------------------------------------------
(* What the plans of a setting are.                                        *)

\* A pattern fires at minutes of the day.
LEMMA PatternType ==
    ASSUME NEW s \in Setting
    PROVE  Pattern(s) \subseteq Minutes
BY DEF Pattern, Every

\* A plan gives every name a set of minutes.
LEMMA PlanType ==
    ASSUME NEW s \in Setting
    PROVE  Plan(s) \in [Name -> SUBSET Minutes]
<1>1. CASE s.mode = "FULL"
  <2>1. s.times \subseteq Minutes
    BY <1>1, ScheduleAssumption DEF AnySetting
  <2> QED BY <1>1, <2>1 DEF Plan
<1>2. CASE s.mode # "FULL"
  BY <1>2, PatternType DEF Plan, NoJobs
<1> QED BY <1>1, <1>2

\* A registration leaves the plan, or nothing.
LEMMA ScheduledType ==
    ASSUME NEW v \in Value
    PROVE  Scheduled(v) \in [Name -> SUBSET Minutes]
BY PlanType DEF Scheduled, Value, NoJobs

\* So does the time of the plain names.
LEMMA LegacyType ==
    ASSUME NEW v \in Value
    PROVE  LegacyJobs(v) \in [Name -> SUBSET Minutes]
<1>1. UNION {Scheduled(v)[n] : n \in Name} \subseteq Minutes
  BY ScheduledType
<1> QED BY <1>1 DEF LegacyJobs, NoJobs
-----------------------------------------------------------------------------
(* Frames: what a step of one actor on one config leaves alone.            *)

\* Actor a does something to the config it works on, and to nothing else.
OneStep(a) ==
    /\ UNCHANGED <<tenants, target, overlapped, orphans, todo, expected>>
    /\ a # Boot => UNCHANGED <<configs, repaired>>
    /\ pc[a] # "idle"
    /\ \A d \in Config \ {target[a]} : jobs'[d] = jobs[d] /\ saved'[d] = saved[d]
    /\ \A b \in Actor \ {a} : pc'[b] = pc[b] /\ doc'[b] = doc[b] /\ left'[b] = left[b]

\* Who worked together knows it, as long as nobody begins.
LEMMA StillAlone ==
    ASSUME Alone, overlapped \subseteq overlapped',
           \A a \in Actor, c \in Config : Busy(a, c)' => Busy(a, c)
    PROVE  Alone'
BY DEF Alone

LEMMA OneStepAlone ==
    ASSUME IInv, NEW a \in Actor, OneStep(a)
    PROVE  Alone'
<1>1. overlapped \subseteq overlapped'
  BY DEF OneStep
<1>2. \A b \in Actor, c \in Config : Busy(b, c)' => Busy(b, c)
  BY DEF OneStep, Busy
<1>3. Alone
  BY DEF IInv
<1> QED BY <1>1, <1>2, <1>3, StillAlone

\* A settled config is not the one at hand: its schedulers are unchanged.
LEMMA OneStepAtRest ==
    ASSUME IInv, NEW a \in Actor, OneStep(a), NEW c \in settled
    PROVE  (AsSaved(c) /\ \A b \in Actor : ~Busy(b, c))'
<1>1. c \in Config /\ AsSaved(c) /\ \A b \in Actor : ~Busy(b, c)
  BY DEF IInv, AtRest, TypeOK
<1>2. c # target[a] /\ pc[a] # "idle"
  BY <1>1 DEF Busy, OneStep
<1>3. jobs'[c] = jobs[c] /\ saved'[c] = saved[c] /\ tenants' = tenants
  BY <1>1, <1>2 DEF OneStep
<1>4. AsSaved(c)' = AsSaved(c)
  BY <1>3 DEF AsSaved
<1>5. \A b \in Actor : ~Busy(b, c)'
  BY <1>1, <1>2 DEF OneStep, Busy
<1> QED BY <1>1, <1>3, <1>4, <1>5

\* The other requests keep their progress, or have lost it long since.
LEMMA OneStepRequests ==
    ASSUME IInv, NEW a \in Actor, OneStep(a), NEW r \in Requester \ {a}
    PROVE  /\ pc'[r] \in Requests
           /\ pc'[r] # "idle" /\ <<r, target'[r]>> \notin overlapped' => Progress(r, target[r])'
<1>1. r \in Actor /\ r # a /\ r # Boot /\ target[r] \in Config
  BY ScheduleAssumption DEF Actor, IInv, TypeOK
<1>2. /\ pc'[r] = pc[r] /\ doc'[r] = doc[r] /\ left'[r] = left[r]
      /\ target' = target /\ overlapped' = overlapped /\ tenants' = tenants
  BY <1>1 DEF OneStep
<1>3. pc[r] \in Requests
  BY DEF IInv, RequestsProgress
<1>4. ASSUME pc[r] # "idle", <<r, target[r]>> \notin overlapped
      PROVE  Progress(r, target[r])'
  <2>1. Progress(r, target[r])
    BY <1>4 DEF IInv, RequestsProgress
  <2>2. Busy(r, target[r]) /\ ~Busy(a, target[r])
    BY <1>1, <1>4 DEF IInv, Alone, Busy
  <2>3. target[r] # target[a]
    BY <2>2 DEF OneStep, Busy
  <2>4. jobs'[target[r]] = jobs[target[r]] /\ saved'[target[r]] = saved[target[r]]
    BY <1>1, <2>3 DEF OneStep
  <2> QED BY <1>2, <2>1, <2>4 DEF Progress
<1> QED BY <1>2, <1>3, <1>4

\* A request disturbs the bootstrap on its own config only, which both know.
LEMMA OneStepBoot ==
    ASSUME IInv, NEW r \in Requester, OneStep(r)
    PROVE  BootOrder' /\ BootProgress'
<1>1. r \in Actor /\ Boot \in Actor /\ r # Boot
  BY ScheduleAssumption DEF Actor
<1>2. /\ pc'[Boot] = pc[Boot] /\ doc'[Boot] = doc[Boot] /\ left'[Boot] = left[Boot]
      /\ UNCHANGED <<tenants, target, overlapped, orphans, todo, expected, configs, repaired>>
  BY <1>1 DEF OneStep
<1>3. BootOrder'
  BY <1>2 DEF IInv, BootOrder, AtHand
<1>4. ASSUME NEW c \in Config, pc[Boot] # "idle", <<Boot, c>> \notin overlapped
      PROVE  BootKnows(c)'
  <2>1. BootKnows(c)
    BY <1>4 DEF IInv, BootProgress
  <2>2. ~Busy(r, c)
    BY <1>1, <1>4 DEF IInv, Alone, Busy
  <2>3. c # target[r]
    BY <1>1, <2>2 DEF OneStep, Busy
  <2>4. jobs'[c] = jobs[c] /\ saved'[c] = saved[c]
    BY <2>3 DEF OneStep
  <2>5. AtHand(c) => Progress(Boot, c)'
    BY <1>2, <2>1, <2>4 DEF BootKnows, Progress
  <2> QED BY <1>2, <2>1, <2>4, <2>5 DEF BootKnows, AtHand
<1> QED BY <1>2, <1>3, <1>4 DEF BootProgress
-----------------------------------------------------------------------------
\* At the start nobody works on anything.
LEMMA InitInvariant ==
    ASSUME Init
    PROVE  IInv
<1>1. jobs \in [Config -> [Name -> SUBSET Minutes]]
  <2>1. ASSUME NEW v \in Value
        PROVE  {NoJobs, Scheduled(v), LegacyJobs(v)} \subseteq [Name -> SUBSET Minutes]
    BY ScheduledType, LegacyType DEF NoJobs
  <2> QED BY <2>1 DEF Init
<1>2. TypeOK
  BY <1>1, ScheduleAssumption DEF Init, TypeOK, NoConfigs
<1>3. \A a \in Actor : pc[a] = "idle"
  BY DEF Init
<1>4. \A a \in Actor, c \in Config : ~Busy(a, c)
  BY <1>3 DEF Busy
<1>5. HoldsDocument /\ Alone /\ AtRest
  BY <1>3, <1>4 DEF Init, HoldsDocument, Registering, Alone, AtRest
<1>6. Requester \subseteq Actor /\ Boot \in Actor
  BY DEF Actor
<1>7. RequestsProgress
  BY <1>3, <1>6 DEF RequestsProgress, Requests
<1>8. BootOrder /\ BootProgress
  BY <1>3, <1>6 DEF Init, BootOrder, BootProgress, AtHand, Registering, NoConfigs
<1> QED BY <1>2, <1>5, <1>7, <1>8 DEF IInv

\* If nothing changes, nothing is broken.
LEMMA StutterInvariant ==
    ASSUME IInv, UNCHANGED vars
    PROVE  IInv'
BY DEF IInv, TypeOK, HoldsDocument, Alone, AtRest, RequestsProgress, BootOrder,
       BootProgress, BootKnows, AtHand, Progress, Busy, AsSaved, vars, dataVars,
       actorVars, bootVars, ghosts
-----------------------------------------------------------------------------
(* Requests.                                                               *)

\* What is left to show of a request's step on its config.
LEMMA RequestStep ==
    ASSUME IInv, NEW r \in Requester, OneStep(r), TypeOK', HoldsDocument',
           pc'[r] \in Requests,
           pc'[r] # "idle" /\ <<r, target[r]>> \notin overlapped => Progress(r, target[r])',
           settled' \subseteq settled
              \/ /\ settled' = settled \union Undisturbed(r, {target[r]})
                 /\ pc'[r] = "idle"
                 /\ <<r, target[r]>> \notin overlapped => AsSaved(target[r])'
    PROVE  IInv'
<1>1. r \in Actor /\ target[r] \in Config
  BY DEF Actor, IInv, TypeOK
<1>2. Alone'
  BY <1>1, OneStepAlone
<1>3. BootOrder' /\ BootProgress'
  BY OneStepBoot
<1>4. RequestsProgress'
  <2>1. ASSUME NEW q \in Requester
        PROVE  /\ pc'[q] \in Requests
               /\ pc'[q] # "idle" /\ <<q, target'[q]>> \notin overlapped' => Progress(q, target[q])'
    <3>1. CASE q = r
      BY <3>1 DEF OneStep
    <3>2. CASE q # r
      BY <3>2, <1>1, OneStepRequests
    <3> QED BY <3>1, <3>2
  <2> QED BY <2>1 DEF RequestsProgress
<1>5. AtRest'
  <2>1. ASSUME NEW c \in settled'
        PROVE  AsSaved(c)' /\ \A b \in Actor : ~Busy(b, c)'
    <3>1. CASE c \in settled
      BY <3>1, <1>1, OneStepAtRest
    <3>2. CASE c \notin settled
      <4>1. /\ c = target[r] /\ pc'[r] = "idle" /\ <<r, c>> \notin overlapped
            /\ AsSaved(c)'
        BY <3>2, <2>1 DEF Undisturbed, AsSaved, OneStep
      <4>2. ASSUME NEW b \in Actor, Busy(b, c)'
            PROVE  FALSE
        <5>1. r # Boot /\ target' = target
          BY ScheduleAssumption DEF OneStep
        <5>2. b # r
          BY <4>1, <4>2, <5>1 DEF Busy
        <5>3. Busy(b, c)
          BY <4>2, <5>1, <5>2 DEF Busy, OneStep
        <5>4. Busy(r, c)
          BY <4>1 DEF Busy, OneStep
        <5> QED BY <4>1, <5>2, <5>3, <5>4, <1>1 DEF IInv, Alone
      <4> QED BY <4>1, <4>2
    <3> QED BY <3>1, <3>2
  <2> QED BY <2>1 DEF AtRest
<1> QED BY <1>2, <1>3, <1>4, <1>5 DEF IInv

\* What Begin keeps: whoever else overlapped, and who joins a config in use.
LEMMA BeginOverlaps ==
    ASSUME NEW a \in Actor, NEW C \in SUBSET Config, overlapped \subseteq Actor \X Config,
           Begin(a, C)
    PROVE  /\ \A b \in Actor \ {a}, c \in Config :
                <<b, c>> \in overlapped => <<b, c>> \in overlapped'
           /\ \A b \in Actor \ {a}, c \in C :
                Busy(b, c) => <<a, c>> \in overlapped' /\ <<b, c>> \in overlapped'
           /\ overlapped' \subseteq Actor \X Config
           /\ settled' \subseteq settled /\ settled' \intersect C = {}
<1> DEFINE shared == {c \in C : \E b \in Actor \ {a} : Busy(b, c)}
<1>1. overlapped' = (overlapped \ ({a} \X Config))
                    \union {p \in Actor \X shared : p[1] = a \/ Busy(p[1], p[2])}
  BY DEF Begin
<1>2. ASSUME NEW b \in Actor \ {a}, NEW c \in C, Busy(b, c)
      PROVE  <<a, c>> \in overlapped' /\ <<b, c>> \in overlapped'
  <2>1. c \in shared
    BY <1>2
  <2>2. <<a, c>> \in Actor \X shared /\ <<b, c>> \in Actor \X shared
    BY <2>1
  <2> QED BY <1>1, <1>2, <2>2
<1>3. \A b \in Actor \ {a}, c \in Config : <<b, c>> \notin {a} \X Config
  OBVIOUS
<1>4. settled' = settled \ C
  BY DEF Begin
<1>5. overlapped' \subseteq Actor \X Config
  <2>1. shared \subseteq Config
    OBVIOUS
  <2> QED BY <1>1, <2>1
<1> QED BY <1>1, <1>2, <1>3, <1>4, <1>5

\* A config found is held as it is saved; whoever else works on it knows.
LEMMA FindConfigInvariant ==
    ASSUME IInv, NEW r \in Requester, NEW c \in Config, FindConfig(r, c)
    PROVE  IInv'
<1> USE DEF IInv
<1>1. r \in Actor /\ r # Boot /\ Requester \subseteq Actor /\ Boot \in Actor
  BY ScheduleAssumption DEF Actor
<1>2. PICK p \in {"found", "keyed"} :
      /\ Begin(r, {c}) /\ pc[r] = "idle"
      /\ pc' = [pc EXCEPT ![r] = p]
      /\ target' = [target EXCEPT ![r] = c]
      /\ doc' = [doc EXCEPT ![r] = saved[c]]
      /\ UNCHANGED <<tenants, saved, jobs, left, bootVars, faults, repaired>>
  BY DEF FindConfig, dataVars
<1>3. pc \in [Actor -> {"idle", "found", "keyed", "list", "remove", "add", "load", "next", "sweep"}]
      /\ target \in [Actor -> Config] /\ doc \in [Actor -> Value \union {Nothing}]
      /\ saved \in [Config -> Value] /\ overlapped \subseteq Actor \X Config
  BY DEF TypeOK
<1>4. /\ \A b \in Actor \ {r}, d \in Config :
             <<b, d>> \in overlapped => <<b, d>> \in overlapped'
      /\ \A b \in Actor \ {r} :
             Busy(b, c) => <<r, c>> \in overlapped' /\ <<b, c>> \in overlapped'
      /\ overlapped' \subseteq Actor \X Config
      /\ settled' \subseteq settled /\ c \notin settled'
  BY <1>1, <1>2, <1>3, BeginOverlaps
<1>5. TypeOK' /\ HoldsDocument'
  BY <1>1, <1>2, <1>3, <1>4 DEF TypeOK, HoldsDocument, bootVars, Registering
<1>6. /\ \A b \in Actor \ {r}, d \in Config : Busy(b, d)' <=> Busy(b, d)
      /\ \A d \in Config : Busy(r, d)' <=> d = c
  BY <1>1, <1>2, <1>3 DEF Busy
<1>7. Alone'
  <2>1. ASSUME NEW a \in Actor, NEW b \in Actor, NEW d \in Config,
               a # b, Busy(a, d)', Busy(b, d)'
        PROVE  <<a, d>> \in overlapped'
    <3>1. CASE a = r \/ b = r
      BY <3>1, <2>1, <1>4, <1>6
    <3>2. CASE a # r /\ b # r
      BY <3>2, <2>1, <1>4, <1>6 DEF Alone
    <3> QED BY <3>1, <3>2
  <2> QED BY <2>1 DEF Alone
<1>8. AtRest'
  <2>1. ASSUME NEW d \in settled'
        PROVE  AsSaved(d)' /\ \A b \in Actor : ~Busy(b, d)'
    <3>1. d \in settled /\ d \in Config /\ d # c
      BY <1>4 DEF TypeOK
    <3> QED BY <3>1, <1>2, <1>6 DEF AtRest, AsSaved
  <2> QED BY <2>1 DEF AtRest
<1>9. RequestsProgress'
  <2>1. ASSUME NEW q \in Requester
        PROVE  /\ pc'[q] \in Requests
               /\ pc'[q] # "idle" /\ <<q, target'[q]>> \notin overlapped' => Progress(q, target[q])'
    <3>1. CASE q = r
      BY <3>1, <1>1, <1>2, <1>3 DEF Requests, Progress
    <3>2. CASE q # r
      BY <3>2, <1>1, <1>2, <1>3, <1>4 DEF RequestsProgress, Progress
    <3> QED BY <3>1, <3>2
  <2> QED BY <2>1 DEF RequestsProgress
<1>10. BootOrder'
  BY <1>1, <1>2, <1>3 DEF BootOrder, AtHand, bootVars
<1>11. BootProgress'
  <2>1. ASSUME NEW d \in Config, pc'[Boot] # "idle", <<Boot, d>> \notin overlapped'
        PROVE  BootKnows(d)'
    <3>1. BootKnows(d)
      BY <2>1, <1>1, <1>2, <1>3, <1>4 DEF BootProgress
    <3>2. Progress(Boot, d) => Progress(Boot, d)'
      BY <1>1, <1>2, <1>3 DEF Progress
    <3> QED BY <3>1, <3>2, <1>1, <1>2, <1>3 DEF BootKnows, AtHand, bootVars
  <2> QED BY <2>1 DEF BootProgress
<1> QED BY <1>5, <1>7, <1>8, <1>9, <1>10, <1>11

\* A save by a request: the document in memory and the one saved change alike.
LEMMA SaveInvariant ==
    ASSUME IInv, NEW r \in Requester, SaveActive(r) \/ SaveSetting(r) \/ SaveNothing(r)
    PROVE  IInv'
<1>1. r \in Actor /\ r # Boot /\ pc[r] \in {"found", "keyed"} /\ target[r] \in Config
  BY ScheduleAssumption
     DEF Actor, IInv, TypeOK, SaveActive, SaveSetting, SaveNothing
<1>2. doc[r] \in Value
  BY <1>1 DEF IInv, HoldsDocument
<1>3. PICK v \in Value :
        /\ Save(r, v)
        /\ \/ saved' = saved /\ v = doc[r]
           \/ /\ saved' = [saved EXCEPT ![target[r]].active = v.active]
              /\ v = [doc[r] EXCEPT !.active = v.active]
           \/ /\ saved' = [saved EXCEPT ![target[r]].setting = v.setting]
              /\ v = [doc[r] EXCEPT !.setting = v.setting]
  <2>1. CASE SaveNothing(r)
    BY <2>1, <1>2 DEF SaveNothing
  <2>2. CASE SaveActive(r)
    <3>1. [doc[r] EXCEPT !.active = ~@] \in Value
      BY <1>2 DEF Value
    <3> QED BY <3>1, <2>2, <1>2 DEF SaveActive, Value
  <2>3. CASE SaveSetting(r)
    <3>1. PICK s \in PatchSetting :
            /\ Save(r, [doc[r] EXCEPT !.setting = s])
            /\ saved' = [saved EXCEPT ![target[r]].setting = s]
      BY <2>3 DEF SaveSetting
    <3>2. [doc[r] EXCEPT !.setting = s] \in Value
      BY <1>2, ScheduleAssumption DEF Value
    <3> QED BY <3>1, <3>2, <1>2 DEF Value
  <2> QED BY <2>1, <2>2, <2>3
<1>4. /\ pc' = [pc EXCEPT ![r] = "list"]
      /\ doc' = [doc EXCEPT ![r] = v]
      /\ UNCHANGED <<tenants, jobs, target, left, bootVars, faults, ghosts>>
  BY <1>3 DEF Save
<1>5. /\ pc \in [Actor -> {"idle", "found", "keyed", "list", "remove", "add", "load", "next", "sweep"}]
      /\ target \in [Actor -> Config] /\ doc \in [Actor -> Value \union {Nothing}]
      /\ saved \in [Config -> Value]
  BY DEF IInv, TypeOK
<1>6. /\ saved' \in [Config -> Value]
      /\ \A d \in Config \ {target[r]} : saved'[d] = saved[d]
      /\ doc[r] = saved[target[r]] => saved'[target[r]] = v
  <2>1. saved[target[r]] \in Value /\ target[r] \in Config
    BY <1>1, <1>5
  <2>2. CASE saved' = saved /\ v = doc[r]
    BY <2>1, <2>2, <1>5
  <2>3. CASE /\ saved' = [saved EXCEPT ![target[r]].active = v.active]
             /\ v = [doc[r] EXCEPT !.active = v.active]
    BY <2>1, <2>3, <1>2, <1>5 DEF Value
  <2>4. CASE /\ saved' = [saved EXCEPT ![target[r]].setting = v.setting]
             /\ v = [doc[r] EXCEPT !.setting = v.setting]
    BY <2>1, <2>4, <1>2, <1>5 DEF Value
  <2> QED BY <1>3, <2>2, <2>3, <2>4
<1>7. OneStep(r)
  BY <1>1, <1>4, <1>5, <1>6 DEF OneStep, bootVars, ghosts
<1>8. TypeOK' /\ HoldsDocument'
  BY <1>1, <1>4, <1>5, <1>6 DEF IInv, TypeOK, HoldsDocument, Registering, bootVars, ghosts
<1>9. pc'[r] \in Requests
  BY <1>1, <1>4, <1>5 DEF Requests
<1>10. ASSUME <<r, target[r]>> \notin overlapped
       PROVE  Progress(r, target[r])'
  <2>1. Progress(r, target[r])
    BY <1>1, <1>10 DEF IInv, RequestsProgress
  <2> QED BY <2>1, <1>1, <1>4, <1>5, <1>6 DEF Progress
<1>11. settled' = settled
  BY <1>4 DEF ghosts
<1> QED BY <1>7, <1>8, <1>9, <1>10, <1>11, RequestStep
-----------------------------------------------------------------------------
(* A registration, by any actor: what its steps do to its config.          *)

\* The end of a registration keeps the types of what it changes.
LEMMA RegisteredType ==
    ASSUME IInv, NEW a \in Actor, Registered(a)
    PROVE  /\ pc' \in [Actor -> {"idle", "found", "keyed", "list", "remove", "add", "load", "next", "sweep"}]
           /\ doc' \in [Actor -> Value \union {Nothing}]
           /\ repaired' \subseteq Config /\ settled' \subseteq Config
           /\ overlapped' = overlapped
           /\ \A b \in Actor : pc'[b] = "add" => b # a /\ pc[b] = "add"
<1>1. /\ pc \in [Actor -> {"idle", "found", "keyed", "list", "remove", "add", "load", "next", "sweep"}]
      /\ doc \in [Actor -> Value \union {Nothing}] /\ target[a] \in Config
      /\ repaired \subseteq Config /\ settled \subseteq Config
  BY DEF IInv, TypeOK
<1>2. CASE a = Boot
  BY <1>1, <1>2 DEF Registered
<1>3. CASE a # Boot
  BY <1>1, <1>3 DEF Registered, Undisturbed
<1> QED BY <1>2, <1>3

\* The steps of a registration are steps on one config, and keep all types.
LEMMA SyncStep ==
    ASSUME IInv, NEW a \in Actor, Sync(a)
    PROVE  OneStep(a) /\ TypeOK' /\ HoldsDocument'
<1> USE DEF IInv
<1>1. /\ pc[a] \in Registering /\ target[a] \in Config /\ doc[a] \in Value
      /\ pc \in [Actor -> {"idle", "found", "keyed", "list", "remove", "add", "load", "next", "sweep"}]
      /\ target \in [Actor -> Config] /\ doc \in [Actor -> Value \union {Nothing}]
      /\ left \in [Actor -> SUBSET Name] /\ jobs \in [Config -> [Name -> SUBSET Minutes]]
  BY DEF TypeOK, HoldsDocument, Sync, ListKnown, RemoveKnown, AddSlot, SyncFails, Registering
<1>2. jobs[target[a]] \in [Name -> SUBSET Minutes]
  BY <1>1
<1>3. \A N \in SUBSET Name : Without(jobs[target[a]], N) \in [Name -> SUBSET Minutes]
  BY <1>2 DEF Without
<1>4. CASE ListKnown(a)
  <2>1. OneStep(a)
    BY <1>1, <1>4 DEF ListKnown, OneStep, dataVars, bootVars, ghosts, Registering
  <2>2. TypeOK'
    BY <1>1, <1>4 DEF ListKnown, TypeOK, Names, dataVars, bootVars, ghosts
  <2>3. HoldsDocument'
    BY <1>1, <1>4 DEF ListKnown, HoldsDocument, Registering
  <2> QED BY <2>1, <2>2, <2>3
<1>5. CASE RemoveKnown(a)
  <2>1. jobs' = [jobs EXCEPT ![target[a]] = Without(@, left[a])]
        /\ jobs' \in [Config -> [Name -> SUBSET Minutes]]
    BY <1>1, <1>3, <1>5 DEF RemoveKnown
  <2>2. CASE ShouldSchedule(doc[a])
    <3>1. /\ pc' = [pc EXCEPT ![a] = "add"]
          /\ left' = [left EXCEPT ![a] = PlanNames(doc[a].setting)]
          /\ UNCHANGED <<doc, ghosts, tenants, saved, target, bootVars, faults>>
      BY <1>5, <2>2 DEF RemoveKnown
    <3>2. PlanNames(doc[a].setting) \in SUBSET Name /\ PlanNames(doc[a].setting) # {}
      BY <2>2 DEF ShouldSchedule, HasPlan, PlanNames
    <3>3. OneStep(a)
      BY <1>1, <2>1, <3>1 DEF OneStep, bootVars, ghosts, Registering
    <3>4. TypeOK' /\ HoldsDocument'
      BY <1>1, <2>1, <3>1, <3>2 DEF TypeOK, HoldsDocument, Registering, bootVars, ghosts
    <3> QED BY <3>3, <3>4
  <2>3. CASE ~ShouldSchedule(doc[a])
    <3>1. /\ left' = [left EXCEPT ![a] = {}] /\ Registered(a)
          /\ UNCHANGED <<tenants, saved, target, bootVars, faults>>
      BY <1>5, <2>3 DEF RemoveKnown
    <3>2. OneStep(a)
      BY <1>1, <2>1, <3>1 DEF OneStep, Registered, bootVars, Registering
    <3>3. TypeOK'
      BY <1>1, <2>1, <3>1, RegisteredType DEF TypeOK, bootVars
    <3>4. HoldsDocument'
      BY <1>1, <3>1 DEF HoldsDocument, Registered, Registering
    <3> QED BY <3>2, <3>3, <3>4
  <2> QED BY <2>2, <2>3
<1>6. CASE AddSlot(a)
  <2>1. PICK n \in left[a] :
          /\ jobs' = [jobs EXCEPT ![target[a]][n] = Plan(doc[a].setting)[n]]
          /\ left' = [left EXCEPT ![a] = @ \ {n}]
          /\ IF left[a] = {n} THEN Registered(a) ELSE UNCHANGED <<pc, doc, ghosts>>
    BY <1>6 DEF AddSlot
  <2>2. Plan(doc[a].setting)[n] \in SUBSET Minutes
    BY <1>1, <2>1, PlanType DEF Value
  <2>3. jobs' \in [Config -> [Name -> SUBSET Minutes]]
    BY <1>1, <2>1, <2>2
  <2>4. UNCHANGED <<tenants, saved, target, bootVars, faults>>
    BY <1>6 DEF AddSlot
  <2>5. CASE left[a] = {n}
    <3>1. Registered(a)
      BY <2>1, <2>5
    <3>2. OneStep(a)
      BY <1>1, <2>1, <2>4, <3>1 DEF OneStep, Registered, bootVars, Registering
    <3>3. TypeOK'
      BY <1>1, <2>1, <2>3, <2>4, <3>1, RegisteredType DEF TypeOK, bootVars
    <3>4. HoldsDocument'
      BY <1>1, <3>1 DEF HoldsDocument, Registered, Registering
    <3> QED BY <3>2, <3>3, <3>4
  <2>6. CASE left[a] # {n}
    <3>1. UNCHANGED <<pc, doc, ghosts>> /\ left[a] \ {n} # {}
      BY <2>1, <2>6
    <3>2. OneStep(a)
      BY <1>1, <2>1, <2>4, <3>1 DEF OneStep, bootVars, ghosts, Registering
    <3>3. TypeOK' /\ HoldsDocument'
      BY <1>1, <2>1, <2>3, <2>4, <3>1 DEF TypeOK, HoldsDocument, bootVars, ghosts
    <3> QED BY <3>2, <3>3
  <2> QED BY <2>5, <2>6
<1>7. CASE SyncFails(a)
  <2>1. PICK N \in SUBSET left[a] : jobs' = [jobs EXCEPT ![target[a]] = Without(@, N)]
    BY <1>7 DEF SyncFails
  <2>2. jobs' \in [Config -> [Name -> SUBSET Minutes]]
    BY <1>1, <1>3, <2>1
  <2>3. OneStep(a)
    BY <1>1, <1>7, <2>1 DEF SyncFails, OneStep, ghosts, Registering
  <2>4. TypeOK'
    BY <1>1, <1>7, <2>2, ScheduleAssumption DEF SyncFails, TypeOK, NoConfigs, ghosts
  <2>5. HoldsDocument'
    BY <1>1, <1>7 DEF SyncFails, HoldsDocument, Registering
  <2> QED BY <2>3, <2>4, <2>5
<1> QED BY <1>4, <1>5, <1>6, <1>7 DEF Sync

\* Removal empties the config, and the slots are added one by one: when the
\* last is, what is registered is what is scheduled.
LEMMA SyncProgress ==
    ASSUME IInv, NEW a \in Actor, ListKnown(a) \/ RemoveKnown(a) \/ AddSlot(a)
    PROVE  \/ /\ pc'[a] \in Registering /\ UNCHANGED <<configs, ghosts>>
              /\ \A b \in Actor \ {a} : pc'[b] = pc[b]
              /\ Progress(a, target[a]) => Progress(a, target[a])'
           \/ /\ Registered(a) /\ UNCHANGED configs
              /\ Progress(a, target[a]) => jobs'[target[a]] = Scheduled(saved[target[a]])'
<1> USE DEF IInv
<1> DEFINE c == target[a]
<1>1. /\ pc[a] \in Registering /\ c \in Config /\ doc[a] \in Value
      /\ pc \in [Actor -> {"idle", "found", "keyed", "list", "remove", "add", "load", "next", "sweep"}]
      /\ left \in [Actor -> SUBSET Name] /\ jobs \in [Config -> [Name -> SUBSET Minutes]]
      /\ target' = target /\ saved' = saved /\ tenants' = tenants
  BY DEF TypeOK, HoldsDocument, ListKnown, RemoveKnown, AddSlot, Registering, dataVars
<1>2. jobs[c] \in [Name -> SUBSET Minutes] /\ doc[a].setting \in Setting
  BY <1>1 DEF Value
<1>3. Plan(doc[a].setting) \in [Name -> SUBSET Minutes]
  BY <1>2, PlanType
<1>4. CASE ListKnown(a)
  <2>1. pc' = [pc EXCEPT ![a] = "remove"] /\ UNCHANGED <<jobs, doc, configs, ghosts>>
    BY <1>4 DEF ListKnown, dataVars, bootVars
  <2>2. left'[a] = Names(jobs[c])
    BY <1>1, <1>4 DEF ListKnown, RemovalNames, Names
  <2>3. Progress(a, c) => Progress(a, target[a])'
    BY <1>1, <2>1, <2>2 DEF Progress
  <2> QED BY <1>1, <2>1, <2>3 DEF Registering
<1>5. CASE RemoveKnown(a)
  <2>1. jobs'[c] = Without(jobs[c], left[a]) /\ pc[a] = "remove"
        /\ UNCHANGED configs
    BY <1>1, <1>5 DEF RemoveKnown, bootVars
  <2>2. Progress(a, c) => jobs'[c] = NoJobs
    <3>1. left[a] = Names(jobs[c]) => Without(jobs[c], left[a]) = NoJobs
      BY <1>2 DEF Without, NoJobs, Names
    <3> QED BY <2>1, <3>1 DEF Progress
  <2>3. CASE ShouldSchedule(doc[a])
    <3>1. pc' = [pc EXCEPT ![a] = "add"] /\ UNCHANGED <<doc, ghosts>>
          /\ left'[a] = PlanNames(doc[a].setting)
      BY <1>1, <1>5, <2>3 DEF RemoveKnown
    <3>2. ASSUME Progress(a, c)
          PROVE  \A n \in Name : jobs'[c][n] =
                     IF n \in left'[a] THEN {} ELSE Plan(doc[a].setting)[n]
      BY <2>2, <3>1, <3>2 DEF NoJobs, PlanNames
    <3>3. Progress(a, c) => Progress(a, target[a])'
      BY <1>1, <2>3, <3>1, <3>2 DEF Progress
    <3> QED BY <1>1, <2>1, <3>1, <3>3 DEF Registering
  <2>4. CASE ~ShouldSchedule(doc[a])
    <3>1. Registered(a)
      BY <1>5, <2>4 DEF RemoveKnown
    <3>2. Progress(a, c) => jobs'[c] = Scheduled(saved'[c])
      BY <1>1, <2>2, <2>4 DEF Progress, Scheduled
    <3> QED BY <1>1, <2>1, <3>1, <3>2
  <2> QED BY <2>3, <2>4
<1>6. CASE AddSlot(a)
  <2>1. PICK n \in left[a] :
          /\ jobs' = [jobs EXCEPT ![c][n] = Plan(doc[a].setting)[n]]
          /\ left' = [left EXCEPT ![a] = @ \ {n}]
          /\ IF left[a] = {n} THEN Registered(a) ELSE UNCHANGED <<pc, doc, ghosts>>
    BY <1>6 DEF AddSlot
  <2>2. pc[a] = "add" /\ UNCHANGED configs /\ n \in Name
    BY <1>1, <1>6 DEF AddSlot, bootVars
  <2>3. /\ jobs'[c] \in [Name -> SUBSET Minutes]
        /\ jobs'[c][n] = Plan(doc[a].setting)[n]
        /\ \A k \in Name \ {n} : jobs'[c][k] = jobs[c][k]
    BY <1>1, <1>2, <1>3, <2>1, <2>2
  <2>4. ASSUME Progress(a, c)
        PROVE  /\ ShouldSchedule(doc[a]) /\ doc[a] = saved[c]
               /\ \A k \in Name : jobs'[c][k] =
                    IF k \in left[a] \ {n} THEN {} ELSE Plan(doc[a].setting)[k]
    BY <2>2, <2>3, <2>4 DEF Progress
  <2>5. CASE left[a] = {n}
    <3>1. ASSUME Progress(a, c)
          PROVE  jobs'[c] = Plan(doc[a].setting)
      BY <3>1, <1>3, <2>3, <2>4, <2>5
    <3>2. Progress(a, c) => jobs'[c] = Scheduled(saved'[c])
      BY <1>1, <2>4, <3>1 DEF Scheduled
    <3> QED BY <1>1, <2>1, <2>2, <2>5, <3>2
  <2>6. CASE left[a] # {n}
    <3>1. UNCHANGED <<pc, doc, ghosts>> /\ left'[a] = left[a] \ {n}
      BY <1>1, <2>1, <2>6
    <3>2. Progress(a, c) => Progress(a, target[a])'
      BY <1>1, <2>2, <2>4, <3>1 DEF Progress
    <3> QED BY <1>1, <2>2, <3>1, <3>2
  <2> QED BY <2>5, <2>6
<1> QED BY <1>4, <1>5, <1>6

\* A request's registration.
LEMMA RequestSyncInvariant ==
    ASSUME IInv, NEW r \in Requester, Sync(r)
    PROVE  IInv'
<1>1. r \in Actor /\ r # Boot
  BY ScheduleAssumption DEF Actor
<1>2. OneStep(r) /\ TypeOK' /\ HoldsDocument'
  BY <1>1, SyncStep
<1>3. /\ pc \in [Actor -> {"idle", "found", "keyed", "list", "remove", "add", "load", "next", "sweep"}]
      /\ target \in [Actor -> Config] /\ target' = target /\ tenants' = tenants
  BY <1>2 DEF IInv, TypeOK, OneStep
<1>4. <<r, target[r]>> \notin overlapped => Progress(r, target[r])
  BY <1>2 DEF OneStep, IInv, RequestsProgress
<1>5. CASE SyncFails(r)
  <2>1. pc'[r] = "idle" /\ settled' = settled
    BY <1>1, <1>3, <1>5 DEF SyncFails, ghosts
  <2> QED BY <2>1, <1>2, RequestStep DEF Requests
<1>6. CASE ListKnown(r) \/ RemoveKnown(r) \/ AddSlot(r)
  <2>1. CASE /\ pc'[r] \in Registering /\ UNCHANGED ghosts
             /\ Progress(r, target[r]) => Progress(r, target[r])'
    BY <2>1, <1>2, <1>4, RequestStep DEF Registering, Requests, ghosts
  <2>2. CASE /\ Registered(r)
             /\ Progress(r, target[r]) => jobs'[target[r]] = Scheduled(saved[target[r]])'
    <3>1. pc'[r] = "idle" /\ settled' = settled \union Undisturbed(r, {target[r]})
      BY <1>1, <1>3, <2>2 DEF Registered
    <3>3. <<r, target[r]>> \notin overlapped => AsSaved(target[r])'
      BY <1>3, <1>4, <2>2 DEF AsSaved
    <3> QED BY <1>2, <3>1, <3>3, RequestStep DEF Requests
  <2> QED BY <1>1, <1>6, <2>1, <2>2, SyncProgress
<1> QED BY <1>5, <1>6 DEF Sync
-----------------------------------------------------------------------------
(* The bootstrap.                                                          *)

\* While the bootstrap works no config is at rest, and no request alone: a step
\* of the bootstrap has only its own knowledge to keep.
LEMMA BootstrapStep ==
    ASSUME IInv, pc[Boot] # "idle", overlapped' = overlapped,
           \A r \in Requester : pc'[r] = pc[r] /\ target'[r] = target[r],
           settled' = settled \/ (pc'[Boot] = "idle" /\ AtRest')
    PROVE  Alone' /\ RequestsProgress' /\ AtRest'
<1> USE DEF IInv
<1>1. /\ Actor = Requester \union {Boot} /\ Boot \notin Requester
      /\ target \in [Actor -> Config]
  BY ScheduleAssumption DEF Actor, TypeOK
<1>2. \A a \in Actor, c \in Config : Busy(a, c)' => Busy(a, c)
  BY <1>1 DEF Busy
<1>3. Alone'
  BY <1>2, StillAlone
<1>4. \A r \in Requester : pc[r] # "idle" => <<r, target[r]>> \in overlapped
  BY <1>1 DEF Alone, Busy
<1>5. RequestsProgress'
  BY <1>4 DEF RequestsProgress
<1>6. CASE settled' = settled
  <2>1. settled = {}
    BY <1>1 DEF AtRest, Busy, TypeOK
  <2> QED BY <1>3, <1>5, <1>6, <2>1 DEF AtRest
<1>7. CASE AtRest'
  BY <1>3, <1>5, <1>7
<1> QED BY <1>6, <1>7

\* The bootstrap's registration of one config; the others wait or are done.
LEMMA BootSyncInvariant ==
    ASSUME IInv, Sync(Boot)
    PROVE  IInv'
<1> USE DEF IInv
<1> DEFINE c == target[Boot]
<1>1. Boot \in Actor /\ Actor = Requester \union {Boot} /\ Boot \notin Requester
  BY ScheduleAssumption DEF Actor
<1>2. OneStep(Boot) /\ TypeOK' /\ HoldsDocument'
  BY <1>1, SyncStep
<1>3. /\ pc \in [Actor -> {"idle", "found", "keyed", "list", "remove", "add", "load", "next", "sweep"}]
      /\ c \in Config /\ pc[Boot] \in Registering
  BY <1>1
     DEF TypeOK, Sync, ListKnown, RemoveKnown, AddSlot, SyncFails, Registering
<1>4. /\ UNCHANGED <<tenants, target, overlapped, orphans, todo, expected, saved>>
      /\ \A d \in Config \ {c} : jobs'[d] = jobs[d]
      /\ \A r \in Requester : pc'[r] = pc[r] /\ target'[r] = target[r]
  BY <1>1, <1>2
     DEF OneStep, Sync, ListKnown, RemoveKnown, AddSlot, SyncFails, dataVars
<1>5. AtHand(c) /\ pc[Boot] # "idle"
  BY <1>3 DEF AtHand, Registering
<1>6. /\ settled' = settled
      /\ \/ /\ pc'[Boot] \in Registering /\ UNCHANGED <<configs, repaired>>
            /\ Progress(Boot, c) => Progress(Boot, target[Boot])'
         \/ /\ pc'[Boot] = "next" /\ configs' = configs /\ repaired' = repaired \union {c}
            /\ Progress(Boot, c) => jobs'[c] = Scheduled(saved[c])
         \/ pc'[Boot] = "load" /\ configs' = NoConfigs /\ repaired' = repaired
  <2>1. CASE SyncFails(Boot)
    BY <1>1, <1>3, <2>1 DEF SyncFails, ghosts
  <2>2. CASE ListKnown(Boot) \/ RemoveKnown(Boot) \/ AddSlot(Boot)
    <3>1. CASE /\ pc'[Boot] \in Registering /\ UNCHANGED <<configs, ghosts>>
               /\ Progress(Boot, c) => Progress(Boot, target[Boot])'
      BY <3>1 DEF ghosts
    <3>2. CASE /\ Registered(Boot) /\ UNCHANGED configs
               /\ Progress(Boot, c) => jobs'[c] = Scheduled(saved[c])'
      BY <3>2, <1>1, <1>3, <1>4 DEF Registered
    <3> QED BY <1>1, <2>2, <3>1, <3>2, SyncProgress
  <2> QED BY <2>1, <2>2 DEF Sync
<1>7. Alone' /\ RequestsProgress' /\ AtRest'
  <2>1. overlapped' = overlapped /\ settled' = settled /\ pc[Boot] # "idle"
    BY <1>4, <1>5, <1>6
  <2>2. \A r \in Requester : pc'[r] = pc[r] /\ target'[r] = target[r]
    BY <1>4
  <2> QED BY <2>1, <2>2, BootstrapStep
<1>8. BootOrder'
  <2>1. pc[Boot] # "sweep" /\ pc'[Boot] \notin {"idle", "found", "keyed", "sweep"}
    BY <1>3, <1>6 DEF Registering
  <2>2. pc'[Boot] = "load" => DOMAIN configs' = {}
    BY <1>6 DEF Registering, NoConfigs
  <2>3. orphans' = {}
    BY <1>4, <2>1 DEF BootOrder
  <2>4. DOMAIN configs' \subseteq DOMAIN configs
    BY <1>6 DEF NoConfigs
  <2>5. ASSUME NEW d \in Config
        PROVE  /\ TenantOf[d] \in todo' => d \notin DOMAIN configs'
               /\ TenantOf[d] \in todo' \/ d \in DOMAIN configs' =>
                      d \notin repaired' /\ ~AtHand(d)'
               /\ AtHand(d)' => d \notin repaired'
    <3>1. AtHand(d)' => pc'[Boot] \in Registering /\ d = c
      BY <1>4 DEF AtHand
    <3>2. CASE d = c
      BY <3>2, <1>4, <1>5, <1>6, <2>4 DEF BootOrder, AtHand, Registering
    <3>3. CASE d # c
      BY <3>1, <3>3, <1>4, <1>6, <2>4 DEF BootOrder
    <3> QED BY <3>2, <3>3
  <2> QED BY <2>1, <2>2, <2>3, <2>5 DEF BootOrder
<1>9. BootProgress'
  <2>1. ASSUME NEW d \in Config, <<Boot, d>> \notin overlapped
        PROVE  BootKnows(d)'
    <3>1. BootKnows(d)
      BY <1>5, <2>1 DEF BootProgress
    <3>2. DOMAIN configs' \subseteq DOMAIN configs
          /\ \A e \in DOMAIN configs' : configs'[e] = configs[e]
      BY <1>6 DEF NoConfigs
    <3>3. pc'[Boot] # "sweep"
      BY <1>6 DEF Registering
    <3>4. CASE d = c
      <4>1. Progress(Boot, c) /\ TenantOf[c] \in tenants /\ c \notin repaired
        BY <1>5, <3>1, <3>4 DEF BootKnows, BootOrder, Progress
      <4> QED
        BY <1>4, <1>5, <1>6, <3>1, <3>2, <3>3, <3>4, <4>1
        DEF BootKnows, AtHand, Registering
    <3>5. CASE d # c
      <4>1. ~AtHand(d)'
        BY <1>4, <3>5 DEF AtHand
      <4>2. jobs'[d] = jobs[d] /\ (d \in repaired' => d \in repaired)
        BY <1>4, <1>6, <3>5
      <4> QED BY <1>4, <3>1, <3>2, <3>3, <4>1, <4>2 DEF BootKnows
    <3> QED BY <3>4, <3>5
  <2> QED BY <2>1, <1>4 DEF BootProgress
<1> QED BY <1>2, <1>7, <1>8, <1>9

\* The bootstrap begins knowing nothing, over configs it may not be alone with.
LEMMA StartBootInvariant ==
    ASSUME IInv, StartBoot
    PROVE  IInv'
<1> USE DEF IInv
<1>1. Boot \in Actor /\ Actor = Requester \union {Boot} /\ Boot \notin Requester
  BY ScheduleAssumption DEF Actor
<1>2. /\ pc[Boot] = "idle" /\ pc' = [pc EXCEPT ![Boot] = "load"]
      /\ todo' = tenants /\ expected' = {} /\ repaired' = {} /\ Begin(Boot, Config)
      /\ UNCHANGED <<tenants, saved, jobs, target, doc, left, configs, orphans, faults>>
  BY DEF StartBoot, dataVars
<1>3. /\ pc \in [Actor -> {"idle", "found", "keyed", "list", "remove", "add", "load", "next", "sweep"}]
      /\ target \in [Actor -> Config] /\ overlapped \subseteq Actor \X Config
      /\ settled \subseteq Config
  BY DEF TypeOK
<1>4. /\ \A b \in Actor \ {Boot}, d \in Config :
             <<b, d>> \in overlapped => <<b, d>> \in overlapped'
      /\ \A b \in Actor \ {Boot}, d \in Config :
             Busy(b, d) => <<Boot, d>> \in overlapped' /\ <<b, d>> \in overlapped'
      /\ overlapped' \subseteq Actor \X Config
      /\ settled' = {}
  BY <1>1, <1>2, <1>3, BeginOverlaps
<1>5. TypeOK' /\ HoldsDocument'
  BY <1>1, <1>2, <1>3, <1>4 DEF TypeOK, HoldsDocument, Registering
<1>6. \A b \in Actor \ {Boot}, d \in Config : Busy(b, d)' => Busy(b, d)
  BY <1>1, <1>2, <1>3 DEF Busy
<1>7. Alone'
  <2>1. ASSUME NEW a \in Actor, NEW b \in Actor, NEW d \in Config,
               a # b, Busy(a, d)', Busy(b, d)'
        PROVE  <<a, d>> \in overlapped'
    BY <2>1, <1>4, <1>6 DEF Alone
  <2> QED BY <2>1 DEF Alone
<1>8. RequestsProgress'
  <2>1. ASSUME NEW r \in Requester
        PROVE  /\ pc'[r] \in Requests
               /\ pc'[r] # "idle" /\ <<r, target'[r]>> \notin overlapped' => Progress(r, target[r])'
    BY <1>1, <1>2, <1>3, <1>4 DEF RequestsProgress, Progress
  <2> QED BY <2>1 DEF RequestsProgress
<1>9. AtRest'
  BY <1>4 DEF AtRest
<1>10. pc'[Boot] = "load" /\ DOMAIN configs' = {} /\ orphans' = {}
  BY <1>1, <1>2, <1>3 DEF BootOrder
<1>11. BootOrder' /\ BootProgress'
  BY <1>2, <1>10 DEF BootOrder, BootProgress, BootKnows, AtHand, Registering
<1> QED BY <1>5, <1>7, <1>8, <1>9, <1>11

\* Reading the tenants' configs, one after another.
LEMMA LoadInvariant ==
    ASSUME IInv,
           \/ \E t \in Tenant : LoadTenant(t) \/ LoadFails(t)
           \/ TenantDone
           \/ \E c \in Config : NextConfig(c)
    PROVE  IInv'
<1> USE DEF IInv
<1>1. Boot \in Actor /\ Actor = Requester \union {Boot} /\ Boot \notin Requester
  BY ScheduleAssumption DEF Actor
<1>2. /\ pc \in [Actor -> {"idle", "found", "keyed", "list", "remove", "add", "load", "next", "sweep"}]
      /\ target \in [Actor -> Config] /\ doc \in [Actor -> Value \union {Nothing}]
      /\ jobs \in [Config -> [Name -> SUBSET Minutes]]
  BY DEF TypeOK
<1>3. /\ pc[Boot] \in {"load", "next"}
      /\ UNCHANGED <<tenants, saved, jobs, left, overlapped, settled, orphans, repaired>>
      /\ \A r \in Requester : pc'[r] = pc[r] /\ target'[r] = target[r]
  BY <1>1, <1>2
     DEF LoadTenant, LoadFails, TenantDone, NextConfig, dataVars, actorVars, bootVars, ghosts
<1>4. Alone' /\ RequestsProgress' /\ AtRest'
  BY <1>3, BootstrapStep
<1>5. orphans = {}
  BY <1>3 DEF BootOrder
<1>6. ASSUME NEW t \in Tenant, LoadTenant(t)
      PROVE  TypeOK' /\ HoldsDocument' /\ BootOrder' /\ BootProgress'
  <2>1. /\ pc[Boot] = "load" /\ t \in todo /\ todo' = todo \ {t}
        /\ configs' = [c \in {c \in Config : TenantOf[c] = t} |-> saved[c]]
        /\ pc' = [pc EXCEPT ![Boot] = "next"]
        /\ UNCHANGED <<dataVars, target, doc, left, expected, orphans, faults, ghosts>>
    BY <1>6 DEF LoadTenant
  <2>2. TypeOK' /\ HoldsDocument'
    BY <2>1, <1>1 DEF TypeOK, HoldsDocument, Registering, dataVars, ghosts
  <2>3. pc'[Boot] = "next" /\ \A c \in Config : ~AtHand(c)'
    BY <2>1, <1>1, <1>2 DEF AtHand, Registering
  <2>4. BootOrder'
    BY <2>1, <2>3, <1>5 DEF BootOrder, ghosts
  <2>5. BootProgress'
    BY <2>1, <2>3 DEF BootProgress, BootKnows, dataVars, ghosts
  <2> QED BY <2>2, <2>4, <2>5
<1>7. ASSUME NEW t \in Tenant, LoadFails(t)
      PROVE  TypeOK' /\ HoldsDocument' /\ BootOrder' /\ BootProgress'
  <2>1. /\ faults' = faults + 1 /\ faults < MaxFaults /\ todo' = todo \ {t}
        /\ UNCHANGED <<dataVars, actorVars, configs, expected, orphans, ghosts>>
    BY <1>7 DEF LoadFails
  <2>2. TypeOK' /\ HoldsDocument'
    BY <2>1, ScheduleAssumption DEF TypeOK, HoldsDocument, dataVars, actorVars, ghosts
  <2>3. BootOrder' /\ BootProgress'
    BY <2>1
       DEF BootOrder, BootProgress, BootKnows, AtHand, Progress, dataVars, actorVars, ghosts
  <2> QED BY <2>2, <2>3
<1>8. ASSUME TenantDone
      PROVE  TypeOK' /\ HoldsDocument' /\ BootOrder' /\ BootProgress'
  <2>1. /\ pc[Boot] = "next" /\ configs = NoConfigs /\ pc' = [pc EXCEPT ![Boot] = "load"]
        /\ UNCHANGED <<dataVars, target, doc, left, bootVars, faults, ghosts>>
    BY <1>8 DEF TenantDone
  <2>2. TypeOK' /\ HoldsDocument'
    BY <2>1, <1>1 DEF TypeOK, HoldsDocument, Registering, dataVars, bootVars, ghosts
  <2>3. pc'[Boot] = "load" /\ DOMAIN configs' = {} /\ \A c \in Config : ~AtHand(c)'
    BY <2>1, <1>1, <1>2 DEF AtHand, Registering, NoConfigs, bootVars
  <2>4. BootOrder' /\ BootProgress'
    BY <2>1, <2>3 DEF BootOrder, BootProgress, BootKnows, dataVars, bootVars, ghosts
  <2> QED BY <2>2, <2>4
<1>9. ASSUME NEW c \in Config, NextConfig(c)
      PROVE  TypeOK' /\ HoldsDocument' /\ BootOrder' /\ BootProgress'
  <2>1. /\ pc[Boot] = "next" /\ c \in DOMAIN configs
        /\ configs' = [d \in DOMAIN configs \ {c} |-> configs[d]]
        /\ target' = [target EXCEPT ![Boot] = c]
        /\ doc' = [doc EXCEPT ![Boot] = configs[c]]
        /\ expected' = expected \union ({c} \X Names(Scheduled(configs[c])))
        /\ pc' = [pc EXCEPT ![Boot] = "list"]
        /\ UNCHANGED <<dataVars, left, todo, orphans, faults, ghosts>>
    BY <1>9 DEF NextConfig
  <2>2. configs[c] \in Value /\ Names(Scheduled(configs[c])) \subseteq Name
    BY <2>1 DEF TypeOK, Names
  <2>3. /\ pc'[Boot] = "list" /\ target'[Boot] = c /\ doc'[Boot] = configs[c]
        /\ \A a \in Actor \ {Boot} : pc'[a] = pc[a] /\ doc'[a] = doc[a]
    BY <2>1, <1>1, <1>2
  <2>4. TypeOK'
    BY <2>1, <2>2 DEF TypeOK, dataVars, ghosts
  <2>5. HoldsDocument'
    BY <2>2, <2>3 DEF HoldsDocument
  <2>6. \A d \in Config : AtHand(d)' <=> d = c
    BY <2>3 DEF AtHand, Registering
  <2>7. BootOrder'
    <3>1. ASSUME NEW d \in Config
          PROVE  /\ TenantOf[d] \in todo' => d \notin DOMAIN configs'
                 /\ TenantOf[d] \in todo' \/ d \in DOMAIN configs' =>
                        d \notin repaired' /\ ~AtHand(d)'
                 /\ AtHand(d)' => d \notin repaired'
      BY <2>1, <2>6 DEF BootOrder, ghosts
    <3> QED BY <3>1, <2>1, <2>3, <1>5 DEF BootOrder
  <2>8. BootProgress'
    <3>1. ASSUME NEW d \in Config, <<Boot, d>> \notin overlapped
          PROVE  BootKnows(d)'
      <4>1. BootKnows(d)
        BY <3>1, <2>1 DEF BootProgress
      <4>2. CASE d = c
        <5>1. configs[c] = saved[c] /\ TenantOf[c] \in tenants /\ c \notin repaired
          BY <4>1, <4>2, <2>1 DEF BootKnows, BootOrder
        <5>2. Progress(Boot, c)'
          BY <5>1, <2>1, <2>3 DEF Progress, dataVars
        <5>3. TenantOf[c] \notin todo'
          BY <2>1 DEF BootOrder
        <5> QED BY <4>2, <5>1, <5>2, <5>3, <2>1, <2>3 DEF BootKnows, dataVars, ghosts
      <4>3. CASE d # c
        <5>1. /\ ~AtHand(d)' /\ pc'[Boot] # "sweep"
              /\ DOMAIN configs' \subseteq DOMAIN configs
              /\ \A e \in DOMAIN configs' : configs'[e] = configs[e]
              /\ expected \subseteq expected'
              /\ \A n \in Name : <<d, n>> \in expected' => <<d, n>> \in expected
              /\ UNCHANGED <<tenants, saved, jobs, todo, repaired>>
          BY <4>3, <2>1, <2>3, <2>6 DEF dataVars, ghosts
        <5> QED BY <4>1, <5>1 DEF BootKnows
      <4> QED BY <4>2, <4>3
    <3> QED BY <3>1, <1>3 DEF BootProgress
  <2> QED BY <2>4, <2>5, <2>7, <2>8
<1> QED BY <1>4, <1>6, <1>7, <1>8, <1>9

\* The sweep: a config the bootstrap registered undisturbed has all its names
\* among the expected, so none of its schedulers is an orphan.
LEMMA SweepInvariant ==
    ASSUME IInv, ListOrphans \/ RemoveOrphan
    PROVE  IInv'
<1> USE DEF IInv
<1>1. Boot \in Actor /\ Actor = Requester \union {Boot} /\ Boot \notin Requester
  BY ScheduleAssumption DEF Actor
<1>2. /\ pc \in [Actor -> {"idle", "found", "keyed", "list", "remove", "add", "load", "next", "sweep"}]
      /\ jobs \in [Config -> [Name -> SUBSET Minutes]] /\ saved \in [Config -> Value]
      /\ expected \subseteq Config \X Name /\ orphans \subseteq Config \X Name
  BY DEF TypeOK
<1>3. /\ pc[Boot] \in {"load", "sweep"} /\ pc'[Boot] = "sweep"
      /\ UNCHANGED <<tenants, saved, target, doc, left, todo, configs, expected, faults, ghosts>>
      /\ \A r \in Requester : pc'[r] = pc[r]
  BY <1>1, <1>2 DEF ListOrphans, RemoveOrphan, dataVars, actorVars
<1>4. Alone' /\ RequestsProgress' /\ AtRest'
  BY <1>3, BootstrapStep DEF ghosts
<1>5. \A d \in Config : ~AtHand(d)'
  BY <1>3 DEF AtHand, Registering
<1>6. todo = {} /\ DOMAIN configs = {}
  BY <1>3 DEF BootOrder, ListOrphans, RemoveOrphan
<1>7. CASE ListOrphans
  <2>1. /\ orphans' = {p \in Config \X Name : jobs[p[1]][p[2]] # {}} \ expected
        /\ pc' = [pc EXCEPT ![Boot] = "sweep"] /\ jobs' = jobs
    BY <1>7 DEF ListOrphans, dataVars
  <2>2. TypeOK' /\ HoldsDocument'
    BY <1>1, <1>3, <2>1 DEF TypeOK, HoldsDocument, Registering, ghosts
  <2>3. BootOrder'
    BY <1>3, <1>5, <1>6, <2>1 DEF BootOrder, ghosts
  <2>4. ASSUME NEW d \in Config, <<Boot, d>> \notin overlapped
        PROVE  BootKnows(d)'
    <3>1. BootKnows(d)
      BY <1>3, <2>4 DEF BootProgress
    <3>2. \A n \in Name : jobs[d][n] # {} => <<d, n>> \in orphans' \union expected
      BY <2>1
    <3> QED BY <1>3, <1>5, <1>6, <2>1, <3>1, <3>2 DEF BootKnows, ghosts
  <2> QED BY <1>3, <1>4, <2>2, <2>3, <2>4 DEF BootProgress, ghosts
<1>8. CASE RemoveOrphan
  <2>1. PICK p \in orphans :
          /\ orphans' = orphans \ {p}
          /\ jobs' = [jobs EXCEPT ![p[1]] = Without(@, {p[2]})]
    BY <1>8 DEF RemoveOrphan
  <2>2. p[1] \in Config /\ p[2] \in Name /\ p = <<p[1], p[2]>> /\ pc' = pc /\ pc[Boot] = "sweep"
    BY <1>2, <1>8, <2>1 DEF RemoveOrphan, actorVars
  <2>3. jobs[p[1]] \in [Name -> SUBSET Minutes]
    BY <1>2, <2>2
  <2>4. Without(jobs[p[1]], {p[2]}) \in [Name -> SUBSET Minutes]
    BY <2>3 DEF Without
  <2>5. TypeOK' /\ HoldsDocument'
    <3>1. jobs' \in [Config -> [Name -> SUBSET Minutes]]
      BY <1>2, <2>1, <2>4
    <3> QED BY <1>3, <2>1, <2>2, <3>1 DEF TypeOK, HoldsDocument, ghosts
  <2>6. BootOrder'
    BY <1>3, <1>5, <1>6, <2>1 DEF BootOrder, ghosts
  <2>7. ASSUME NEW d \in Config, <<Boot, d>> \notin overlapped
        PROVE  BootKnows(d)'
    <3>1. BootKnows(d) /\ jobs[d] \in [Name -> SUBSET Minutes]
      BY <1>2, <1>3, <2>7 DEF BootProgress
    <3>2. /\ \A n \in Name : <<d, n>> # p => jobs'[d][n] = jobs[d][n]
          /\ \A n \in Name : <<d, n>> = p => jobs'[d][n] = {}
          /\ jobs'[d] \in [Name -> SUBSET Minutes]
      BY <1>2, <2>1, <2>2, <2>4, <3>1 DEF Without
    <3>3. \A n \in Name : jobs'[d][n] # {} => <<d, n>> \in orphans' \union expected
      BY <2>1, <2>2, <3>1, <3>2 DEF BootKnows
    <3>4. d \in repaired => jobs'[d] = jobs[d]
      <4>1. ASSUME d \in repaired, d = p[1]
            PROVE  jobs[d][p[2]] = {}
        <5>1. p \notin expected
          BY <2>1 DEF BootOrder
        <5>2. p[2] \notin Names(Scheduled(saved[d]))
          BY <2>2, <3>1, <4>1, <5>1 DEF BootKnows
        <5> QED BY <2>2, <3>1, <4>1, <5>2 DEF BootKnows, Names
      <4> QED BY <2>2, <3>1, <3>2, <4>1
    <3> QED BY <1>3, <1>5, <1>6, <3>1, <3>3, <3>4 DEF BootKnows, ghosts
  <2> QED BY <1>3, <1>4, <2>5, <2>6, <2>7 DEF BootProgress, ghosts
<1> QED BY <1>7, <1>8

\* The bootstrap ends: what it registered, and swept, alone is as wanted.
LEMMA EndBootInvariant ==
    ASSUME IInv, EndBoot \/ BootFails
    PROVE  IInv'
<1> USE DEF IInv
<1>1. Boot \in Actor /\ Actor = Requester \union {Boot} /\ Boot \notin Requester
  BY ScheduleAssumption DEF Actor
<1>2. /\ pc \in [Actor -> {"idle", "found", "keyed", "list", "remove", "add", "load", "next", "sweep"}]
      /\ jobs \in [Config -> [Name -> SUBSET Minutes]]
      /\ repaired \subseteq Config /\ settled \subseteq Config
  BY DEF TypeOK
<1>3. /\ pc[Boot] # "idle" /\ pc' = [pc EXCEPT ![Boot] = "idle"] /\ repaired' = {}
      /\ UNCHANGED <<tenants, saved, jobs, target, overlapped>>
  BY DEF EndBoot, BootFails, dataVars
<1>4. /\ pc'[Boot] = "idle"
      /\ \A r \in Requester : pc'[r] = pc[r] /\ target'[r] = target[r]
  BY <1>1, <1>2, <1>3
<1>5. CASE EndBoot
  <2>1. /\ pc[Boot] = "sweep" /\ orphans = {}
        /\ settled' = settled \union
             Undisturbed(Boot, repaired \union {c \in Config : TenantOf[c] \notin tenants})
        /\ expected' = {}
        /\ UNCHANGED <<target, doc, left, todo, configs, orphans, faults, overlapped>>
    BY <1>5 DEF EndBoot
  <2>2. TypeOK' /\ HoldsDocument'
    BY <1>1, <1>3, <2>1 DEF TypeOK, HoldsDocument, Undisturbed, Registering
  <2>3. BootOrder' /\ BootProgress'
    BY <1>3, <1>4, <2>1 DEF BootOrder, BootProgress, AtHand, Registering
  <2>4. settled = {}
    BY <1>1, <1>2, <1>3 DEF AtRest, Busy
  <2>5. ASSUME NEW c \in settled'
        PROVE  AsSaved(c)' /\ \A b \in Actor : ~Busy(b, c)'
    <3>1. /\ c \in Config /\ <<Boot, c>> \notin overlapped
          /\ c \in repaired \/ TenantOf[c] \notin tenants
      BY <1>2, <2>1, <2>4, <2>5 DEF Undisturbed
    <3>2. BootKnows(c) /\ jobs[c] \in [Name -> SUBSET Minutes]
      BY <1>2, <1>3, <3>1 DEF BootProgress
    <3>3. ASSUME c \in repaired
          PROVE  AsSaved(c)'
      BY <1>3, <3>2, <3>3 DEF BootKnows, AsSaved
    <3>4. ASSUME TenantOf[c] \notin tenants
          PROVE  AsSaved(c)'
      <4>1. jobs[c] = NoJobs
        BY <2>1, <3>2, <3>4 DEF BootKnows, NoJobs
      <4> QED BY <1>3, <3>4, <4>1 DEF AsSaved
    <3>5. ASSUME NEW b \in Actor, Busy(b, c)'
          PROVE  FALSE
      <4>1. b # Boot /\ Busy(b, c)
        BY <1>1, <1>3, <1>4, <3>5 DEF Busy
      <4> QED BY <1>1, <1>3, <3>1, <4>1 DEF Alone, Busy
    <3> QED BY <3>1, <3>3, <3>4, <3>5
  <2>6. AtRest'
    BY <2>5 DEF AtRest
  <2>7. Alone' /\ RequestsProgress'
    BY <1>3, <1>4, <2>6, BootstrapStep
  <2> QED BY <2>2, <2>3, <2>6, <2>7
<1>6. CASE BootFails
  <2>1. /\ faults' = faults + 1 /\ faults < MaxFaults
        /\ left' = [left EXCEPT ![Boot] = {}] /\ doc' = [doc EXCEPT ![Boot] = Nothing]
        /\ todo' = {} /\ configs' = NoConfigs /\ orphans' = {} /\ expected' = {}
        /\ settled' = settled
    BY <1>6 DEF BootFails
  <2>2. TypeOK'
    BY <1>1, <1>3, <2>1, ScheduleAssumption DEF TypeOK, NoConfigs
  <2>3. HoldsDocument'
    BY <1>1, <1>3, <1>4, <2>1 DEF TypeOK, HoldsDocument, Registering
  <2>4. BootOrder' /\ BootProgress'
    BY <1>3, <1>4, <2>1 DEF BootOrder, BootProgress, AtHand, Registering, NoConfigs
  <2>5. Alone' /\ RequestsProgress' /\ AtRest'
    BY <1>3, <1>4, <2>1, BootstrapStep
  <2> QED BY <2>2, <2>3, <2>4, <2>5
<1> QED BY <1>5, <1>6
-----------------------------------------------------------------------------
\* A subscription that changes, or a purge, disturbs whoever works on the
\* tenant's configs.
LEMMA DisturbInvariant ==
    ASSUME IInv, NEW t \in Tenant, ToggleTenant(t) \/ Purge(t)
    PROVE  IInv'
<1> USE DEF IInv
<1> DEFINE C == {c \in Config : TenantOf[c] = t}
<1>1. Boot \in Actor /\ Requester \subseteq Actor
  BY DEF Actor
<1>2. /\ Disturb(C)
      /\ UNCHANGED <<saved, actorVars, bootVars, faults, repaired>>
      /\ \A c \in Config \ C : jobs'[c] = jobs[c]
      /\ \A c \in Config \ C : TenantOf[c] \in tenants' <=> TenantOf[c] \in tenants
  BY DEF ToggleTenant, Purge
<1>3. /\ overlapped' = overlapped \union {p \in Actor \X C : Busy(p[1], p[2])}
      /\ settled' = settled \ C
  BY <1>2 DEF Disturb
<1>4. overlapped \subseteq overlapped' /\ overlapped' \subseteq Actor \X Config
      /\ \A a \in Actor, c \in C : Busy(a, c) => <<a, c>> \in overlapped'
  BY <1>3 DEF TypeOK
<1>5. TypeOK'
  <2>1. jobs' \in [Config -> [Name -> SUBSET Minutes]]
    BY DEF ToggleTenant, Purge, TypeOK, NoJobs
  <2>2. tenants' \subseteq Tenant
    BY DEF ToggleTenant, Purge, TypeOK
  <2> QED BY <1>2, <1>3, <1>4, <2>1, <2>2 DEF TypeOK, actorVars, bootVars
<1>6. HoldsDocument'
  BY <1>2 DEF HoldsDocument, actorVars
<1>7. \A a \in Actor, c \in Config : Busy(a, c)' <=> Busy(a, c)
  BY <1>2 DEF Busy, actorVars
<1>8. Alone'
  BY <1>4, <1>7, StillAlone
<1>9. AtRest'
  <2>1. ASSUME NEW c \in settled'
        PROVE  AsSaved(c)' /\ \A b \in Actor : ~Busy(b, c)'
    <3>1. c \in settled /\ c \in Config \ C
      BY <1>3 DEF TypeOK
    <3> QED BY <3>1, <1>2, <1>7 DEF AtRest, AsSaved
  <2> QED BY <2>1 DEF AtRest
<1>10. RequestsProgress'
  <2>1. ASSUME NEW r \in Requester
        PROVE  /\ pc'[r] \in Requests
               /\ pc'[r] # "idle" /\ <<r, target'[r]>> \notin overlapped' => Progress(r, target[r])'
    <3>1. /\ pc'[r] \in Requests /\ pc' = pc /\ target' = target /\ target[r] \in Config
          /\ UNCHANGED <<saved, doc, left>>
      BY <1>1, <1>2 DEF RequestsProgress, TypeOK, actorVars
    <3>2. ASSUME pc[r] # "idle", <<r, target[r]>> \notin overlapped'
          PROVE  Progress(r, target[r])'
      <4>1. target[r] \notin C
        BY <1>1, <1>4, <3>2 DEF Busy
      <4>2. Progress(r, target[r])
        BY <1>4, <3>2 DEF RequestsProgress
      <4> QED BY <1>2, <3>1, <4>1, <4>2 DEF Progress
    <3> QED BY <3>1, <3>2
  <2> QED BY <2>1 DEF RequestsProgress
<1>11. BootOrder'
  BY <1>2 DEF BootOrder, AtHand, actorVars, bootVars
<1>12. BootProgress'
  <2>1. ASSUME NEW c \in Config, pc'[Boot] # "idle", <<Boot, c>> \notin overlapped'
        PROVE  BootKnows(c)'
    <3>1. pc' = pc /\ target' = target /\ UNCHANGED <<saved, doc, left, bootVars, repaired>>
      BY <1>2 DEF actorVars
    <3>2. c \notin C
      BY <1>1, <1>4, <2>1, <3>1 DEF Busy
    <3>3. BootKnows(c)
      BY <1>4, <2>1, <3>1 DEF BootProgress
    <3>4. AtHand(c) => Progress(Boot, c)'
      BY <1>2, <3>1, <3>2, <3>3 DEF BootKnows, Progress
    <3> QED BY <1>2, <3>1, <3>2, <3>3, <3>4 DEF BootKnows, AtHand, bootVars
  <2> QED BY <2>1 DEF BootProgress
<1> QED BY <1>5, <1>6, <1>8, <1>9, <1>10, <1>11, <1>12
-----------------------------------------------------------------------------
\* The invariant is inductive.
LEMMA NextInvariant ==
    ASSUME IInv, Next
    PROVE  IInv'
<1>1. ASSUME NEW r \in Requester, Request(r)
      PROVE  IInv'
  BY <1>1, FindConfigInvariant, SaveInvariant DEF Request
<1>2. ASSUME NEW a \in Actor, Sync(a)
      PROVE  IInv'
  BY <1>2, RequestSyncInvariant, BootSyncInvariant DEF Actor
<1>3. CASE Bootstrap
  BY <1>3, StartBootInvariant, LoadInvariant, SweepInvariant, EndBootInvariant DEF Bootstrap
<1>4. ASSUME NEW t \in Tenant, ToggleTenant(t) \/ Purge(t)
      PROVE  IInv'
  BY <1>4, DisturbInvariant
<1> QED BY <1>1, <1>2, <1>3, <1>4 DEF Next

\* Every reachable state satisfies the invariant.
THEOREM ScheduleInvariant == Spec => []IInv
<1>1. Init => IInv
  BY InitInvariant
<1>2. IInv /\ [Next]_vars => IInv'
  BY NextInvariant, StutterInvariant
<1> QED BY <1>1, <1>2, PTL DEF Spec

\* All variables keep their types, whatever requests, bootstraps and failures do.
THEOREM ScheduleTypes == Spec => []TypeOK
<1>1. IInv => TypeOK
  BY DEF IInv
<1> QED BY <1>1, ScheduleInvariant, PTL

\* For any configs, tenants, requests and failures: a registration (by
\* syncScheduledJob for a request, or by bootstrapScheduledJobs with its sweep)
\* during which nobody else worked on the config leaves exactly the schedulers
\* of the saved config, and they stay until the next one begins.
THEOREM RegistrationIsExact == Spec => []SettledIsScheduled
<1>1. IInv => SettledIsScheduled
  BY DEF IInv, AtRest, SettledIsScheduled
<1> QED BY <1>1, ScheduleInvariant, PTL

\* An interval that divides the hour is not longer than it.
LEMMA ExactHasPattern ==
    ASSUME NEW w \in Window, Exact(w)
    PROVE  HasPattern(w)
<1>1. MinutesPerHour \in Nat \ {0} /\ w.interval \in Nat \ {0}
      /\ MinutesPerHour % w.interval = 0
  BY WindowAssumption DEF Window, Exact
<1>2. ASSUME w.interval > MinutesPerHour
      PROVE  FALSE
  <2>1. MinutesPerHour \in 0..(w.interval - 1)
        /\ MinutesPerHour = w.interval * 0 + MinutesPerHour
    BY <1>1, <1>2
  <2>2. MinutesPerHour % w.interval = MinutesPerHour
    BY <1>1, <2>1, ModUnique
  <2> QED BY <1>1, <2>2
<1> QED BY <1>1, <1>2 DEF HasPattern

\* An exact window's config, once settled, runs at its due minutes and at no
\* other: the scheduler's pattern and the job's check agree on every window.
THEOREM WindowsAreServed == Spec => []WindowServed
<1>1. ASSUME IInv, NEW c \in settled, TenantOf[c] \in tenants, saved[c].active,
             saved[c].setting.mode = "WINDOW", Exact(saved[c].setting.window),
             NEW m \in Minutes
      PROVE  Due(saved[c].setting.window, m)
                <=> /\ \E n \in Name : m \in jobs[c][n]
                    /\ RunsAt(saved[c].setting.window, m)
  <2> DEFINE s == saved[c].setting
  <2> DEFINE w == s.window
  <2>1. saved[c] \in Value /\ s \in Setting
    BY <1>1 DEF IInv, TypeOK, Value
  <2>2. w \in Window /\ s.mode = "WINDOW"
    BY <1>1, <2>1, ScheduleAssumption DEF AnySetting
  <2>3. jobs[c] = Scheduled(saved[c])
    BY <1>1 DEF IInv, AtRest, AsSaved
  <2>4. HasPattern(w) /\ \A k \in Minutes : Due(w, k) <=> FiresAt(w, k) /\ RunsAt(w, k)
    BY <1>1, <2>2, WindowsAreExact, ExactHasPattern
  <2>5. Plain \in Name
    BY ScheduleAssumption DEF Plain, Name
  <2>6. Plan(s) = [n \in Name |-> IF n = Plain THEN {k \in Minutes : FiresAt(w, k)} ELSE {}]
    BY <2>2, <2>4, <2>5 DEF Plan, NoJobs, Pattern
  <2>7. (\E n \in Name : m \in Scheduled(saved[c])[n]) <=> FiresAt(w, m)
    <3>1. CASE ShouldSchedule(saved[c])
      BY <1>1, <2>5, <2>6, <3>1 DEF Scheduled
    <3>2. CASE ~ShouldSchedule(saved[c])
      <4>1. PlanNames(s) = {}
        BY <1>1, <3>2 DEF ShouldSchedule, HasPlan
      <4>2. ~FiresAt(w, m)
        BY <1>1, <2>5, <2>6, <4>1 DEF PlanNames
      <4> QED BY <3>2, <4>2 DEF Scheduled, NoJobs
    <3> QED BY <3>1, <3>2
  <2> QED BY <2>3, <2>4, <2>7
<1>2. IInv => WindowServed
  BY <1>1 DEF WindowServed
<1> QED BY <1>2, ScheduleInvariant, PTL

-----------------------------------------------------------------------------
(* Sequences and their least items. *)

\* A set of numbers that is not empty has a least one.  It stands for induction: the subsets of a
\* finite set are well-founded under inclusion, the intervals from 0 among them.
LEMMA Least == ASSUME NEW T, T \subseteq Nat, T # {}
               PROVE  \E x \in T : \A y \in T : x <= y
<1>1. PICK m \in T : TRUE
  OBVIOUS
<1> PICK S : S = 0 .. m
  OBVIOUS
<1>2. IsFiniteSet(S)
  BY <1>1, FS_Interval
<1>3. IsWellFoundedOn(StrictSubsetOrdering(S), FiniteSubsetsOf(S))
  BY FS_StrictSubsetOrderingWellFounded
<1> PICK C : C = {0 .. x : x \in {t \in T : t <= m}}
  OBVIOUS
<1>4. C # {} /\ C \subseteq FiniteSubsetsOf(S)
  <2>1. C # {}
    BY <1>1
  <2>2. FiniteSubsetsOf(S) = SUBSET S
    BY <1>2, FS_FiniteSubsetsOfFinite
  <2>3. \A x \in T : x <= m => 0 .. x \subseteq S
    BY <1>1
  <2>4. C \subseteq SUBSET S
    BY <2>3
  <2> QED
    BY <2>1, <2>2, <2>4
<1>5. \E x \in C : \A y \in C : ~(<<y, x>> \in StrictSubsetOrdering(S))
  BY <1>3, <1>4, WFMin
<1>6. PICK x \in T : x <= m /\ \A y \in C : ~(<<y, 0 .. x>> \in StrictSubsetOrdering(S))
  BY <1>5
<1>7. ASSUME NEW y \in T, y < x PROVE FALSE
  <2>1. 0 .. y \in C
    BY <1>1, <1>6, <1>7
  <2>2. 0 .. y \subseteq 0 .. x /\ 0 .. y # 0 .. x
    BY <1>7
  <2>3. (0 .. y) \in SUBSET S /\ (0 .. x) \in SUBSET S
    BY <1>1, <1>6, <1>7
  <2> QED
    BY <1>6, <2>1, <2>2, <2>3 DEF StrictSubsetOrdering
<1> QED
  BY <1>6, <1>7

\* Counting through a finite set of numbers meets each of its counts at an element.
LEMMA Counted == ASSUME NEW N \in Nat, NEW chosen, chosen \subseteq 1 .. N,
                        NEW k \in Nat, 1 <= k, k <= Cardinality(chosen)
                 PROVE  \E n \in chosen : Cardinality(UpTo(chosen, n)) = k
<1> DEFINE Below(n) == UpTo(chosen, n)
<1>1. \A n \in Nat : IsFiniteSet(Below(n)) /\ Cardinality(Below(n)) \in Nat
  <2>1. IsFiniteSet(1 .. N)
    BY FS_Interval
  <2>2. \A n \in Nat : Below(n) \in SUBSET (1 .. N)
    BY DEF UpTo
  <2>3. \A n \in Nat : IsFiniteSet(Below(n))
    BY <2>1, <2>2, FS_Subset
  <2> HIDE DEF Below
  <2> QED
    BY <2>3, FS_CardinalityType
<1>0. \A m \in chosen : m \in Nat /\ 1 <= m /\ m <= N
  OBVIOUS
<1>2. Below(N) = chosen
  BY <1>0 DEF UpTo
<1>3. Below(0) = {}
  <2>1. \A m \in chosen : ~(m <= 0)
    BY <1>0
  <2> QED
    BY <2>1 DEF UpTo
<1>4. \A n \in 1 .. N : Below(n) = IF n \in chosen THEN Below(n - 1) \union {n} ELSE Below(n - 1)
  <2> SUFFICES ASSUME NEW n \in 1 .. N
               PROVE  Below(n) = IF n \in chosen THEN Below(n - 1) \union {n} ELSE Below(n - 1)
    OBVIOUS
  <2>1. \A m \in chosen : m <= n <=> m = n \/ m <= n - 1
    BY <1>0 DEF UpTo
  <2> QED
    BY <2>1 DEF UpTo
<1>5. \A n \in 1 .. N : n \notin Below(n - 1)
  BY <1>0 DEF UpTo
<1> HIDE DEF Below
<1> PICK count : count = [n \in Nat |-> Cardinality(Below(n))]
  OBVIOUS
<1>6. count \in [Nat -> Nat]
  BY <1>1
<1>7. count[N] >= k /\ count[0] = 0
  BY <1>2, <1>3, FS_EmptySet
<1>8. \A n \in 1 .. N : count[n] = IF n \in chosen THEN count[n - 1] + 1 ELSE count[n - 1]
  <2> SUFFICES ASSUME NEW n \in 1 .. N PROVE count[n] = IF n \in chosen THEN count[n - 1] + 1 ELSE count[n - 1]
    OBVIOUS
  <2>1. IsFiniteSet(Below(n - 1)) /\ n - 1 \in Nat /\ n \in Nat
    BY <1>1
  <2>2. Cardinality(Below(n - 1) \union {n}) = Cardinality(Below(n - 1)) + 1
    BY <1>5, <2>1, FS_AddElement
  <2> QED
    BY <1>4, <2>1, <2>2
<1> PICK T : T = {n \in 0 .. N : count[n] >= k}
  OBVIOUS
<1>9. PICK n \in T : \A y \in T : n <= y
  <2>1. N \in T /\ T \subseteq Nat
    BY <1>7
  <2> QED
    BY <2>1, Least
<1>10. n \in 1 .. N /\ count[n] >= k
  BY <1>7, <1>9
<1>11. count[n - 1] < k
  <2>1. n - 1 \in 0 .. N /\ n - 1 \notin T
    BY <1>9, <1>10
  <2> QED
    BY <1>6, <2>1
<1>12. n \in chosen /\ count[n] = k
  <2>1. count[n] \in Nat /\ count[n - 1] \in Nat
    BY <1>6, <1>10
  <2> QED
    BY <1>8, <1>10, <1>11, <2>1
<1> QED
  BY <1>10, <1>12 DEF Below

\* What is selected from a sequence are its items at the indices named.
LEMMA SelectedItems == ASSUME NEW R, NEW s \in Seq(R), NEW chosen, chosen \subseteq DOMAIN s
                       PROVE  /\ Selected(s, chosen) \in Seq(R)
                              /\ \A k \in DOMAIN Selected(s, chosen) :
                                    \E n \in chosen : Selected(s, chosen)[k] = s[n]
<1> PICK N \in Nat : N = Len(s)
  OBVIOUS
<1>1. chosen \subseteq 1 .. N
  OBVIOUS
<1>2. Cardinality(chosen) \in Nat
  <2>1. IsFiniteSet(1 .. N)
    BY FS_Interval
  <2>2. IsFiniteSet(chosen)
    BY <1>1, <2>1, FS_Subset
  <2> QED
    BY <2>2, FS_CardinalityType
<1> PICK c \in Nat : c = Cardinality(chosen)
  BY <1>2
<1>3. \A k \in 1 .. c : \E n \in chosen : Cardinality(UpTo(chosen, n)) = k
  <2> SUFFICES ASSUME NEW k \in 1 .. c
               PROVE  \E n \in chosen : Cardinality(UpTo(chosen, n)) = k
    OBVIOUS
  <2>1. k \in Nat /\ 1 <= k /\ k <= Cardinality(chosen)
    OBVIOUS
  <2> QED
    BY <1>1, <2>1, Counted
<1> DEFINE At(k) == CHOOSE n \in chosen : Cardinality(UpTo(chosen, n)) = k
<1>4. \A k \in 1 .. c : At(k) \in chosen
  BY <1>3
<1> HIDE DEF At
<1>5. Selected(s, chosen) = [k \in 1 .. c |-> s[At(k)]]
  BY DEF Selected, At
<1>6. \A n \in chosen : s[n] \in R
  OBVIOUS
<1>7. \A k \in 1 .. c : s[At(k)] \in R
  BY <1>4, <1>6
<1>8. [k \in 1 .. c |-> s[At(k)]] \in Seq(R)
  BY <1>7
<1> QED
  BY <1>4, <1>5, <1>8
-----------------------------------------------------------------------------
(* FieldValues: what a run of the chain erases. *)

Row == [source : Sources, target : Targets, user : BOOLEAN, select : BOOLEAN, active : BOOLEAN]

\* What a value of the record is once a row has it, said of one that speaks.
LEMMA FirstExists ==
    ASSUME NEW items, items \in Seq(Range(items)), NEW chain \in BOOLEAN, NEW among,
           among \subseteq DOMAIN items, among # {}
    PROVE  \E n \in among : \A k \in among \ {n} : Precedes(items, chain, n, k)
<1>1. \A n \in among : n \in Nat
  OBVIOUS
<1>2. \A n \in among : Rank(items[n]) \in Nat
  <2> SUFFICES ASSUME NEW n \in among PROVE Rank(items[n]) \in Nat
    OBVIOUS
  <2>1. CASE items[n].kind \in Range(Priority)
    <3>1. \E p \in DOMAIN Priority : Priority[p] = items[n].kind
      BY <2>1 DEF Range
    <3>2. \A p \in DOMAIN Priority : p \in Nat
      BY PriorityIsAnOrder
    <3> QED
      BY <2>1, <3>1, <3>2 DEF Rank
  <2>2. CASE items[n].kind \notin Range(Priority)
    <3>1. Len(Priority) \in Nat
      BY PriorityIsAnOrder
    <3> QED
      BY <2>2, <3>1 DEF Rank
  <2> QED
    BY <2>1, <2>2
<1>3. PICK first \in among : \A k \in among : first <= k
  BY <1>1, Least
<1>4. CASE ~chain
  <2>1. \A k \in among \ {first} : first < k
    BY <1>1, <1>3
  <2> QED
    BY <1>3, <1>4, <2>1 DEF Precedes
<1>5. CASE chain
  <2> PICK ranks : ranks = {Rank(items[n]) : n \in among}
    OBVIOUS
  <2>1. ranks \subseteq Nat /\ ranks # {}
    BY <1>2
  <2>2. PICK r \in ranks : \A q \in ranks : r <= q
    BY <2>1, Least
  <2> PICK best : best = {n \in among : Rank(items[n]) = r}
    OBVIOUS
  <2>3. best \subseteq Nat /\ best # {} /\ best \subseteq among
    BY <1>1, <2>2
  <2>4. PICK n \in best : \A k \in best : n <= k
    BY <2>3, Least
  <2>5. ASSUME NEW k \in among \ {n} PROVE Precedes(items, chain, n, k)
    <3>1. CASE k \in best
      <4>1. n < k /\ Rank(items[n]) = Rank(items[k])
        BY <1>1, <2>3, <2>4, <2>5, <3>1
      <4> QED
        BY <4>1 DEF Precedes
    <3>2. CASE k \notin best
      <4>1. Rank(items[k]) # r /\ Rank(items[k]) \in ranks /\ Rank(items[n]) = r
        BY <2>4, <2>5, <3>2
      <4>2. Rank(items[n]) < Rank(items[k])
        BY <2>1, <2>2, <4>1
      <4> QED
        BY <1>5, <4>1, <4>2 DEF Precedes
    <3> QED
      BY <3>1, <3>2
  <2> QED
    BY <2>3, <2>4, <2>5
<1> QED
  BY <1>4, <1>5

\* With the chain on, a field that has filled items yields one of them.
LEMMA ChainFindsFilled ==
    ASSUME NEW items, items \in Seq(Range(items)), NEW it \in Range(items), HasMappedValue(it.value)
    PROVE  \E one \in Range(items) : HasMappedValue(one.value) /\ Resolved(items, TRUE) = one.value
<1> PICK full : full = {n \in DOMAIN items : HasMappedValue(items[n].value)}
  OBVIOUS
<1>1. full # {} /\ full \subseteq DOMAIN items
  BY DEF Range
<1>2. items # <<>>
  BY <1>1
<1> PICK n : n = CHOOSE m \in full : \A k \in full \ {m} : Precedes(items, TRUE, m, k)
  OBVIOUS
<1>3. n \in full
  <2>1. \E m \in full : \A k \in full \ {m} : Precedes(items, TRUE, m, k)
    BY <1>1, FirstExists
  <2> QED
    BY <2>1
<1>4. Resolved(items, TRUE) = items[n].value
  BY <1>1, <1>2 DEF Resolved
<1>5. n \in DOMAIN items /\ HasMappedValue(items[n].value)
  BY <1>3
<1>6. items[n] \in Range(items)
  BY <1>5 DEF Range
<1> QED
  BY <1>4, <1>5, <1>6

\* What may be dialled is neither blank nor a mark.
LEMMA DialableIsMapped == ASSUME NEW s, IsE164(s) PROVE HasMappedValue(s)
<1>1. Len(s) \in 3 .. MaxDigits + 1
  BY DEF IsE164
<1>2. \A n \in 3 .. MaxDigits + 1 : n # 0 /\ n # 1
  BY MaxDigitsIsNat
<1>3. Len(s) # 0 /\ Len(s) # 1
  BY <1>1, <1>2
<1> QED
  BY <1>3 DEF HasMappedValue, Null, Blank, Absent

\* A row that speaks has a value, whatever its kind: the owner of the code, the telephone as it
\* is sent, or the text.
LEMMA SpeakersHaveValues ==
    ASSUME NEW row \in Row, NEW data, data[row.source] \in Seq(Range(data[row.source])), NEW phones,
           Speaks(row, data)
    PROVE  HasMappedValue(RowValue(row, data, TRUE, phones))
<1> PICK items : items = data[row.source]
  OBVIOUS
<1> PICK v : v = Resolved(items, TRUE)
  OBVIOUS
<1> PICK filled : filled = {it \in Range(items) : HasMappedValue(it.value)}
  OBVIOUS
<1>1. filled # {} /\ \A it \in filled : IF row.user THEN it.value \in DOMAIN Directory
                                         ELSE row.target \in PhoneTargets => IsE164(Compact(it.value))
  BY DEF Speaks
<1>2. PICK one \in Range(items) : HasMappedValue(one.value) /\ v = one.value
  BY <1>1, ChainFindsFilled
<1>3. one \in filled
  BY <1>2
<1>4. RowValue(row, data, TRUE, phones) =
        IF row.user THEN Translated(v)
        ELSE IF row.target \in PhoneTargets THEN NormalizedPhone(v, phones) ELSE v
  BY DEF RowValue
<1>5. CASE row.user
  <2>1. v \in DOMAIN Directory
    BY <1>1, <1>2, <1>3, <1>5
  <2>2. Translated(v) = Directory[v]
    BY <1>2, <2>1 DEF Translated
  <2> QED
    BY <1>4, <1>5, <2>1, <2>2, DirectoryNames
<1>6. CASE ~row.user /\ row.target \in PhoneTargets
  <2>1. IsE164(Compact(v))
    BY <1>1, <1>2, <1>3, <1>6
  <2>2. NormalizedPhone(v, phones) = Compact(v)
    BY <1>2, <2>1 DEF NormalizedPhone
  <2>3. HasMappedValue(Compact(v))
    BY <2>1, DialableIsMapped
  <2> QED
    BY <1>4, <1>6, <2>2, <2>3
<1>7. CASE ~row.user /\ row.target \notin PhoneTargets
  BY <1>2, <1>4, <1>7
<1> QED
  BY <1>5, <1>6, <1>7

Settings == [chain : BOOLEAN, phones : {PhoneConfig(raw) : raw \in RawPhoneConfigs},
             template : Templates \union {NoTemplate}, into : Targets]

\* The rows, the settings and the record of SAP.
DataOK ==
    /\ rows \in Seq(Row)
    /\ settings \in Settings
    /\ record \in Records

\* A run knows the record it read, as far as it asked for it; with rows and settings as they were,
\* it asked for every field of a row that is to be asked for, and for every field of the template.
RunKnows ==
    /\ DOMAIN mapping = DOMAIN NoRun
    /\ mapping.pc # "idle" =>
         /\ mapping.was \in Records
         /\ mapping.data = [f \in Sources |-> IF f \in mapping.select THEN mapping.was[f] ELSE <<>>]
    /\ mapping.pc = "read" /\ mapping.steady =>
         AskedFields \union TemplateFields(settings.template) \subseteq mapping.select
    /\ mapping.pc \in {"map", "send"} =>
         /\ mapping.rows \in Seq(Row)
         /\ mapping.next \in Nat \ {0}
         /\ mapping.settings.chain \in BOOLEAN
         /\ DOMAIN mapping.props = Targets
    /\ mapping.pc \in {"map", "send"} /\ mapping.steady =>
         /\ TemplateFields(mapping.settings.template) \subseteq mapping.select
         /\ \A row \in Range(mapping.rows) : row.select => row.source \in mapping.select

\* The rows that a run has been through.
Through == {n \in DOMAIN mapping.rows : mapping.pc = "send" \/ n < mapping.next}

\* With the chain on, a row that speaks leaves its property with a value.
SpeakersAreHeard ==
    mapping.pc \in {"map", "send"} /\ mapping.settings.chain =>
        \A n \in Through : Speaks(mapping.rows[n], mapping.data) =>
            HasMappedValue(mapping.props[mapping.rows[n].target])

\* A property with one row, of a user, has a value or is left out, unless SAP names nobody.
UsersAreNamed ==
    mapping.pc \in {"map", "send"} =>
        \A row \in Range(mapping.rows) :
            (/\ row.user
             /\ \A other \in Range(mapping.rows) : other.target = row.target => other = row
             /\ HasMappedValue(Resolved(mapping.data[row.source], mapping.settings.chain))) =>
               mapping.props[row.target] = Absent \/ HasMappedValue(mapping.props[row.target])

MapInv == DataOK /\ RunKnows /\ SpeakersAreHeard /\ UsersAreNamed

LEMMA ActiveRows == ASSUME DataOK PROVE Active \in Seq(Row)
<1>1. {n \in DOMAIN rows : rows[n].active} \subseteq DOMAIN rows
  OBVIOUS
<1> QED
  BY <1>1, SelectedItems DEF Active, DataOK

LEMMA MapInitially == MappingInit => MapInv
<1> SUFFICES ASSUME MappingInit PROVE MapInv
  OBVIOUS
<1>1. mapping = NoRun /\ mapping.pc = "idle"
  BY DEF MappingInit, NoRun
<1>2. DataOK
  BY DEF MappingInit, DataOK, Settings
<1> QED
  BY <1>1, <1>2 DEF MapInv, RunKnows, SpeakersAreHeard, UsersAreNamed

\* Whoever edits rows or settings, or SAP, leaves a run with what it has read.
LEMMA EditsKeepMapInv ==
    ASSUME MapInv, CreateMapping \/ SwitchRow \/ ChangeSettings \/ SapChanges \/ UNCHANGED mappingVars
    PROVE  MapInv'
<1>1. DataOK'
  <2>1. CASE CreateMapping
    <3>1. PICK row \in Row : rows' = Append(rows, row)
      BY <2>1 DEF CreateMapping, Row
    <3> QED
      BY <2>1, <3>1 DEF CreateMapping, MapInv, DataOK
  <2>2. CASE SwitchRow
    <3>1. PICK n \in DOMAIN rows : rows' = [rows EXCEPT ![n].active = ~@]
      BY <2>2 DEF SwitchRow
    <3>2. rows \in Seq(Row) /\ rows[n] \in Row
      BY DEF MapInv, DataOK
    <3>3. [rows[n] EXCEPT !.active = ~@] \in Row
      BY <3>2 DEF Row
    <3>4. rows' \in Seq(Row)
      BY <3>1, <3>2, <3>3
    <3> QED
      BY <2>2, <3>4 DEF SwitchRow, MapInv, DataOK
  <2>3. CASE ChangeSettings
    <3>1. PICK t \in Templates \union {NoTemplate}, c \in BOOLEAN :
             settings' = [settings EXCEPT !.template = t, !.chain = c]
      BY <2>3 DEF ChangeSettings
    <3>2. settings \in Settings
      BY DEF MapInv, DataOK
    <3>3. settings' \in Settings
      BY <3>1, <3>2 DEF Settings
    <3> QED
      BY <2>3, <3>3 DEF ChangeSettings, MapInv, DataOK
  <2>4. CASE SapChanges
    BY <2>4 DEF SapChanges, MapInv, DataOK
  <2>5. CASE UNCHANGED mappingVars
    BY <2>5 DEF mappingVars, MapInv, DataOK
  <2> QED
    BY <2>1, <2>2, <2>3, <2>4, <2>5
<1>2. \/ UNCHANGED <<rows, settings, mapping>>
      \/ mapping' = [mapping EXCEPT !.steady = FALSE]
  BY DEF CreateMapping, SwitchRow, ChangeSettings, SapChanges, Edited, mappingVars
<1>3. CASE UNCHANGED <<rows, settings, mapping>>
  BY <1>1, <1>3 DEF MapInv, RunKnows, SpeakersAreHeard, UsersAreNamed, Through, AskedFields, Active
<1>4. CASE mapping' = [mapping EXCEPT !.steady = FALSE]
  <2>1. DOMAIN mapping = DOMAIN NoRun
    BY DEF MapInv, RunKnows
  <2>2. DOMAIN mapping' = DOMAIN NoRun /\ mapping'.steady = FALSE
    BY <1>4, <2>1 DEF NoRun
  <2>3. /\ mapping'.pc = mapping.pc /\ mapping'.select = mapping.select /\ mapping'.data = mapping.data
        /\ mapping'.rows = mapping.rows /\ mapping'.next = mapping.next
        /\ mapping'.settings = mapping.settings /\ mapping'.props = mapping.props
        /\ mapping'.was = mapping.was
    BY <1>4, <2>1 DEF NoRun
  <2>4. RunKnows'
    BY <2>2, <2>3 DEF MapInv, RunKnows
  <2>5. SpeakersAreHeard' /\ UsersAreNamed'
    BY <2>3 DEF MapInv, SpeakersAreHeard, UsersAreNamed, Through
  <2> QED
    BY <1>1, <2>4, <2>5 DEF MapInv
<1> QED
  BY <1>2, <1>3, <1>4

LEMMA FetchKeepsMapInv == ASSUME MapInv, FetchFields PROVE MapInv'
<1> PICK select : select = AskedFields \union TemplateNeeds
  OBVIOUS
<1>1. mapping' = [NoRun EXCEPT !.pc = "read", !.select = select, !.was = record, !.steady = TRUE,
                               !.data = [f \in Sources |-> IF f \in select THEN record[f] ELSE <<>>]]
  BY DEF FetchFields
<1>2. /\ DOMAIN mapping' = DOMAIN NoRun /\ mapping'.pc = "read" /\ mapping'.select = select
      /\ mapping'.was = record
      /\ mapping'.data = [f \in Sources |-> IF f \in select THEN record[f] ELSE <<>>]
  BY <1>1 DEF NoRun
<1>3. UNCHANGED <<rows, settings, record>>
  BY DEF FetchFields, Step
<1>4. AskedFields' = AskedFields /\ TemplateFields(settings'.template) = TemplateFields(settings.template)
  BY <1>3 DEF AskedFields, Active
<1>5. AskedFields \union TemplateFields(settings.template) \subseteq select
  BY DEF TemplateNeeds
<1>6. DataOK' /\ record \in Records
  BY <1>3 DEF MapInv, DataOK
<1>7. RunKnows'
  BY <1>2, <1>4, <1>5, <1>6 DEF RunKnows
<1> QED
  BY <1>2, <1>6, <1>7 DEF MapInv, SpeakersAreHeard, UsersAreNamed

LEMMA ReadKeepsMapInv == ASSUME MapInv, ReadMappings PROVE MapInv'
<1>1. mapping' = [mapping EXCEPT !.pc = "map", !.rows = Active, !.settings = settings, !.next = 1,
                                 !.props = [t \in Targets |-> Absent]]
  BY DEF ReadMappings
<1>2. DOMAIN mapping = DOMAIN NoRun /\ mapping.pc = "read"
  BY DEF MapInv, RunKnows, ReadMappings
<1>3. /\ DOMAIN mapping' = DOMAIN NoRun /\ mapping'.pc = "map" /\ mapping'.rows = Active
      /\ mapping'.settings = settings /\ mapping'.next = 1
      /\ mapping'.props = [t \in Targets |-> Absent]
      /\ mapping'.select = mapping.select /\ mapping'.data = mapping.data
      /\ mapping'.was = mapping.was /\ mapping'.steady = mapping.steady
  BY <1>1, <1>2 DEF NoRun
<1>4. DataOK'
  BY DEF ReadMappings, Step, MapInv, DataOK
<1>5. Active \in Seq(Row)
  BY ActiveRows DEF MapInv
<1>6. \A row \in Range(Active) : row.select => row.source \in AskedFields
  BY DEF AskedFields
<1>7. RunKnows'
  <2>1. /\ mapping.was \in Records
        /\ mapping.data = [f \in Sources |-> IF f \in mapping.select THEN mapping.was[f] ELSE <<>>]
        /\ mapping.steady => AskedFields \union TemplateFields(settings.template) \subseteq mapping.select
    BY <1>2 DEF MapInv, RunKnows
  <2>2. DOMAIN mapping'.props = Targets
    BY <1>3
  <2>3. settings.chain \in BOOLEAN
    BY DEF MapInv, DataOK, Settings
  <2> QED
    BY <1>3, <1>5, <1>6, <2>1, <2>2, <2>3 DEF RunKnows
<1>8. SpeakersAreHeard'
  <2>1. Through' = {}
    <3>1. \A n \in DOMAIN Active : ~(n < 1)
      BY <1>5
    <3> QED
      BY <1>3, <3>1 DEF Through
  <2> QED
    BY <2>1 DEF SpeakersAreHeard
<1>9. UsersAreNamed'
  <2>1. \A row \in Range(Active) : row.target \in Targets
    <3>1. \A n \in DOMAIN Active : Active[n] \in Row
      BY <1>5
    <3> QED
      BY <3>1 DEF Row, Range
  <2> QED
    BY <1>3, <2>1 DEF UsersAreNamed
<1> QED
  BY <1>4, <1>7, <1>8, <1>9 DEF MapInv

\* A value that a row writes to its property is no absent mark, and is a name where it must be.
LEMMA MapRowKeepsMapInv == ASSUME MapInv, MapRow PROVE MapInv'
<1> PICK row : row = mapping.rows[mapping.next]
  OBVIOUS
<1> PICK v : v = RowValue(row, mapping.data, mapping.settings.chain, mapping.settings.phones)
  OBVIOUS
<1> PICK props : props = IF Settled(mapping.props, row) \/ v = Absent THEN mapping.props
                         ELSE [mapping.props EXCEPT ![row.target] = v]
  OBVIOUS
<1>1. /\ mapping.pc = "map" /\ mapping.next <= Len(mapping.rows)
      /\ mapping' = [mapping EXCEPT !.next = @ + 1, !.props = props]
  BY DEF MapRow
<1>2. DOMAIN mapping = DOMAIN NoRun /\ mapping.rows \in Seq(Row) /\ mapping.next \in Nat \ {0}
      /\ DOMAIN mapping.props = Targets
  BY <1>1 DEF MapInv, RunKnows
<1>3. /\ DOMAIN mapping' = DOMAIN NoRun /\ mapping'.pc = "map" /\ mapping'.rows = mapping.rows
      /\ mapping'.settings = mapping.settings /\ mapping'.next = mapping.next + 1
      /\ mapping'.props = props
      /\ mapping'.select = mapping.select /\ mapping'.data = mapping.data
      /\ mapping'.was = mapping.was /\ mapping'.steady = mapping.steady
  BY <1>1, <1>2 DEF NoRun
<1>4. DOMAIN props = Targets
  BY <1>2
<1>5. DataOK'
  BY DEF MapRow, Step, MapInv, DataOK
<1>6. RunKnows'
  BY <1>1, <1>2, <1>3, <1>4 DEF MapInv, RunKnows
<1>7. \A n \in DOMAIN mapping.rows : mapping.rows[n] \in Row /\ mapping.rows[n].target \in Targets
  <2>1. \A n \in DOMAIN mapping.rows : mapping.rows[n] \in Row
    BY <1>2
  <2> QED
    BY <2>1 DEF Row
<1>8. SpeakersAreHeard'
  <2> SUFFICES ASSUME mapping.settings.chain, NEW n \in DOMAIN mapping.rows, n < mapping.next + 1,
                      Speaks(mapping.rows[n], mapping.data)
               PROVE  HasMappedValue(props[mapping.rows[n].target])
    BY <1>3 DEF SpeakersAreHeard, Through
  <2> PICK t \in Targets : t = mapping.rows[n].target
    BY <1>7
  <2>1. CASE n < mapping.next
    <3>1. HasMappedValue(mapping.props[t])
      BY <1>1, <2>1 DEF MapInv, SpeakersAreHeard, Through
    <3>2. CASE row.target = t
      BY <3>1, <3>2 DEF Settled
    <3>3. CASE row.target # t
      BY <1>2, <3>1, <3>3
    <3> QED
      BY <3>2, <3>3
  <2>2. CASE n = mapping.next
    <3>1. row \in Row /\ row.target = t /\ Speaks(row, mapping.data)
      BY <1>7, <2>2
    <3>2. row.source \in Sources
      BY <3>1 DEF Row
    <3>3. mapping.data[row.source] \in Seq(Range(mapping.data[row.source]))
      <4>1. /\ mapping.was \in Records
            /\ mapping.data[row.source] = IF row.source \in mapping.select THEN mapping.was[row.source] ELSE <<>>
        BY <1>1, <3>2 DEF MapInv, RunKnows
      <4> QED
        <5>1. <<>> \in Seq(Range(<<>>))
          OBVIOUS
        <5>2. mapping.was[row.source] \in Seq(Range(mapping.was[row.source]))
          BY <3>2, <4>1, RecordsAreItems
        <5> QED
          BY <4>1, <5>1, <5>2
    <3>4. HasMappedValue(RowValue(row, mapping.data, TRUE, mapping.settings.phones))
      BY <3>1, <3>3, SpeakersHaveValues
    <3>5. RowValue(row, mapping.data, mapping.settings.chain, mapping.settings.phones)
            = RowValue(row, mapping.data, TRUE, mapping.settings.phones)
      <4>1. mapping.settings.chain = TRUE
        BY <1>1 DEF MapInv, RunKnows
      <4> QED
        BY <4>1
    <3>6. HasMappedValue(v)
      BY <3>4, <3>5
    <3>7. CASE Settled(mapping.props, row)
      BY <3>1, <3>7 DEF Settled
    <3>8. CASE ~Settled(mapping.props, row)
      BY <1>2, <3>1, <3>6, <3>8 DEF HasMappedValue
    <3> QED
      BY <3>7, <3>8
  <2>3. n \in Nat /\ (n < mapping.next \/ n = mapping.next)
    BY <1>2
  <2> QED
    BY <2>1, <2>2, <2>3
<1>9. UsersAreNamed'
  <2> SUFFICES ASSUME NEW mine \in Range(mapping.rows), mine.user,
                      \A other \in Range(mapping.rows) : other.target = mine.target => other = mine,
                      HasMappedValue(Resolved(mapping.data[mine.source], mapping.settings.chain))
               PROVE  props[mine.target] = Absent \/ HasMappedValue(props[mine.target])
    BY <1>3 DEF UsersAreNamed
  <2>1. mapping.props[mine.target] = Absent \/ HasMappedValue(mapping.props[mine.target])
    BY <1>1 DEF MapInv, UsersAreNamed
  <2>2. CASE row.target # mine.target
    <3>1. props[mine.target] = mapping.props[mine.target]
      <4>1. mine.target \in Targets
        BY <1>7 DEF Range
      <4> QED
        BY <1>2, <2>2, <4>1
    <3> QED
      BY <2>1, <3>1
  <2>3. CASE row.target = mine.target
    <3>1. row \in Range(mapping.rows)
      <4>1. mapping.next \in DOMAIN mapping.rows
        BY <1>1, <1>2
      <4> QED
        BY <4>1 DEF Range
    <3>2. row = mine
      BY <2>3, <3>1
    <3>3. v = Translated(Resolved(mapping.data[mine.source], mapping.settings.chain))
      BY <3>2 DEF RowValue
    <3>4. v = Absent \/ HasMappedValue(v)
      BY <3>3, DirectoryNames DEF Translated, Untranslated
    <3>5. mine.target \in Targets
      BY <1>7 DEF Range
    <3> QED
      BY <1>2, <2>1, <3>2, <3>4, <3>5
  <2> QED
    BY <2>2, <2>3
<1> QED
  BY <1>5, <1>6, <1>8, <1>9 DEF MapInv

LEMMA ComposeKeepsMapInv == ASSUME MapInv, Compose PROVE MapInv'
<1> PICK text : text = Composed(mapping.settings.template, mapping.data)
  OBVIOUS
<1> PICK into : into = mapping.settings.into
  OBVIOUS
<1>1. /\ mapping.pc = "map" /\ mapping.next > Len(mapping.rows)
      /\ mapping' = [mapping EXCEPT !.pc = "send", !.props[into] = IF HasMappedValue(text) THEN text ELSE @]
  BY DEF Compose
<1>2. DOMAIN mapping = DOMAIN NoRun /\ mapping.rows \in Seq(Row) /\ mapping.next \in Nat \ {0}
      /\ DOMAIN mapping.props = Targets
  BY <1>1 DEF MapInv, RunKnows
<1> PICK props : props = [mapping.props EXCEPT ![into] = IF HasMappedValue(text) THEN text ELSE @]
  OBVIOUS
<1>3. /\ DOMAIN mapping' = DOMAIN NoRun /\ mapping'.pc = "send" /\ mapping'.rows = mapping.rows
      /\ mapping'.settings = mapping.settings /\ mapping'.next = mapping.next
      /\ mapping'.props = props
      /\ mapping'.select = mapping.select /\ mapping'.data = mapping.data
      /\ mapping'.was = mapping.was /\ mapping'.steady = mapping.steady
  BY <1>1, <1>2 DEF NoRun
<1>4. DOMAIN props = Targets
  BY <1>2
<1>5. \A t \in Targets : props[t] = mapping.props[t] \/ HasMappedValue(props[t])
  BY <1>2
<1>6. DataOK'
  BY DEF Compose, Step, MapInv, DataOK
<1>7. RunKnows'
  BY <1>1, <1>2, <1>3, <1>4 DEF MapInv, RunKnows
<1>8. \A n \in DOMAIN mapping.rows : n < mapping.next /\ mapping.rows[n].target \in Targets
  <2>1. \A n \in DOMAIN mapping.rows : mapping.rows[n] \in Row
    BY <1>2
  <2>2. \A n \in DOMAIN mapping.rows : n < mapping.next
    BY <1>1, <1>2
  <2> QED
    BY <2>1, <2>2 DEF Row
<1>9. SpeakersAreHeard'
  <2> SUFFICES ASSUME mapping.settings.chain, NEW n \in DOMAIN mapping.rows,
                      Speaks(mapping.rows[n], mapping.data)
               PROVE  HasMappedValue(props[mapping.rows[n].target])
    BY <1>3 DEF SpeakersAreHeard, Through
  <2>1. HasMappedValue(mapping.props[mapping.rows[n].target])
    BY <1>1, <1>8 DEF MapInv, SpeakersAreHeard, Through
  <2> QED
    BY <1>5, <1>8, <2>1
<1>10. UsersAreNamed'
  <2>1. UsersAreNamed
    BY DEF MapInv
  <2>2. \A row \in Range(mapping.rows) : row.target \in Targets
    BY <1>8 DEF Range
  <2> QED
    BY <1>1, <1>3, <1>5, <2>1, <2>2 DEF UsersAreNamed
<1> QED
  BY <1>6, <1>7, <1>9, <1>10 DEF MapInv

LEMMA SendKeepsMapInv == ASSUME MapInv, Send PROVE MapInv'
<1>1. mapping' = NoRun /\ mapping'.pc = "idle"
  BY DEF Send, NoRun
<1>2. DataOK'
  BY DEF Send, Step, MapInv, DataOK
<1> QED
  BY <1>1, <1>2 DEF MapInv, RunKnows, SpeakersAreHeard, UsersAreNamed

LEMMA StepKeepsMapInv == ASSUME MapInv, [MappingNext]_mappingVars PROVE MapInv'
BY EditsKeepMapInv, FetchKeepsMapInv, ReadKeepsMapInv, MapRowKeepsMapInv, ComposeKeepsMapInv, SendKeepsMapInv
   DEF MappingNext

\* ErasedOnlyWhenSilent: with the chain on and rows and settings as they were when SAP was asked,
\* a run erases a property only when no row of it had anything to say.
THEOREM ChainsEraseWhenSilent == MappingSpec => ErasedOnlyWhenSilent
<1>1. ASSUME MapInv, [MappingNext]_mappingVars, NEW t \in Targets, mapping.pc = "send", mapping'.pc = "idle",
             mapping.steady, mapping.settings.chain, shown[t] # Null, shown'[t] = Null,
             NEW row \in Range(mapping.rows), row.target = t
      PROVE  ~Speaks(row, mapping.was)
  <2> SUFFICES ASSUME Speaks(row, mapping.was) PROVE FALSE
    OBVIOUS
  <2>1. ~HasMappedValue(mapping.props[t])
    <3>1. Send \/ shown' = shown
      BY <1>1 DEF MappingNext, CreateMapping, SwitchRow, ChangeSettings, SapChanges, Edited, FetchFields,
                  ReadMappings, MapRow, Compose, mappingVars
    <3>2. CASE Send
      <4>1. shown'[t] = IF mapping.props[t] = Absent THEN shown[t]
                        ELSE IF HasMappedValue(mapping.props[t]) THEN mapping.props[t] ELSE Null
        BY <3>2 DEF Send
      <4> QED
        BY <1>1, <4>1 DEF HasMappedValue
    <3> QED
      BY <1>1, <3>1, <3>2
  <2>2. PICK n \in DOMAIN mapping.rows : mapping.rows[n] = row
    BY DEF Range
  <2>3. row.select /\ row.source \in mapping.select /\ row \in Row
    BY <1>1, <2>2 DEF MapInv, RunKnows, Speaks
  <2>4. mapping.data[row.source] = mapping.was[row.source]
    BY <1>1, <2>3 DEF MapInv, RunKnows, Row
  <2>5. Speaks(row, mapping.data)
    BY <2>4 DEF Speaks
  <2>6. HasMappedValue(mapping.props[t])
    BY <1>1, <2>2, <2>5 DEF MapInv, SpeakersAreHeard, Through
  <2> QED
    BY <2>1, <2>6
<1> QED
  <2>1. MappingInit => MapInv
    BY MapInitially
  <2>2. MapInv /\ [MappingNext]_mappingVars => MapInv'
    BY StepKeepsMapInv
  <2>3. MapInv /\ [MappingNext]_mappingVars =>
          [\A t \in Targets :
             (/\ mapping.pc = "send" /\ mapping'.pc = "idle" /\ mapping.steady
              /\ mapping.settings.chain /\ shown[t] # Null /\ shown'[t] = Null) =>
                 \A row \in Range(mapping.rows) : row.target = t => ~Speaks(row, mapping.was)]_mappingVars
    BY <1>1
  <2> QED
    BY <2>1, <2>2, <2>3, PTL DEF MappingSpec, ErasedOnlyWhenSilent

\* HandPutUserStays: an owner put by hand outlives a code that is not homologated.
THEOREM NamedUsersStay == MappingSpec => HandPutUserStays
<1>1. ASSUME MapInv, [MappingNext]_mappingVars, NEW t \in Targets, mapping.pc = "send", mapping'.pc = "idle",
             shown[t] # Null, shown'[t] = Null, NEW row \in Range(mapping.rows), row.user, row.target = t,
             \A other \in Range(mapping.rows) : other.target = t => other = row
      PROVE  ~HasMappedValue(Resolved(mapping.data[row.source], mapping.settings.chain))
  <2>1. Send \/ shown' = shown
    BY <1>1 DEF MappingNext, CreateMapping, SwitchRow, ChangeSettings, SapChanges, Edited, FetchFields,
                ReadMappings, MapRow, Compose, mappingVars
  <2>2. CASE Send
    <3>1. shown'[t] = IF mapping.props[t] = Absent THEN shown[t]
                      ELSE IF HasMappedValue(mapping.props[t]) THEN mapping.props[t] ELSE Null
      BY <2>2 DEF Send
    <3>2. mapping.props[t] # Absent /\ ~HasMappedValue(mapping.props[t])
      BY <1>1, <3>1 DEF HasMappedValue
    <3> QED
      BY <1>1, <3>2 DEF MapInv, UsersAreNamed
  <2> QED
    BY <1>1, <2>1, <2>2
<1> QED
  <2>1. MappingInit => MapInv
    BY MapInitially
  <2>2. MapInv /\ [MappingNext]_mappingVars => MapInv'
    BY StepKeepsMapInv
  <2>3. MapInv /\ [MappingNext]_mappingVars =>
          [\A t \in Targets :
             (mapping.pc = "send" /\ mapping'.pc = "idle" /\ shown[t] # Null /\ shown'[t] = Null) =>
                 \A row \in Range(mapping.rows) :
                    (/\ row.user /\ row.target = t
                     /\ \A other \in Range(mapping.rows) : other.target = t => other = row) =>
                        ~HasMappedValue(Resolved(mapping.data[row.source], mapping.settings.chain))
          ]_mappingVars
    BY <1>1
  <2> QED
    BY <2>1, <2>2, <2>3, PTL DEF MappingSpec, HandPutUserStays

\* TemplateIsFed: the template of a run finds every field it names.
THEOREM TemplatesAreFed == MappingSpec => []TemplateIsFed
<1>1. MapInv => TemplateIsFed
  BY DEF MapInv, RunKnows, TemplateIsFed
<1> QED
  BY <1>1, MapInitially, StepKeepsMapInv, PTL DEF MappingSpec
=============================================================================
