\* A scheduled job and a manual one, a worker death; a renewal may fail, not
\* two in a row. A minute has two ticks and the day two minutes.
SPECIFICATION FairSpec
CONSTANTS
    Job = {j1, m1}
    Scheduled = {j1}
    Attempts = 3
    Backoff <- ExponentialBackoff
    TTL = 3
    MinRenew = 1
    MaxMissed = 1
    MaxCrashes = 1
    TicksPerMinute = 2
    MinutesPerHour = 1
    HoursPerDay = 2
    MidnightIs24 = FALSE
    SyncWindow <- LastMinute
INVARIANTS
    SingleExecution
    LostOnlyByExpiry
PROPERTIES
    LockIsFreed
