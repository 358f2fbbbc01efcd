\* Two requests, the cron, two worker slots and a manual run.
SPECIFICATION FairQueueSpec
CONSTANTS
    Event = {e1, e2}
    Worker = {w1, w2}
    Manual = {m1}
    CronEnabled = TRUE
    BatchSize = 1
    MaxRetries = 1
    MaxFaults = 1
    MaxStalls = 1
INVARIANTS
    Coalesced
PROPERTIES
    WaitingIsClaimed
