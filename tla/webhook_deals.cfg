\* Two overlapping runs, one deal, failed writes, crashes and lost answers.
SPECIFICATION FairSpec
CONSTANTS
    EventTypes = {"createDeal"}
    Deal = {d1}
    Run = {w1, w2}
    MaxEvents = 3
    MaxCheckers = 2
    BatchSize = 2
    MaxRetries = 2
    MaxMongoFaults = 3
    MaxCrashes = 1
    UnackedWrites = FALSE
    LostResponses = TRUE
INVARIANTS
    OneOpenEventPerDeal
    SingleOwner
    DuplicatesExplained
    ErroredExplained
    ErroredIffRetriesSpent
PROPERTIES
    SettledIsFinal
    EventsSettle
