\* The quotation flows of one deal, with every fault but unacknowledged writes.
SPECIFICATION Spec
CONSTANTS
    EventTypes = {"createQuotation", "updateQuotation", "convertQuotationToOrder"}
    Deal = {d1}
    Run = {w1, w2}
    MaxEvents = 2
    MaxCheckers = 2
    BatchSize = 2
    MaxRetries = 2
    MaxMongoFaults = 2
    MaxCrashes = 1
    UnackedWrites = FALSE
    LostResponses = TRUE
CHECK_DEADLOCK FALSE
PROPERTIES
    LinkedIsNotRecreated
