SPECIFICATION MCSpec
CONSTANTS
    e1 = e1
    e2 = e2
    x = x
    y = y
    Old = Old
    None = None
    Own = Own
    i1 = i1
    i2 = i2
    i3 = i3
    product1 = product1
    product2 = product2
    sku1 = sku1
    sku2 = sku2
    NoItem = NoItem
    Events = {e1, e2}
    ContactList <- MCContactList
    MaxPartners = 3
    MaxCodes = 6
    MaxTries = 2
    MaxIncidents = 1
    LineItems <- MCLineItems
    Product <- MCProduct
    Sku <- MCSku
    FirstItems <- MCFirstItems
    Updates = {u1, u2}
    MaxRow = 4
    MaxLineTries = 2
    MaxMishaps = 2
    h1 = h1
    h2 = h2
    Owners <- MCOwners
    SapCodes = {"10", "20"}
    Texts <- MCTexts
    Admins = {a1, a2}
    MaxTableEdits = 3
    MaxOwnerRuns = 1
    MaxOwnerFaults = 1
    MaxPortalEdits = 1
    Pipelines = {"p", "q"}
    Stages = {"s1", "s2", "t1"}
    PipelineOf <- MCPipelineOf
    PipelineKeys = {"1", "2"}
    StageKeys = {"1", "2"}
    Configured = "s2"
    MaxStageEdits = 2
    MaxStageRuns = 1
SYMMETRY Symmetry
CHECK_DEADLOCK FALSE
INVARIANT
    NewRowsAreNew
PROPERTIES
    ContactsKept
    OrderIsWhole
    RoundTrip
