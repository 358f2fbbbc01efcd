\* Two fields fed by a catalog and by definitions; eight stock configurations over two
\* items and two days; two SAP records over eight ticks of days of six.
\* The runs and the edits are bounded, and the clock ends.
SPECIFICATION MCSpec
CONSTANTS
    v1 = v1
    v2 = v2
    v3 = v3
    f1 = f1
    f2 = f2
    p1 = p1
    p2 = p2
    Value = {v1, v2, v3}
    Field = {f1, f2}
    Property = {p1, p2}
    Feeds <- MCFeeds
    Catalogs <- MCCatalogs
    Lists <- MCLists
    Mappings <- MCMappings
    Cap = 2
    MaxRuns = 2
    MaxFaults = 1
    MaxOptionEdits = 1
    i1 = i1
    i2 = i2
    l1 = l1
    l2 = l2
    Items <- MCItems
    S4Cells <- MCS4Cells
    B1Cells <- MCB1Cells
    Locations <- MCLocations
    Setups <- MCSetups
    Deliveries = {0, 1, 2}
    MaxQuantity = 2
    MaxMoves = 1
    MaxStockRuns = 2
    MaxStockFaults = 1
    LastDay = 2
    SapRecord = {s1, s2}
    Tasks <- MCTasks
    DayLength = 6
    Horizon = 7
    MaxSapChanges = 2
    FetchFaults = 1
SYMMETRY CatalogsSymmetry
CHECK_DEADLOCK FALSE
INVARIANTS
    SteadyRunsLoseNothing
PROPERTIES
    HiddenOnlyWhenSapDropsIt
    BlankedOnlyWhenNoneRead
