\* Three partners, or five of which two are one, or two with three contact employees,
\* in chunks of two, twice; two partners one by one, twice; three product rows in chunks
\* of two, twice; two orders and two invoices.
\* A run ends when its requests, edits and runs are used up.
SPECIFICATION MCSpec
CONSTANTS
    Tiers <- TheTiers
    ChildTiers <- TheChildTiers
    Data <- TheData
    Portals <- ThePortals
    Configs <- TheConfigs
    ChunkSize = 2
    Concurrency = 2
    MaxRuns = 2
    MaxFaults = 1
    r1 = r1
    r2 = r2
    r3 = r3
    a = a
    b = b
    c = c
    NoSku = NoSku
    RowList <- MCRowList
    ProductChunk = 2
    MaxProductRuns = 2
    MaxProductFaults = 2
    MaxEdits = 1
    MaxIds = 7
    DocEntries <- MCDocEntries
    OrderList <- MCOrderList
    InvoiceList <- MCInvoiceList
    MaxDeals = 4
    MaxDealRuns = 3
    MaxDealFaults = 1
    MaxDealEdits = 1
    Groups <- MCGroups
    Holdings <- MCHoldings
    Settings <- MCSettings
    Phones <- MCPhones
    MaxItemRuns = 2
    MaxItemFaults = 1
    MaxItemEdits = 1
CHECK_DEADLOCK FALSE
INVARIANTS
    OneRecordPerPartner
    RegistryPointsHome
    TwinDealsExplained
    OwnersKept
PROPERTIES
    OwnedRecordKept
