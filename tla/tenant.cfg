\* One config in one of two tenants over a day of three hours; a company provisioned
\* twice beside two callbacks; records of three fields.
SPECIFICATION MCSpec
CONSTANTS
    Config = {c1}
    Tenant = {t1, t2}
    TenantOf <- AllInFirst
    Requester = {r1}
    Setting <- AllSettings
    PatchSetting <- FewSettings
    MaxTimes = 2
    MaxFaults = 1
    MinutesPerHour = 2
    HoursPerDay = 3
    MidnightIs24 = FALSE
    p1 = p1
    p2 = p2
    k1 = k1
    k2 = k2
    Provisioners = {p1, p2}
    Callbacks = {k1, k2}
    FlavorOf <- MCFlavorOf
    ConfigTemplates <- MCConfigTemplates
    AdminConfigs <- MCAdminConfigs
    AdminObjects = {"contact", "product"}
    MaxFailures = 1
    MaxRows = 1
    MaxRuns = 1
    Sources = {"tax", "list", "cell"}
    Targets = {"id", "phone"}
    PhoneTargets = {"phone"}
    Records <- MCRecords
    Priority <- MCPriority
    Directory <- MCDirectory
    RawPhoneConfigs <- MCRawPhoneConfigs
    Templates <- MCTemplates
    MaxDigits = 4
    MaxMappingEdits = 2
    MaxMappingRuns = 2
SYMMETRY SetupSymmetry
CHECK_DEADLOCK FALSE
INVARIANTS
    SettledIsScheduled
    WindowServed
    TwinsExplained
PROPERTIES
    ErasedOnlyWhenSilent
