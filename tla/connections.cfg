\* Three calls of a tenant to SAP, three on HubSpot's bucket, two refreshes beside two
\* installations, two requests to the gateway, four calls to record.
SPECIFICATION MCSpec
CONSTANTS
    Caller = {c1, c2, c3}
    Nobody = Nobody
    Pages = 2
    MaxLogins = 3
    MaxEvents = 2
    MaxFaults = 1
    Call = {c1, c2, c3}
    Burst = 2
    Retries = 1
    RetryAfter = {1, 2}
    Late = 1
    Window = 2
    Refresher = {r1, r2}
    Installer = {i1, i2}
    Portal = {own, other}
    Registered = own
    MaxToken = 5
    Admin = {a1, a2}
    Request = {r1, r2}
    LastPage = 2
    MaxTokens = 4
    MaxEdits = 3
    MaxMishaps = 2
    RecorderCaps = {1, 2, 3}
    AuditCap = 2
    ErrorCap = 2
    BodyCap = 1
    AuditCall <- MCCalls
    BesideSizes = {0, 8}
    BesideRoom = 1
    DocumentLimit = 7
    MaxCalls = 4
SYMMETRY CallSymmetry
CHECK_DEADLOCK FALSE
INVARIANTS
    OneLoginAtATime
    WrittenAtMostOnce
    CreateToldTrue
    GrantKept
    PerformedOnce
    LostToWhatIsWhole
