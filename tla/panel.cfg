\* Three requests of any kind on one account, active or not; three on one ticket, new
\* or open; a call that fails or a death.
SPECIFICATION MCSpec
CONSTANTS
    PanelRequest = {r1, r2, r3}
    First = First
    Kinds <- PanelKind
    MaxAttempts = 1
    MaxTokens = 2
    MaxConcurrent = 1
    MaxQueue = 1
    MaxOutages = 1
    Request = {r1, r2, r3}
    Ops <- AllOps
    k1 = k1
    Key = {k1}
    NoKey = NoKey
    Nobody = Nobody
    Stale = 1
    KeyTTL = 2
    MaxTime = 3
    MaxFaults = 1
    UnackedWrites = FALSE
SYMMETRY RequestSymmetry
CHECK_DEADLOCK FALSE
INVARIANTS
    SessionsKnowThePassword
    DeactivationRevokes
PROPERTIES
    PublishesOnce
