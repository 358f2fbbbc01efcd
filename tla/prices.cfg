SPECIFICATION PricesSpec
CONSTANTS
    Line = {l1, l2}
    Worker = {w1, w2}
    Strategies <- AllStrategies
    MaxEdits = 3
    MaxDeliveries = 2
    MaxFaults = 1
    Row = {1, 2, 3}
    Item = {a, b}
    Quantity <- Quantities
    MaxChanges = 2
    MaxFailures = 1
SYMMETRY PricesSymmetry
\* A run ends when every event is answered and no change is left.
CHECK_DEADLOCK FALSE
INVARIANTS
    PriceFollowsEdits
    NoLineForgotten
