SPECIFICATION FairSpec
CONSTANTS
    MaxOrders = 1
    Offered = 1
    MaxReleases = 1
    MaxRestarts = 1
    MaxFaults = 1
INVARIANTS
    TypeOK
PROPERTIES
    StopsOnlyForCause
    DisabledStops
    CutOffStops
    Converges
