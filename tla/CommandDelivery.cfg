SPECIFICATION FairSpec
CONSTANTS
    Ids = {1, 2}
    Kind <- MCKind
    Pulls = {h1, h2}
    NoPull = NoPull
    MaxAttempts = 2
    MaxFaults = 1
INVARIANTS
    TypeOK
    DeliveredAccounted
    BoundedExecutions
PROPERTIES
    KeepsPromise
    Drained
