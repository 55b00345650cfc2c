SPECIFICATION FairSpec
CONSTANTS
    MaxRelease = 3
    Sound = {0, 2, 3}
    WithMigrations = {0, 1, 3}
    Missing = Missing
    Partial = Partial
    Keep = 3
    MaxFaults = 2
INVARIANTS
    TypeOK
    KeepsAGoodBinary
PROPERTIES
    RollbackRestores
    CatchesUp
