SPECIFICATION Spec

CONSTANTS
    Customers = {c1, c2}
    Known = {c1}
    Versions = {v1, v2}
    None = None
    MaxPreviews = 2
    MaxFaults = 1

INVARIANTS
    TypeOK
    StepsHaveData
    OneFatePerPreview
    HistoryMatchesQueue

PROPERTIES
    LatestIsUnique
