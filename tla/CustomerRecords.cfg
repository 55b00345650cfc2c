CONSTANTS
    Requests = {r1, r2}
    Keep = 1
    MaxRows = 4
    MaxFaults = 1
SYMMETRY Symmetry
SPECIFICATION Spec
CHECK_DEADLOCK FALSE
INVARIANTS
    TypeOK
    NewestLogsKept
    LogsBounded
PROPERTY DeletionFailsForCause
