SPECIFICATION Spec
CONSTANTS
    n1 = n1
    n2 = n2
    n3 = n3
    Names = {n1, n2, n3}
    Floors = {n3}
    Parse <- MCParse
    First = n1
    Unset = Unset
    NoFile = NoFile
    Partial = Partial
    MaxChanges = 2
    MaxFaults = 2
    MaxLost = 2
INVARIANTS
    TypeOK
    BrokenOnlyIfCut
    RestartsAreBounded
    MarkerIsInstalled
CHECK_DEADLOCK FALSE
