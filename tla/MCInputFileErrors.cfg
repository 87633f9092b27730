SPECIFICATION Spec
CONSTANTS
    k1 = k1
    k2 = k2
    x = x
    y = y
    Versions <- MCVersions
    Items <- MCItems
    Conforms <- MCConforms
    MaxInput = 2
    Writes = 3
    MaxLength = 3
INVARIANTS
    InputFailuresExitTwo
