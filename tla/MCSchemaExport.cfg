SPECIFICATION Spec
CONSTANTS
    p1 = p1
    p2 = p2
    short = short
    long = long
    Exporters = {p1, p2}
    Versions = {short, long}
    Length <- MCLength
    Count = 2
    NoVersion = NoVersion
INVARIANTS
    SuccessMeansAllFiles
    OverlappingRunsAgree
