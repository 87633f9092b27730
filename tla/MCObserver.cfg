SPECIFICATION FairSpec
CONSTANTS
    None = None
    CanonicalKeys = {}
    a = a
    b = b
    c = c
    d = d
    strange = strange
    m1 = m1
    m2 = m2
    m3 = m3
    v1 = v1
    MaxCandidates = 3
    MaxModels = 2
    MaxTtl = 3
    MaxTimeout = 3
    PeerIds <- MCPeerIds
    LowerCase <- MCLowerCase
    Calls <- MCCalls
    Responses <- MCResponses
    MaxBytes = 2
    MaxPieces = 2
    MaxClock = 15
INVARIANTS
    TypeOK
    LifetimeCoversStatus
    WholeStatusOnly
    ExitTellsTheWidestSignal
    RunIsShort
PROPERTIES
    EveryObservationEnds
CHECK_DEADLOCK FALSE
