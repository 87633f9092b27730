SPECIFICATION FairSpec
CONSTANTS
    v1 = v1
    v2 = v2
    file = file
    old = old
    new = new
    first = first
    second = second
    forged = forged
    n1 = n1
    n2 = n2
    Processes = {v1, v2}
    Attestations = {first, second, forged}
    Policies = {old, new}
    NonceOf <- MCNonceOf
    Passes <- MCPasses
    Horizon = 1
    RunLimit = 2
    Stores = {file}
    StoreOf <- MCStoreOf
    Private = {}
    Nonces = {n1, n2}
    NoNonce = NoNonce
    NoEntry = NoEntry
INVARIANTS
    TypeOK
    OneAdmissionPerNonce
    InvalidNeverPersisted
    AdmissionIsRecorded
    AdmissionsNameTheirInputs
    NoHandleOutlivesItsRun
PROPERTIES
    EveryRunEnds
CHECK_DEADLOCK FALSE
