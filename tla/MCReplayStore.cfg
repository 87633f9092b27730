SPECIFICATION Spec
CONSTANTS
    h1 = h1
    h2 = h2
    m = m
    file = file
    memory = memory
    n1 = n1
    n2 = n2
    e1 = e1
    e2 = e2
    Handles = {h1, h2, m}
    Stores = {file, memory}
    StoreOf <- MCStoreOf
    Private = {m}
    Nonces = {n1, n2}
    Entries = {e1, e2}
    NoNonce = NoNonce
    NoEntry = NoEntry
SYMMETRY Symmetry
INVARIANTS
    TypeOK
    AtMostOneWinner
    AnswersMatchTheTable
    OpenMeansTable
PROPERTIES
    RowsArePermanent
    ImplementsRegister
