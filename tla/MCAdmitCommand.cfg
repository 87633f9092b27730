SPECIFICATION Spec
CONSTANTS
    None = None
    local = local
    near = near
    far = far
    modelA = modelA
    modelB = modelB
    keyL = keyL
    keyN = keyN
    keyF = keyF
    badKey = badKey
    CanonicalKeys <- MCKeys
    Plans <- MCPlans
    Policies <- MCPolicies
    Amended <- MCAmended
    Horizon = 3
    Edits = 2
INVARIANTS
    TypeOK
    AdmittedIffContained
    ReportedBoundsHold
PROPERTIES
    ExpiryIsPermanent
    TighteningNeverAdmits
    UnusedAuthorityIsIrrelevant
