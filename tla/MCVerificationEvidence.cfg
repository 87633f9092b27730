SPECIFICATION Spec
CONSTANTS
    None = None
    local = local
    near = near
    model = model
    other = other
    keyL = keyL
    keyN = keyN
    CanonicalKeys <- MCKeys
    Attestations <- MCAttestations
    Policies <- MCPolicies
    Horizon = 3
INVARIANTS
    ReportsOnlySupportedEvidence
