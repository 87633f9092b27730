SPECIFICATION Spec
CONSTANTS
    None = None
    key = key
    model = model
    request = request
    CanonicalKeys <- MCKeys
    PolicyFiles <- MCPolicyFiles
    TopologyEdits <- MCTopologyEdits
    Plans <- MCPlans
    Horizon = 4
    Edits = 3
INVARIANTS
    DigestTellsContent
    ProbeSpeaksOfThePolicy
CHECK_DEADLOCK FALSE
