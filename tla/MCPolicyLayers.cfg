SPECIFICATION Spec
CONSTANTS
    a = a
    b = b
    Null = Null
    NoPolicy = NoPolicy
    Ambiguous = Ambiguous
    Invalid = Invalid
    ProjectDepth = 2
    Policies <- MCPolicies
    Trees <- MCTrees
INVARIANTS
    ResolvedRespectsEveryLayer
    RefusedIffLayersConflict
    LastDecisionTellsValue
CHECK_DEADLOCK FALSE
