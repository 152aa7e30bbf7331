SPECIFICATION Spec
CONSTANTS
    hero = hero
    transform = transform
    opacity = opacity
    mit = mit
    other = other
    Null = Null
    CapabilityOrder <- MCOrder
    Known <- MCKnown
    DefaultProperty <- MCDefaultProperty
    Possible <- MCPossible
    BaseLicenses = {mit}
    Inputs <- MCInputs
INVARIANTS
    PlannedRouteIsLeast
    StatusTellsRoutes
    EveryProviderExplained
CHECK_DEADLOCK FALSE
