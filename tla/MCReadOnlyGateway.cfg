CONSTANTS
    c1 = c1
    c2 = c2
    g1 = g1
    r1 = r1
    r2 = r2
    GrantIds = {g1}
    ReservationIds = {r1, r2}
    Calls = {c1, c2}
    RefusalCodes = {"TOOL_DENIED"}
    Requests <- MCRequests
    MaxTime = 1
    Revisions = {0, 1}
    Deadlines = {1}
    MaxTimer = 1
    MaxAnswer = 2
    SinkMayFail = TRUE
SPECIFICATION GatewaySpec
CHECK_DEADLOCK FALSE
INVARIANTS
    LedgerTellsCalls
    AuditTellsOutcome
PROPERTIES
    KillIsFinal
    KillDrains
    DeadlineEndsCall
