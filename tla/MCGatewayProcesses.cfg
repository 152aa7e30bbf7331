CONSTANTS
    p1 = p1
    p2 = p2
    p3 = p3
    g1 = g1
    r1 = r1
    r2 = r2
    Nobody = Nobody
    Processes = {p1, p2, p3}
    GrantIds = {g1}
    ReservationIds = {r1, r2}
    Requests <- MCRequests
    AuditCodes <- MCAuditCodes
    MaxTime = 1
    MaxAnswer = 2
    MayBeBusy = TRUE
SPECIFICATION Spec
SYMMETRY Symmetry
CHECK_DEADLOCK FALSE
INVARIANTS
    RowsHaveOwners
    ChargesAudited
PROPERTIES
    ImplementsLedger
    AuditIsLog
