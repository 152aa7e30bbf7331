CONSTANTS
    g1 = g1
    g2 = g2
    r1 = r1
    r2 = r2
    r3 = r3
    GrantIds = {g1, g2}
    ReservationIds = {r1, r2, r3}
    Requests <- MCRequests
    MaxTime = 2
    Revisions = {0, 1, 2, 3, 4, 5, 6, 7}
SPECIFICATION Spec
SYMMETRY Symmetry
CHECK_DEADLOCK FALSE
INVARIANTS
    WithinQuota
    ExhaustedIsIdle
    AccountingInv
    IdleActiveCanReserve
PROPERTIES
    ClosedStaysClosed
