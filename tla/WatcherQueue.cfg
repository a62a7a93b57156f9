SPECIFICATION Spec
CONSTANTS
    m1 = m1
    m2 = m2
    p1 = p1
    p2 = p2
    None = None
    Messages = {m1, m2}
    Payloads = {p1, p2}
    executed = executed
    Outcomes = {executed}
    MaxBurns = 2
    MaxRequests = 2
    MaxReorgs = 1
SYMMETRY Interchangeable
INVARIANTS
    WatcherTypeOK
    NothingLost
    ConflictsRemembered
    OutcomesTrue
PROPERTIES
    ImplementsReleaseQueue
    QuarantineHolds
CHECK_DEADLOCK FALSE
