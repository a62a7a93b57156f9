SPECIFICATION Spec
CONSTANTS
    m1 = m1
    m2 = m2
    b1 = b1
    None = None
    Messages = {m1, m2}
    Burns = {b1}
    MaxReviews = 2
    MaxUnfinal = 1
SYMMETRY Interchangeable
INVARIANTS
    BackedOnce
    OutcomesFinal
    OneDecisionPerNonce
CHECK_DEADLOCK FALSE
