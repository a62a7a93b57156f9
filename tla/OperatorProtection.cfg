SPECIFICATION RunningSpec
CONSTANTS
    m1 = m1
    m2 = m2
    b1 = b1
    None = None
    Messages = {m1, m2}
    Burns = {b1}
    MaxReviews = 1
    MaxUnfinal = 1
PROPERTIES
    EveryReleaseHandled
CHECK_DEADLOCK FALSE
