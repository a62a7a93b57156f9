SPECIFICATION Spec
CONSTANTS
    p1 = p1
    p2 = p2
    p3 = p3
    f1 = f1
    None = None
    Providers = {p1, p2, p3, f1}
    Faulty = {f1}
    Quorum = 2
    MaxHeight = 2
SYMMETRY Interchangeable
INVARIANTS
    FinalizedIsReal
    ConflictIsNotLag
