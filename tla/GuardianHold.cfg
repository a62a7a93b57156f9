\* Attestations of every tier, outflows, cap changes, re-arm, resume and the
\* kill switch, together on one route; durations as 24h : 72h : 24h.
SPECIFICATION HSpec
CONSTANTS
    Routes = {r1}
    Callers = {v1}
    Keys = {k1}
    Candidates = {}
    Rearmed = {r1}
    NoAddress = NoAddress
    Nonces = {n1, n2, n3}
    Caps = {3, 6}
    Windows = {2}
    Amounts = {2}
    Scores = {65, 85, 95}
    Segments = 1
    DelayShare = 3
    DelayWindow = 2
    PauseDuration = 2
    MaxAttestationTtl = 0
    OracleRotationDelay = 1
    MaxOracleProtection = 3
    ProtectionCooldown = 1
    Genesis = 4
    Horizon = 8
SYMMETRY NonceSymmetry
INVARIANTS
    TypeOK
    PauseIsFreeze
    HoldWithinSpan
    HoldBounded
PROPERTIES
    OnlyOwnerLoosens
