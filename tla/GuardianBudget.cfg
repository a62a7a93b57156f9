\* The rolling budget: one route, outflows and cap changes, no attestations.
SPECIFICATION PSpec
CONSTANTS
    Routes = {r1}
    Callers = {v1}
    Keys = {k1}
    Candidates = {}
    Rearmed = {}
    NoAddress = NoAddress
    Nonces = {}
    Caps = {2, 4}
    Windows = {3}
    Amounts = {1, 2}
    Scores = {}
    Segments = 2
    DelayShare = 10
    DelayWindow = 1
    PauseDuration = 1
    MaxAttestationTtl = 0
    OracleRotationDelay = 2
    MaxOracleProtection = 1
    ProtectionCooldown = 0
    Genesis = 5
    Horizon = 11
INVARIANTS
    UsageNeverOmits
    UsageNotStale
PROPERTIES
    ImplementsExactLimit
