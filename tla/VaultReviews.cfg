\* Reviews, rejections, DELAY attestations, cap changes and oracle rotation
\* around one release.
SPECIFICATION VHSpec
CONSTANTS
    Routes = {r1}
    Callers = {v1}
    Keys = {k1}
    Candidates = {k1}
    Rearmed = {}
    NoAddress = NoAddress
    Nonces = {n1}
    Caps = {4, 8}
    Windows = {1}
    Amounts = {2}
    Scores = {85}
    Segments = 1
    DelayShare = 4
    DelayWindow = 2
    PauseDuration = 4
    MaxAttestationTtl = 0
    OracleRotationDelay = 2
    MaxOracleProtection = 5
    ProtectionCooldown = 1
    Genesis = 6
    Horizon = 10
    Vault = v1
    ReviewTiers = {0, 2}
    VaultRoute = r1
    Messages = {m1}
    Recipients = {a1}
    Payouts = {2}
    Funds = 2
    MaxReviewNonce = 3
    MaxReviewTtl = 1
    RejectionCooldown = 3
INVARIANTS
    RejectionRests
PROPERTIES
    PaidUnderOneTenure
    OracleHadNotice
    NewestReviewDecides
    DelayedPayoutWaited
