\* One credit of a screened escrow: lists, receipts, profile and customer policy
\* change around its review, payment and return; returns and time are fair.
SPECIFICATION FairSHSpec
CONSTANTS
    Routes = {r1}
    Callers = {v1}
    Keys = {k1, i1}
    Candidates = {}
    Rearmed = {}
    NoAddress = NoAddress
    Nonces = {}
    Windows = {1}
    Scores = {}
    Segments = 1
    DelayShare = 10
    DelayWindow = 1
    PauseDuration = 1
    MaxAttestationTtl = 0
    OracleRotationDelay = 2
    MaxOracleProtection = 1
    ProtectionCooldown = 0
    Genesis = 1
    Vault = v1
    ReviewTiers = {0}
    VaultRoute = r1
    Funds = 0
    RejectionCooldown = 0
    m1 = m1
    m2 = m2
    a1 = a1
    op1 = op1
    i1 = i1
    Caps = {4}
    Amounts = {1}
    Horizon = 3
    Messages = {m1}
    Recipients = {a1}
    Payouts = {1}
    MaxReviewNonce = 1
    MaxReviewTtl = 1
    Attested <- LateCredit
    Operations = {op1}
    Policies <- NoPolicies
    Scheduled <- Reopening
    ScheduledScreening <- Consents
    InitialPolicy <- Open
    InitialRecipients = {a1}
    RecoveryDelay = 1
    PolicyChangeDelay = 1
    MaxVersion = 3
    Authority = au
    Profiles <- OneProfile
    InitialProfile <- Profile
    SignedHeads <- Lists
    SignedReceipts <- Receipts
    NoProfile = NoProfile
    NoHead = NoHead
    NotScreened = NotScreened
    NotCleared = NotCleared
PROPERTIES
    ReturnsHappen
    PaidOnStandingEvidence
