\* Two messages that may claim one operation, reviewed twice under a changing
\* customer policy; the escrow also holds tokens that nobody credited.
SPECIFICATION EHSpec
CONSTANTS
    Routes = {r1}
    Callers = {v1}
    Keys = {k1}
    Candidates = {}
    Rearmed = {}
    NoAddress = NoAddress
    Nonces = {}
    Windows = {1}
    Scores = {}
    Segments = 1
    DelayShare = 10
    DelayWindow = 1
    PauseDuration = 1
    MaxAttestationTtl = 0
    OracleRotationDelay = 2
    MaxOracleProtection = 1
    ProtectionCooldown = 0
    Genesis = 1
    Vault = v1
    ReviewTiers = {0}
    VaultRoute = r1
    Funds = 2
    RejectionCooldown = 0
    m1 = m1
    m2 = m2
    a1 = a1
    op1 = op1
    Caps = {4}
    Amounts = {2}
    Horizon = 3
    Messages = {m1, m2}
    Recipients = {a1}
    Payouts = {2}
    MaxReviewNonce = 2
    MaxReviewTtl = 0
    Attested <- Rivals
    Operations = {op1}
    Policies <- SlowerPolicy
    Scheduled <- Loosenings
    InitialPolicy <- Slow
    InitialRecipients = {a1}
    RecoveryDelay = 1
    PolicyChangeDelay = 1
    MaxVersion = 3
SYMMETRY MessageSymmetry
INVARIANTS
    Solvent
    ReturnExcludesPayout
    CreditsDistinct
PROPERTIES
    PaidUnderCurrentPolicy
    LooseningAnnounced
    CustomerDelayServed
    RejectIsTerminal
