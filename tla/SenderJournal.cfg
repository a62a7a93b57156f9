\* Two operations, retried after a revert, with fee bumps, a reorg after
\* which nodes keep what it returned, and a finality conflict at any point.
SPECIFICATION SHSpec
CONSTANTS
    j1 = j1
    j2 = j2
    Jobs = {j1, j2}
    MaxAttempts = 2
    MaxRows = 3
    MaxReplacements = 1
    MaxReorgs = 1
    PoolKeeps = TRUE
SYMMETRY Interchangeable
INVARIANTS
    JournalAhead
    TerminalIsFinal
    NonceUnshared
    OneEffect
PROPERTIES
    KnownWorkRests
    QuarantineSilences
CHECK_DEADLOCK FALSE
