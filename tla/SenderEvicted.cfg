\* The same with nodes that drop what a reorg returns.
SPECIFICATION FairSpec
CONSTANTS
    j1 = j1
    j2 = j2
    Jobs = {j1, j2}
    MaxAttempts = 1
    MaxRows = 2
    MaxReplacements = 1
    MaxReorgs = 1
    PoolKeeps = FALSE
PROPERTIES
    Reconciles
