\* Safety of the confirmation tracker with reorganisations and failures.
CONSTANTS
    t1 = t1
    t2 = t2
    Tx <- MCTx
    MinConf = 1
    MaxHeight = 6
    MaxReorgs = 1
    MaxReorgDepth = 1
    MaxCrashes = 1
SYMMETRY MCSymmetry
SPECIFICATION Spec
INVARIANT TypeOK
INVARIANT NoDuplicateChainLock
PROPERTY EmitOnlyConfirmed
