\* A shallow reorganisation orphans a pending lock, which is still sent.
CONSTANTS
    t1 = t1
    t2 = t2
    Tx <- MCTx
    MinConf = 2
    MaxHeight = 5
    MaxReorgs = 1
    MaxReorgDepth = 1
    MaxCrashes = 0
SYMMETRY MCSymmetry
SPECIFICATION Spec
PROPERTY EmittedLockCanonical
