\* Without reorganisations: the watcher implements the tracker of spec 4.2,
\* so it sends each transaction at most once, and it drains every confirmed lock.
CONSTANTS
    t1 = t1
    t2 = t2
    Tx <- MCTx
    MinConf = 1
    MaxHeight = 5
    MaxReorgs = 0
    MaxReorgDepth = 0
    MaxCrashes = 1
SPECIFICATION FairSpec
PROPERTY ImplementsLockTracker
PROPERTY PendingDrains
