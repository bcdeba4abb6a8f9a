\* The reorganisation branch of SubscribeNewHead is never taken.
CONSTANTS
    MaxHeight = 6
    MaxReorgs = 2
    MaxReorgDepth = 2
    MaxCrashes = 1
    Cache = 2
SPECIFICATION Spec
INVARIANT TypeOK
INVARIANT ReorgBranchDead
