\* The poller's cache grows with the chain.
CONSTANTS
    MaxHeight = 6
    MaxReorgs = 2
    MaxReorgDepth = 2
    MaxCrashes = 1
    Cache = 2
SPECIFICATION Spec
INVARIANT CacheBounded
