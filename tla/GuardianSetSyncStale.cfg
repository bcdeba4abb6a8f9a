\* Once rotations stop, the processor eventually holds the chain's set.
CONSTANTS
    MaxIndex = 1
    MaxCrashes = 1
SPECIFICATION FairSpec
PROPERTY GuardianSetEventuallyCurrent
CHECK_DEADLOCK FALSE
