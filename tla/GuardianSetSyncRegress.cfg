\* The processor's guardian set index never decreases.
CONSTANTS
    MaxIndex = 2
    MaxCrashes = 2
SPECIFICATION Spec
PROPERTY GuardianSetMonotonic
CHECK_DEADLOCK FALSE
