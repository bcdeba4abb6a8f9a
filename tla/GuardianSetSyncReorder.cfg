\* The set a restarted Run re-fetches is the last one the processor gets.
CONSTANTS
    MaxIndex = 2
    MaxCrashes = 1
SPECIFICATION Spec
INVARIANT SetQOrderedByRun
CHECK_DEADLOCK FALSE
