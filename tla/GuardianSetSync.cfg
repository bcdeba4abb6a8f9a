\* Guardian set delivery across restarts: three rotations, one RPC failure.
\* The system stops once rotations and failures are used up and every
\* goroutine waits.
CONSTANTS
    MaxIndex = 3
    MaxCrashes = 1
SPECIFICATION Spec
INVARIANT TypeOK
INVARIANT OneSendPerRun
CHECK_DEADLOCK FALSE
