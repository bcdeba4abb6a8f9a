\* The Qtum submission goroutine ends once a call succeeds.
CONSTANTS
    DevnetNumGuardians = 2
    MaxOutputs = 3
    MaxRpcFailures = 1
    MaxLostReplies = 1
SPECIFICATION FairSpec
PROPERTY SubmitterTerminates
