\* The devnet guardian set bootstrap with one failing Qtum RPC, one lost
\* sendrawtransaction reply and room for two change outputs.
CONSTANTS
    DevnetNumGuardians = 2
    MaxOutputs = 3
    MaxRpcFailures = 1
    MaxLostReplies = 1
SPECIFICATION FairSpec
INVARIANT TypeOK
INVARIANT QtumFollowsEth
PROPERTY QtumEventuallyUpdated
