SPECIFICATION FairSpec
CONSTANTS
    Cmds = {0, 4}
    SeqSize = 3
    RetryLimit = 1
    BufferSize = 8
    Cut = 2
    MaxFaults = 1
    MaxRestarts = 1
INVARIANT TypeOK
PROPERTIES AckMeansDelivered DeliveredOnce RequestReaches
