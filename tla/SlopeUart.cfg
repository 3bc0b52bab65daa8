SPECIFICATION FairSpec
CONSTANTS
    SeqMod = 4
    RetryLimit = 2
    MaxGiveUps = 2
    LineFrames = 3
INVARIANT
    TypeOK
PROPERTIES
    ImplementsSlopeTx
    DuplicatesSuppressed
    RequestSucceeds
