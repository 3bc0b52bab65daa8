SPECIFICATION FairSpec
CONSTANTS
    PoolSize = 3
    Capacity = 3
    TimeoutTicks = 1
    MaxSteps = 2
INVARIANTS
    TypeOK
    NothingForgotten
    ResultsAreFinal
PROPERTIES
    PollOkMeansDone
    QuietDrains
