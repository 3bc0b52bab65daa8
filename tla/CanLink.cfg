SPECIFICATION FairSpec
CONSTANTS
    Commands <- MCCommands
    Views <- MCViews
    NoFrame = NoFrame
INVARIANT TypeOK
PROPERTIES ImplementsLossyLink DriverSeesDoor
