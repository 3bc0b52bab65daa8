SPECIFICATION FairSpec
CONSTANTS
    DutySteps = 1
    MarginTicks = 1
    MaxLate = 0
    CanCommands <- LiveCommands
PROPERTIES
    JamReopensDoor
    DoorOpenRequestServed
    RampCommandResolves
