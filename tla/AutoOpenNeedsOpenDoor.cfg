SPECIFICATION Spec
CONSTANTS
    DutySteps = 1
    MarginTicks = 2
    MaxLate = 1
    CanCommands <- DriverCommands
PROPERTY
    AutoOpenNeedsOpenDoor
