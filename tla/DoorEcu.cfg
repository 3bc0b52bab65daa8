SPECIFICATION Spec
CONSTANTS
    DutySteps = 2
    MarginTicks = 2
    MaxLate = 1
    CanCommands <- AllCommands
INVARIANTS
    TypeOK
    PinchedLeafNeverCloses
    ReportedDoorIsPhysical
    EstimateMatchesRamp
    DoorCloseStowsRamp
