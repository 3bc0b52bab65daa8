SPECIFICATION FairSpec
INVARIANTS
    TypeOK
    DisabledBellIsCancellable
    MonitorShowsBell
PROPERTIES
    OpenServesDisabledBell
    PressRingsBell
