SPECIFICATION Spec
CONSTANTS
    Container <- MCContainer
    EventCount <- MCEventCount
    HasCritical <- MCHasCritical
    MaxItems = 3
    MaxSecurityEvents = 4
    IdleTimeout = 3
    IdleTimeoutForCritical = 1
    StartDelay = 1
    AgeCap = 7
INVARIANTS
    TypeOK
    OrdinaryLatency
    CriticalLatency
    BoundedBacklog
    FirstMessageAtOnce
PROPERTIES
    ItemsLeave
    RefinesBatchQueue
