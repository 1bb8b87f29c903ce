SPECIFICATION Spec
CONSTANTS
    log = log
    Source <- MCSource
    MaxLines = 2
    MaxItems = 2
    Expiry = 1
    MaxClock = 1
    MaxBlanks = 1
    MaxCrashes = 2
INVARIANTS
    TypeOK
    DurableCovered
    OnceUnlessRestarted
PROPERTIES
    DurableOffsetsGrow
    ImplementsDelivery
    EveryLineSettled
