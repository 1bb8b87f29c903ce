SPECIFICATION Spec
CONSTANTS
    Source <- MCSource
    OfferedBatches <- MCOfferedBatches
    Expiry = 2
    MaxClock = 4
INVARIANTS
    TypeOK
PROPERTIES
    RefinesOffsetStore
    StateReturns
