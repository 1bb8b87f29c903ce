SPECIFICATION Spec
CONSTANTS
    Source <- MCSource
    OfferedBatches <- MCOfferedBatches
    MaxClock = 1
    MaxCrashes = 1
INVARIANTS
    TypeOK
    Conservation
PROPERTIES
    OnlyDeliveredLeavesDisk
    SavedIsResent
    RefinesGateway
