SPECIFICATION Spec
CONSTANTS
    Live = live
    Old = old
    MaxContents = 2
    MaxSize = 4
    BufSize = 3
    Orderly = TRUE
INVARIANTS
    TypeOK
    BehindOffsetIsSent
PROPERTIES
    EveryLineRead
    ImplementsLogReader
