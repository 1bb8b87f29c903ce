SPECIFICATION Spec
CONSTANTS
    Live = live
    Old = old
    MaxContents = 1
    MaxSize = 4
    BufSize = 3
    Orderly = FALSE
INVARIANTS
    BrokenLineIsLeft
