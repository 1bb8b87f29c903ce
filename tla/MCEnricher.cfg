SPECIFICATION Spec
CONSTANTS
    Ip <- MCIp
    Name <- MCName
    MapId = {m1, m2, m3}
    Nil = Nil
    MaxItems = 2
    MaxAnswers = 2
    Caches <- MCCaches
    Internal <- MCInternal
INVARIANTS
    BuildTypeOK
    NamesAccounted
    NamesOfOneCache
PROPERTIES
    NamesLeave
