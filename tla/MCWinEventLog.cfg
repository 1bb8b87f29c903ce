SPECIFICATION Spec
CONSTANTS
    Files = {f, g}
    EventLog = log
    Second = 2
    CrawlPeriod = 2
    DeadTime = 3
    MaxRead = 1
    MaxRecords = 2
    MaxTime = 8
INVARIANTS
    TypeOK
    RecordsAccounted
    SentTwiceAtMost
    LossesBounded
