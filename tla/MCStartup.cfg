SPECIFICATION Spec
CONSTANTS
    File <- MCFile
    Line <- MCLine
    BadTime = 0
    MaxLines = 3
    Bad <- MCBad
    Configs <- MCConfigs
    Timeouts = {0, 60}
INVARIANTS
    TypeOK
    SentIsWhatMatches
    OverlapIsHarmless
    ExitHasCause
