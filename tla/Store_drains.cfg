SPECIFICATION FairSpec
CONSTANTS
    Root = r
    Children = {c}
    Fields = {f, g}
    Edited = {f}
    Durable = {TRUE}
    Callers = {a}
    MaxWrites = 1
    MaxFaults = 2
    MaxTotal = 3
CHECK_DEADLOCK FALSE
PROPERTIES FlushEnds Drains
