SPECIFICATION Spec
CONSTANTS
    Root = r
    Children = {c}
    Fields = {f, g}
    Edited = {f}
    Durable = {TRUE, FALSE}
    Callers = {a, b}
    MaxWrites = 3
    MaxFaults = 1
    MaxTotal = 3
CHECK_DEADLOCK FALSE
SYMMETRY CallerSymmetry
INVARIANTS StoreSound  NothingLost
