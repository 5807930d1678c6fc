SPECIFICATION Spec
CONSTANTS
    Scopes = {s, t}
    Busy = {s}
    MaxWrites = 2
    MaxOpens = 2
    MaxFaults = 1
INVARIANTS ScopeSound
 
CHECK_DEADLOCK FALSE
