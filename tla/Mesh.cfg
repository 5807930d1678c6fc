SPECIFICATION MeshSpec
CONSTANTS
    Node = {1, 2, 3}
    Aborting = {2}
    MaxConns = 3
    MaxFaults = 1
    Window = 7
    DeltaPieces = 4
    MaxEvents = 1
    Interrupts = FALSE
    Peer = {owner, alice, bob}
    Owner = owner
    NoRole = "none"
CHECK_DEADLOCK FALSE
INVARIANTS   Correct
PROPERTIES Reconnects AbortLeavesAtMostSpawned  
