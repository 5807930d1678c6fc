SPECIFICATION StreamSpec
CONSTANTS
    Window = 4
    DeltaPieces = 4
    MaxEvents = 1
    Interrupts = TRUE
CHECK_DEADLOCK FALSE
INVARIANTS NeverDerails
