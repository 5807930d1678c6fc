SPECIFICATION ConnectingSpec
CONSTANTS
    Initiators = {i, j}
    MaxAttempts = 2
    MaxCalls = 2
    MaxBuffered = 1
    ChannelCap = 1
    Peers <- MCPeers
    Relayed <- MCRelayed
    Grants = {120}
    MaxSends = 2
    InboundCapacity = 1
    MaxTxns = 3
    MaxNonces = 2
    MaxRelays = 2
    MaxData = 1
    MaxFlying = 1
SYMMETRY InitiatorSymmetry
INVARIANTS RendezvousSound PairedRight Understood BoundAtServer  TurnSound
\* Both parts stop when their bounds are used up.
CHECK_DEADLOCK FALSE
