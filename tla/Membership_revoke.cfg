SPECIFICATION Spec
CONSTANTS
    Peer = {1, 2, 3}
    Owner = 1
    Caller = {1, 2}
    Offers = {"Admin", "Revoked"}
    Revoked = "Revoked"
    Reclaiming = {}
    MayLeave = {}
    MaxLinks = 1
    MaxDrops = 1
    MaxFrames = 3
    MaxStamp = 3
CHECK_DEADLOCK FALSE
INVARIANTS MembershipSound
PROPERTIES RevocationHolds
