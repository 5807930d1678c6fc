SPECIFICATION FairSpec
CONSTANTS
    Peer = {1, 2, 3}
    Owner = 1
    Caller = {1, 2}
    Offers = {"Admin"}
    Revoked = "Revoked"
    Reclaiming = {2}
    MayLeave = {1}
    MaxLinks = 2
    MaxDrops = 1
    MaxFrames = 2
    MaxStamp = 2
CHECK_DEADLOCK FALSE
PROPERTIES MembersMeet
