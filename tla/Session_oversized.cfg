SPECIFICATION PushSpec
CONSTANTS
    Peer = {1, 2}
    Link = {{1, 2}}
    Durable = {}
    Reclaiming = {}
    Members = {1, 2}
    Quota <- OnceAndTwice
    MaxDelta = 1
    MaxWrites = 2
    MaxFaults = 0
    MaxHellos = 1
PROPERTIES SelfHeals
