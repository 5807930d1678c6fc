SPECIFICATION FairSpec
CONSTANTS
    Peer = {1, 2}
    Link = {{1, 2}}
    Durable = {1}
    Reclaiming = {2}
    Members = {1, 2}
    Quota <- OnceAndTwice
    MaxDelta = 1
    MaxWrites = 2
    MaxFaults = 1
    MaxHellos = 1
INVARIANTS SessionSound
PROPERTIES HealsUnlessTooFarBehind LowWaterCurrent
