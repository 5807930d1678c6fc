SPECIFICATION Spec
CONSTANTS
    Peer = {1, 2}
    Key = {k1}
    Op = {"Insert", "Delete"}
    None = None
    LogicalMod = 2
    Durable = {1}
    Reclaiming = {1}
    Collecting = {1, 2}
    Members = {1, 2}
    Wall = {0, 1, 2}
    MaxWrites = 2
INVARIANTS IInv NewestWins Converged PullAdvances AckedIsDurable
PROPERTIES ImplementsStore
