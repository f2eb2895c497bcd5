CONSTANTS
    Users = {1, 2, 3, 4}
    LastUuid = 4
    Keys = {1, 2, 3, 4}
    Hash <- Crossed
    Txns = {t1, t2, t3}
    NoTxn = NoTxn
SPECIFICATION LockFairSpec
INVARIANTS
    CirclesCollide
PROPERTIES
    OneLockPerPair
    WaitersGetIn
