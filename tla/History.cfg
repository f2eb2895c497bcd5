CONSTANTS
    Users = {u1}
    Conversations = {d1}
    Channels = {c1}
    Requests = {r1, r2}
    Limit = 1
    MaxMessages = 3
    MaxUntold = 1
    Null = Null
SPECIFICATION Spec
SYMMETRY Symmetry
CONSTRAINT Focus
CHECK_DEADLOCK FALSE
INVARIANTS
    ScrollIsComplete
    RecalledIsNotShown
    CursorIsNewestMark
    ToldAsStored
