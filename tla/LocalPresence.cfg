CONSTANTS
    Tabs = {s1, s2, s3}
    Saved = {"none", "online", "dnd"}
    Chosen = {"none", "idle", "offline"}
SPECIFICATION LocalSpec
CHECK_DEADLOCK FALSE
INVARIANTS
    DepartureIsWatched
    OnlineIsWatched
