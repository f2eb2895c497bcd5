CONSTANTS
    Users = {u1, u2}
    Calls = {c1}
    Sessions = {s1, s2}
    NoUser = NoUser
    NoCall = NoCall
    NoSession = NoSession
SPECIFICATION FairSpec
INVARIANTS
    FinishedCallsHaveCleanup
    OneMediaSession
PROPERTIES
    ActiveOnlyOnce
    VersionCountsUpdates
    RingingIsResolved
