CONSTANTS
    Users = {u1}
    Moderators = {}
    Conversations = {d1}
    Channels = {c1}
    Nonces = {k1}
    Requests = {r1, r2, r3}
    Workers = {w1, w2}
    MaxFiles = 1
    MaxPaths = 1
    MaxAttempts = 2
    MaxMessages = 2
    MaxFaults = 2
    Null = Null
SPECIFICATION Spec
SYMMETRY Symmetry
CHECK_DEADLOCK FALSE
CONSTRAINT Contention
INVARIANTS
    FilesOfRows
    AnnouncedOnce
PROPERTIES
    RecallIsFinal
    AttemptsNeverForgotten
