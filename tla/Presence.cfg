CONSTANTS
    Instances = {i1, i2}
    Sockets = {s1, s2}
    Grace = 1
    SweepEvery = 1
    Ttl = 1
    Saved = "auto"
    Chosen = {"idle"}
SPECIFICATION Spec
SYMMETRY Symmetry
CONSTRAINT TwoTabs
INVARIANTS
    ConnectedIsNotOffline
    ManualWins
    NobodyForgotten
    CrashedSocketsAreFound
