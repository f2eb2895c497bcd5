CONSTANTS
    u = u
    m = m
    k1 = k1
    k2 = k2
    k3 = k3
    Users = {u, m}
    Sockets = {k1, k2, k3}
    Owner <- MCOwner
    Servers = {s1, s2}
    Channels = {c1}
    Requests = {r1, r2, r3}
    MaxFaults = 1
    Null = Null
SPECIFICATION Spec
SYMMETRY Symmetry
CHECK_DEADLOCK FALSE
CONSTRAINT Contention
INVARIANTS
    StatesAreIndexed
    GoneFromVoice
