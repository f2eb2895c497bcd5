CONSTANTS
    o = o
    a = a
    c1 = c1
    c2 = c2
    c3 = c3
    x1 = x1
    Users = {o, a}
    Owner = o
    Admins = {}
    Channels = {c1, c2, c3}
    Roles = {x1}
    Everyone = Everyone
    Administrator = Administrator
    ManageChannels = ManageChannels
    ManageRoles = ManageChannels
    ManageServer = ManageChannels
    Bits <- MCBits
    Over <- MCOver
    MaxSaves = 1
    Requests = {r1, r2, r3}
    Null = Null
SPECIFICATION Spec
SYMMETRY Symmetry
CHECK_DEADLOCK FALSE
INVARIANTS
    TextChannelRemains
    PositionsDistinct
    SystemKeepsToText
PROPERTIES
    ChangedByMembers
