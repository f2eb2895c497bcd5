CONSTANTS
    Users = {o, a, b}
    Owner = o
    Invs = {i1, i2}
    Codes = {c1}
    Requests = {r1, r2, r3, r4, r5}
    MaxUses = 1
    Null = Null
SPECIFICATION Spec
SYMMETRY Symmetry
CHECK_DEADLOCK FALSE
CONSTRAINT Contention
INVARIANTS
    LinkCountsAdmissions
    InvitationAdmitsOnce
    MembersAreTold
