CONSTANTS
    Users = {u1, u2, u3}
    Calls = {c1, c2}
    Sessions = {s1}
    NoUser = NoUser
    NoCall = NoCall
    NoSession = NoSession
SPECIFICATION Spec
SYMMETRY Symmetry
CONSTRAINT Contention
INVARIANTS
    ClaimsMatchActiveCalls
    OneActiveCallPerUser
    NoActiveCallBetweenBlocked
