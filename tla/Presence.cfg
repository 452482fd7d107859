SPECIFICATION Spec
CONSTANTS
    u1 = u1
    Users = {u1}
    Rooms = {r1, r2}
    Connections = {c1, c2}
    UserOf <- MCUserOf
    MaxCount = 3
SYMMETRY Alike
INVARIANTS
    TypeOK
    OnlineWhileConnected
    CountsExact
    Announced
CHECK_DEADLOCK FALSE
