SPECIFICATION Spec
CONSTANTS
    Requests = {r1, r2, r3}
    MaxActions = 9
SYMMETRY Alike
INVARIANTS
    TypeOK
    TablesAgree
    OncePerVersion
    ReplayFaithful
    ReplayOfOneGame
CHECK_DEADLOCK FALSE
