SPECIFICATION Spec
CONSTANTS
    Users = {u1, u2}
    Flows = {l1, l2}
    Sessions = {s1, s2}
    Requests = {r1, r2}
    MaxPending = 1
SYMMETRY Symmetry
INVARIANTS
    TypeOK
    LoginIsEarned
CHECK_DEADLOCK FALSE
