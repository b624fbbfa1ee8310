SPECIFICATION Spec
CONSTANTS
    Sessions = {s1}
    Tokens = {t1, t2}
    Requests = {r1}
SYMMETRY Symmetry
INVARIANT ReplayRevokes
