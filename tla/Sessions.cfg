SPECIFICATION Spec
CONSTANTS
    Sessions = {s1, s2}
    Tokens = {t1, t2, t3}
    Requests = {r1, r2}
SYMMETRY Symmetry
INVARIANTS
    TypeOK
    SerialRotation
PROPERTY RevocationSettles
