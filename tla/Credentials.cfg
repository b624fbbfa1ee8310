SPECIFICATION Spec
CONSTANTS
    Sessions = {s1, s2}
    Requests = {r1, r2}
INVARIANTS
    TypeOK
    OnlyRacersSurvive
PROPERTY NobodyWaitsForever
