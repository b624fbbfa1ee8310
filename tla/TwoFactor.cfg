SPECIFICATION Spec
CONSTANTS
    Requests = {r1, r2}
    Challenges = {h1, h2}
    Totp = {1}
    Backup = {b1}
    Wrong = Wrong
    None = None
    MAX_ATTEMPTS = 2
    CHALLENGE_TTL = 1
    CODE_MEMORY = 4
    MaxClock = 0
SYMMETRY Symmetry
INVARIANTS
    TypeOK
    SerialChallenge
PROPERTY GoneStaysGone
CHECK_DEADLOCK FALSE
