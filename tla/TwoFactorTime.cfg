SPECIFICATION Spec
CONSTANTS
    Requests = {r1}
    Challenges = {h1, h2}
    Totp = {2}
    Backup = {b1}
    Wrong = Wrong
    None = None
    MAX_ATTEMPTS = 2
    CHALLENGE_TTL = 5
    CODE_MEMORY = 4
    MaxClock = 5
SYMMETRY Symmetry
INVARIANT SerialCode
CHECK_DEADLOCK FALSE
