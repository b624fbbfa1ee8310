SPECIFICATION Spec
CONSTANTS
    Requests = {r1, r2}
    Codes = {c1, c2}
    MAX_FAILED = 2
    MaxVersion = 6
    MaxPassword = 3
    MaxReset = 2
    MaxEnrolment = 2
    MaxEmail = 2
    MaxSessions = 1
SYMMETRY RequestSymmetry
INVARIANTS
    GuessesAreCounted
    BackupCodeSpentOnce
    ResetTokenUsedOnce
    VerifiedAddressIsProved
PROPERTIES
    GrantIsCurrent
    NothingIsUndone
