SPECIFICATION ThrottleSpec
CONSTANTS
    Keys = {k1, k2}
    Logins = {r1, r2}
    max_requests = 2
    window_seconds = 2
    max_login_attempts = 1
    lockout_seconds = 1
    cleanup_interval_seconds = 1
    max_keys = 1
INVARIANTS
    ThrottleTypeOK
    GuessBound
    RefusalIsHonest
PROPERTIES
    CleanupSparesCounting
    Relents
