SPECIFICATION Spec
CONSTANTS
    u1 = u1
    t1 = t1
    t2 = t2
    Users = {u1}
    Tokens = {t1, t2}
    Sessions = {s1}
    Requests = {r1, r2}
    subject <- MCSubject
    scope <- MCScope
    introspection_cache_ttl_seconds = 2
    introspection_negative_cache_ttl_seconds = 1
INVARIANTS
    TypeOK
    RevokeAllIsComplete
PROPERTY RevocationTakesHold
