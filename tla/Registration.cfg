SPECIFICATION RegistrationSpec
CONSTANTS
    c1 = c1
    c2 = c2
    n1 = n1
    m1 = m1
    Users = {u1, u2}
    Names = {n1, n2}
    Mails = {m1}
    Clients = {c1, c2}
    Calls = {r1, r2}
    body <- MCBody
    keyed = {c1}
INVARIANTS
    RegistrationTypeOK
    RetryIsSafe
PROPERTY NamesAreReleased
