SPECIFICATION Spec
CONSTANTS
    Requests = {r1, r2}
    Replicas = {b1}
    Roles = {x1, x2, x3}
    Names = {admin, n1}
    Permissions = {admin, p1}
    Users = {u1}
    Admin = admin
    Initial = u1
    None = None
SYMMETRY Symmetry
INVARIANTS
    TypeOK
    SeedRepairs
PROPERTIES
    SerialGrants
    AdminIsKept
