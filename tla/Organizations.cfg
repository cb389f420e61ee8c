\* Two requests at a time over two organizations and three memberships.
CONSTANTS
    Users = {u1, u2}
    OrgIds = {o1, o2}
    MemberIds = {m1, m2, m3}
    Slugs = {s1, s2}
    ADMIN = ADMIN
    Roles = {ADMIN, VIEWER}
    Requests = {r1, r2}
    NoUser = NoUser
    NoRow = NoRow
SYMMETRY Symmetry
SPECIFICATION Spec
INVARIANTS
    TypeOK
    MembershipsConsistent
PROPERTIES
    OnlyAdminsWrite
    OrphanedForever
