\* Two requests of one user to two organizations; one endpoint that two
\* tables of rights guard, one that only RolesGuard does, one read.
CONSTANTS
    Users = {u1}
    Orgs = {o1, o2}
    Endpoints = {"deleteProject", "payments", "readTask"}
    Keys = {k1}
    Conns = {c1, c2}
    Requests = {r1, r2}
    MaxHits = 2
    MaxChanges = 1
    RateLimiting = TRUE
    AuditLogs = TRUE
    NoOrg = NoOrg
    NoRole = NoRole
    Idle = Idle
SYMMETRY Symmetry
SPECIFICATION Spec
INVARIANTS
    TypeOK
    AnswersJustified
    NoForeignPolicy
    CountersEnd
