\* One request.
CONSTANTS
    Users = {u1}
    Orgs = {o1}
    Endpoints = {"readTask"}
    Keys = {k1}
    Conns = {c1, c2}
    Requests = {r1}
    MaxHits = 2
    MaxChanges = 1
    RateLimiting = TRUE
    AuditLogs = TRUE
    NoOrg = NoOrg
    NoRole = NoRole
    Idle = Idle
SYMMETRY Symmetry
SPECIFICATION Spec
INVARIANTS
    RowSecurityInForce
