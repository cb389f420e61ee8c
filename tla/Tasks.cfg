SPECIFICATION Spec
CONSTANTS
    Orgs = {o1, o2}
    ProjectIds = {p1, p2}
    TaskIds = {t1}
    Users = {u1}
    Ghosts = {g1}
    Statuses = {"TODO", "DONE"}
    DefaultStatus = "TODO"
    Requests = {r1, r2}
    NoUser = NoUser
    NoRow = NoRow
SYMMETRY Symmetry
INVARIANTS
    TypeOK
    TasksStayHome
PROPERTIES
    OnlyOwnTenantWrites
