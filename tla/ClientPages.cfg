CONSTANTS
    Users = {u1}
    Orgs = {o1, o2}
    Pages = {"dashboard", "projects", "board", "payments"}
    Calls = {c1, c2}
    MaxChanges = 1
    NoUser = NoUser
    NoOrg = NoOrg
    NoRole = NoRole
    Idle = Idle
SYMMETRY Symmetry
SPECIFICATION PagesSpec
INVARIANTS
    PagesTypeOK
    RefusalsExplained
    ListIsCurrent
PROPERTIES
    SelectionRespected
