\* A fill against two writers, or three writers, over two organizations and one
\* project id.
CONSTANTS
    Orgs = {o1, o2}
    ProjectIds = {p1}
    Names = {n1, n2}
    Requests = {r1, r2, r3}
    NoRow = NoRow
    Miss = Miss
SPECIFICATION Spec
SYMMETRY Symmetry
INVARIANTS
    TypeOK
    TenantsStayApart
    StaleOnlyUntilInvalidated
PROPERTIES
    StalenessExplained
