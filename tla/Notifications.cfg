\* Two sockets, two replicas of which one dies once.  Liveness, so no symmetry.
CONSTANTS
    Users = {u1, u2}
    Orgs = {o1}
    Sockets = {s1, s2}
    Jobs = {j1}
    Replicas = {p1, p2}
    MaxStalls = 1
    MaxCrashes = 1
    MaxPanel = 1
    None = None
SPECIFICATION CFairSpec
INVARIANTS
    TypeOK
    GatewayTidy
    OnlyKnownMembersHear
    BadgeCounts
PROPERTIES
    JobsSurvive
    NewsAreTheReaders
