\* One address for which two requests may race, two ids for its account, and
\* three tokens: an exchange races another one, or a logout, and the save of a
\* profile races a deactivation or the save of another request.
CONSTANTS
    Emails = {e1}
    UserIds = {u1, u2}
    Tokens = {t1, t2, t3}
    Requests = {r1, r2}
    NoRow = NoRow
    NoToken = NoToken
SYMMETRY Symmetry
SPECIFICATION Spec
INVARIANTS
    TypeOK
PROPERTIES
    SpentForGood
    DeactivationHolds
    ImplementsLifecycle
