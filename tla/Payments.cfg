CONSTANTS
    Orgs = {o1, o2}
    PaymentIds = {p1, p2}
    ChargeIds = {c1, c2}
    RefundIds = {f1, f2}
    Amounts = {14, 15, 96}
    Limit = 100
    ChargeAnswers = {"pending", "completed", "failed"}
    RefundAnswers = {"refunded", "failed"}
    Requests = {r1, r2}
    NoRow = NoRow
SYMMETRY Symmetry
SPECIFICATION Spec
INVARIANTS
    TypeOK
    BooksAgree
PROPERTIES
    OnlyOwnRefunds
