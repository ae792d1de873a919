\* PostgresBusinessRepository: two refunds of one payment.
SPECIFICATION Spec
CONSTANTS
    Backend = "postgres"
    p1 = p1
    p2 = p2
    Store = Store
    Momo = Momo
    k1 = k1
    Payments = {p1, p2}
    Shop = Store
    Pool = Momo
    Keys = {k1}
    Opening <- MCOpening
    Amount <- MCAmount
    Requests <- RefundRequests
    Calls = {c1, c2}
    ProviderMayFail = FALSE
SYMMETRY CallSymmetry
INVARIANTS
    NoOverRefund
\* Every call runs once: a behaviour ends when all have answered.
CHECK_DEADLOCK FALSE
