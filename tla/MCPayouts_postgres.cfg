\* PostgresBusinessRepository: four calls in any interleaving, any of them stopped.
SPECIFICATION Spec
CONSTANTS
    Backend = "postgres"
    p1 = p1
    p2 = p2
    Store = Store
    Momo = Momo
    k1 = k1
    Payments = {p1, p2}
    Shop = Store
    Pool = Momo
    Keys = {k1}
    Opening <- MCOpening
    Amount <- MCAmount
    Requests <- PostgresRequests
    Calls = {c1, c2, c3, c4}
    ProviderMayFail = TRUE
SYMMETRY CallSymmetry
INVARIANTS
    TypeOK
    RefundBooked
    PaidOutOnce
    SettlementBooked
\* Every call runs once: a behaviour ends when all have answered.
CHECK_DEADLOCK FALSE
