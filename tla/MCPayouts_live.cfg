\* MemoryBusinessRepository: three calls, every goroutine that can run is run.
SPECIFICATION FairSpec
CONSTANTS
    Backend = "memory"
    p1 = p1
    p2 = p2
    Store = Store
    Momo = Momo
    k1 = k1
    Payments = {p1, p2}
    Shop = Store
    Pool = Momo
    Keys = {k1}
    Opening <- MCOpening
    Amount <- MCAmount
    Requests <- LiveRequests
    Calls = {c1, c2, c3}
    ProviderMayFail = TRUE
INVARIANTS
    NoOverRefund
PROPERTIES
    EveryCallAnswered
    NothingLeftOpen
\* Every call runs once: a behaviour ends when all have answered.
CHECK_DEADLOCK FALSE
