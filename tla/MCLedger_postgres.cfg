\* PostgresRepository: three calls in any interleaving, any of them stopped.
SPECIFICATION Spec
CONSTANTS
    Backend = "postgres"
    DemoUser = DemoUser
    Amina = Amina
    Bob = Bob
    Carol = Carol
    Shop = Shop
    MoMoPool = MoMoPool
    EscrowPool = EscrowPool
    k1 = k1
    k2 = k2
    Users <- PgUsers
    Registered <- PgRegistered
    Keys <- MCKeys
    Requests <- PgRequests
    Calls = {c1, c2, c3}
SYMMETRY CallSymmetry
INVARIANTS
    KeyPostedOnce
    ReceiptIsPosted
    ReceiptAmount
    TrialBalance
PROPERTIES
    BookSpec
    OverdraftNeedsStaleRead
\* Every call runs once: a behaviour ends when all have answered.
CHECK_DEADLOCK FALSE
