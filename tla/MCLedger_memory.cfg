\* MemoryRepository: four calls in any interleaving.
SPECIFICATION Spec
CONSTANTS
    Backend = "memory"
    DemoUser = DemoUser
    Amina = Amina
    Bob = Bob
    Carol = Carol
    Shop = Shop
    MoMoPool = MoMoPool
    EscrowPool = EscrowPool
    k1 = k1
    k2 = k2
    Users <- MCUsers
    Registered <- MCRegistered
    Keys <- MCKeys
    Requests <- MCRequests
    Calls = {c1, c2, c3, c4}
SYMMETRY CallSymmetry
INVARIANTS
    TypeOK
    OneAccountPerUser
    MobileMoneyReconciles
    ReversalCancels
\* Every call runs once: a behaviour ends when all have answered.
CHECK_DEADLOCK FALSE
