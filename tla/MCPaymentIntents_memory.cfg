\* MemoryBusinessRepository: four calls in any interleaving.
SPECIFICATION Spec
CONSTANTS
    Backend = "memory"
    Ama = Ama
    Olu = Olu
    Store = Store
    k1 = k1
    Payers = {Ama, Olu}
    ShopOwner = Olu
    Shop = Store
    Keys = {k1}
    Opening <- MCOpening
    Requests <- MCRequests
    Calls = {c1, c2, c3, c4}
    MaxSpends = 1
SYMMETRY CallSymmetry
INVARIANTS
    PaidIsNotRefused
PROPERTIES
    LifeSpec
\* Every call runs once: a behaviour ends when all have answered.
CHECK_DEADLOCK FALSE
