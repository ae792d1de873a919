\* Three calls in every interleaving.
SPECIFICATION Spec
CONSTANTS
    k1 = k1
    e1 = e1
    Keys = {k1}
    EventIds = {e1}
    Calls = {c1, c2, c3}
    Requests <- MCRequests
INVARIANTS
    TypeOK
    RailRecorded
PROPERTIES
    RetryIsFree
    BoardSpec
\* Every call runs once: a behaviour ends when all have answered.
CHECK_DEADLOCK FALSE
