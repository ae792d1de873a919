CONSTANTS
    a = a
    b = b
    Convs <- MCConvs
    Msgs <- MCMsgs
    Listed = {a}
    Reqs = {r1, r2, r3}
    MaxLists = 1
    NoConv = NoConv
    NoMsg = NoMsg
SPECIFICATION Spec
INVARIANTS TypeOK OfActive CaughtUp
SYMMETRY Symmetry
CHECK_DEADLOCK FALSE
