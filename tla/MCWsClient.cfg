\* Three connections of which two break, one broadcast.
SPECIFICATION FairSpec
CONSTANTS
    Conns = {1, 2, 3}
    Casts = {b1}
    Cap = 1
INVARIANTS
    WsTypeOK
    SendsAreOpen
PROPERTIES
    Reconnects
\* The last connection does not break: the system may come to rest.
CHECK_DEADLOCK FALSE
