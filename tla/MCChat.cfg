\* Three calls in every interleaving.
SPECIFICATION Spec
CONSTANTS
    ann = ann
    ben = ben
    k1 = k1
    Users = {ann, ben}
    Ids = {k1}
    Calls = {c1, c2, c3}
    Requests <- MCRequests
    Conversations <- MCConversations
    Messages <- MCMessages
INVARIANTS
    TypeOK
PROPERTIES
    OneConversation
    LogSpec
\* Every call runs once: a behaviour ends when all have answered.
CHECK_DEADLOCK FALSE
