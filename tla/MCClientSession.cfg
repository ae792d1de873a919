\* Two requests of the app and the check at start-up, a login or a restart, and
\* logouts and revocations at any time.
SPECIFICATION FairSpec
CONSTANTS
    Reqs = {q1, q2}
    MaxStarts = 1
INVARIANTS
    TypeOK
    SingleUse
    RefusedIfRevoked
PROPERTIES
    EveryRequestEnds
