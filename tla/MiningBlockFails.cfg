SPECIFICATION FairSpec

CONSTANTS
    b1 = b1
    b2 = b2
    Builds = {b1, b2}
    First <- MCFirst
    Last <- MCLast
    Workers = 2
    MaxGets = 2

INVARIANT BlockFailureTolerated

\* Pages are opened once; when they are all shown or closed nothing is left.
CHECK_DEADLOCK FALSE
