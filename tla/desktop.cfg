CONSTANTS
    Reqs = {r1, r2}
    Calls = {c1}
    Beside = {r1}
    FirstId = n1
    Ids = {n1, n2}
    None = None
    GivesUp = {r1}
    Delay = TRUE
    MaxActions = 1
CONSTRAINT CallsOrRequests
CONSTRAINT InOrder
CONSTRAINT OneFailure
CHECK_DEADLOCK FALSE
SPECIFICATION FairSpec
INVARIANT MapsConsistent
INVARIANT NoDeadButton
INVARIANT QuietWhenCancelledEarly
INVARIANT NoticeMeansWaiting
PROPERTY ClickResolves
