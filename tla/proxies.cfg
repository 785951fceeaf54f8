CONSTANTS
    Sockets = {a}
    Instances = {i1, i2, i3}
    None = None
    MaxQueue = 2
CHECK_DEADLOCK FALSE
SPECIFICATION FairSpec
INVARIANT EntriesLive
INVARIANT EventsBalanced
PROPERTY ShutdownEndsAll
