CONSTANTS
    Reqs = {r1}
    Elsewhere = Elsewhere
    Buffer = 2
    MaxNoise = 0
CHECK_DEADLOCK FALSE
SPECIFICATION FairSpec
PROPERTY EveryClientExits
