CONSTANTS
    Reqs = {r1}
    Elsewhere = Elsewhere
    Buffer = 2
    MaxNoise = 1
CHECK_DEADLOCK FALSE
SPECIFICATION FairSpec
INVARIANT ExitTruthful
PROPERTY DeliveredExits
