CONSTANTS
    Versions = {v1, v2}
    BackendArgs = {"auto"}
    MaxFaults = 1
    MaxEdits = 1
SYMMETRY MCSymmetry
CONSTRAINT FaultAndEdit
SPECIFICATION Spec
INVARIANT NothingLost
INVARIANT RestoredExactly
INVARIANT StatusConverges
INVARIANT PlanExact
INVARIANT NoRegrab
