\* Three decisions, rules that live for one step of a clock with two.
SPECIFICATION Spec
CONSTANTS
    d1 = d1  d2 = d2  d3 = d3
    Empty = Empty
    Matches <- MCMatches
    Deciders = {d1, d2, d3}
    Requests <- MCRequests
    TrustRuleLists <- MCTrustRuleLists
    SenderInfos <- MCSenderInfos
    Batches <- MCBatches
    NoRule = NoRule
    NoRequest = NoRequest
    Mixed = Mixed
    RuleTTL = 1
    MaxTime = 2
CONSTRAINT OneSubject
SYMMETRY Symmetry
INVARIANT NoSmuggling
INVARIANT RetryGranted
INVARIANT AnnouncedMade
PROPERTY RefreshKeepsScope
