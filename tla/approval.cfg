CONSTANTS
    r1 = r1  r2 = r2  r3 = r3  r4 = r4  r5 = r5  r6 = r6  r7 = r7  r8 = r8
    c1 = c1  c2 = c2  s1 = s1  s2 = s2
    i1 = i1  i2 = i2  i3 = i3  e1 = e1  sc1 = sc1  sc2 = sc2  sc3 = sc3
    Reqs = {r1, r2, r3, r4, r5, r6, r7, r8}
    Callers = {c1, c2}
    Senders = {s1, s2}
    Items = {i1, i2, i3}
    Exes = {e1}
    NoExe = NoExe
    Scopes = {AnyScope, sc1, sc2, sc3}
    AnyScope = AnyScope
    Info <- MCInfo
    SenderOf <- MCSenderOf
    ExeOf <- MCExeOf
    ScopeOf <- MCScopeOf
    InScope <- MCInScope
    Empty = NoExe
    Matches <- MCMatches
    Window = 1
    RuleTTL = 0
    HistoryMax = 1
    MaxTime = 2
SPECIFICATION Spec
CONSTRAINT OneGroup
INVARIANT TypeOK
INVARIANT GrantsJustified
INVARIANT StandingPermissionsJustified
INVARIANT Lifecycle
INVARIANT HistoryTruthful
PROPERTY NoReversal
