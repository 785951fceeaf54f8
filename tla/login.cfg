CONSTANTS
    t1 = t1  t2 = t2  p1 = p1  p2 = p2  p3 = p3
    Tokens = {t1, t2}
    Posts = {p1, p2, p3}
    TokenOf <- MCTokenOf
    Expiry = 2
    MaxTime = 4
    MaxRuns = 2
CHECK_DEADLOCK FALSE
SPECIFICATION LoginSpec
INVARIANT NoReplayInWindow
