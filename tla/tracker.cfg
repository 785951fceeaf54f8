CONSTANTS
    r1 = r1  r2 = r2  r3 = r3  r4 = r4  s1 = s1  s2 = s2
    Reqs = {r1, r2, r3, r4}
    Senders = {s1, s2}
    SenderOf <- MCSenderOf
CHECK_DEADLOCK FALSE
SPECIFICATION FairTrackerSpec
INVARIANT TrackedWhileInProgress
INVARIANT NoLostDisconnect
INVARIANT NoCrossCancel
PROPERTY DisconnectCancels
