\* Two unlocks, two lives of the keyring: the second life reuses the paths.
SPECIFICATION FairSpec
CONSTANTS
    Unlocks = {u1, u2}
    MaxLives = 2
INVARIANT CallbackOwned
INVARIANT NoLeakedCallback
PROPERTY UnlockCompletes
CHECK_DEADLOCK FALSE
