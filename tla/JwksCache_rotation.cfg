SPECIFICATION FairSpec
CONSTANTS
    k1 = k1
    k2 = k2
    r1 = r1
    r2 = r2
    f1 = f1
    f2 = f2
    Keys <- MCKeys
    Requests <- TwoRequests
    Fetches <- MCFetches
    FreshTicks = 1
    StaleTicks = 1
    TimeoutTicks = 1
    MaxVersion = 1
INVARIANTS
    JwksInv
PROPERTIES
    WithdrawnKeysExpire
    NoRollback
    RequestsAnswered
    KeysPickedUp
