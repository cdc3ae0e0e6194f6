SPECIFICATION Spec
CONSTANTS
    k1 = k1
    k2 = k2
    r1 = r1
    r2 = r2
    f1 = f1
    f2 = f2
    Keys <- MCKeys
    Requests <- OneRequest
    Fetches <- MCFetches
    FreshTicks = 1
    StaleTicks = 1
    TimeoutTicks = 1
    MaxVersion = 1
PROPERTIES
    StaleKeysReused
