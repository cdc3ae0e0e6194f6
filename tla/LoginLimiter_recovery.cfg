SPECIFICATION FairLimiterSpec
CONSTANTS
    a1 = a1
    a2 = a2
    a3 = a3
    loopback = loopback
    other = other
    Attempts <- MCAttempts
    Sources <- Loopback
    SourceMax = 2
    SourceWindow = 3
    GlobalMax = 3
    GlobalWindow = 3
    MaxDelay = 2
    FailureCap = 1
INVARIANTS
    LimiterInv
PROPERTIES
    RecoversAutomatically
