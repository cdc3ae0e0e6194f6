SPECIFICATION FairSpec
CONSTANTS
    c1 = c1
    c2 = c2
    c3 = c3
    Connections <- MCConnections
    MaxInFlight = 2
INVARIANTS
    ServerInv
    HeldForAReason
PROPERTIES
    ServiceIsBounded
    EveryoneIsAnswered
    UpstreamLetGo
