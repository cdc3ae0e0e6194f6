SPECIFICATION StoreSpec
CONSTANTS
    alice = alice
    bob = bob
    c1 = c1
    c2 = c2
    c3 = c3
    Principals <- MCPrincipals
    Procs <- Pair
    MaxSecrets = 3
PROPERTIES
    RevokedStaysRevoked
CHECK_DEADLOCK FALSE
