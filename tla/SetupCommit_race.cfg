SPECIFICATION Spec
CONSTANTS
    alice = alice
    bob = bob
    c1 = c1
    c2 = c2
    c3 = c3
    Principals <- MCPrincipals
    Procs <- MCProcs
    Setups <- MCSetups
    MaxSecrets = 2
INVARIANTS
    SetupInv
    UndoneForGood
    AddsOneEntry
PROPERTIES
    ToldWorks
CHECK_DEADLOCK FALSE
