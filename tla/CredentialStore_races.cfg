SPECIFICATION StoreSpec
CONSTANTS
    alice = alice
    bob = bob
    c1 = c1
    c2 = c2
    c3 = c3
    Principals <- MCPrincipals
    Procs <- MCProcs
    MaxSecrets = 3
SYMMETRY MCSymmetry
INVARIANTS
    StoreInv
    FirstIssueKept
    RevocationDurable
PROPERTIES
    FileStaysWhole
CHECK_DEADLOCK FALSE
