SPECIFICATION Spec
CONSTANTS
    alice = alice
    bob = bob
    c1 = c1
    r1 = r1
    r2 = r2
    s1 = s1
    s2 = s2
    Principals <- MCPrincipals
    Trusted <- MCPrincipals
    Procs <- OneProc
    Requests <- MCRequests
    SessionIds <- MCSessionIds
    MaxSecrets = 2
    IdleMs = 1
    AbsoluteMs = 1
    MaxTime = 2
SYMMETRY MCSymmetry
INVARIANTS
    GatewayInv
PROPERTIES
    AccessIsRevocable
    LifetimeBounded
    NoResurrection
    DroppedForAReason
CHECK_DEADLOCK FALSE
