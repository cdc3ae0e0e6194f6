------------------------- MODULE MC_GatewayCredential -------------------------
(* Two principals and one CLI process at a time beside the running gateway.   *)
EXTENDS GatewayCredential, TLC

CONSTANTS alice, bob, c1, r1, r2, s1, s2

MCPrincipals == {alice, bob}

OneProc == {c1}

MCRequests == {r1, r2}

MCSessionIds == {s1, s2}

MCSymmetry ==
    Permutations(MCPrincipals) \union Permutations(MCRequests) \union Permutations(MCSessionIds)
=============================================================================
