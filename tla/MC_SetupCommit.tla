---------------------------- MODULE MC_SetupCommit ----------------------------
(* Two setups, or one, and a credential command that race.                   *)
EXTENDS SetupCommit

CONSTANTS alice, bob, c1, c2, c3

MCPrincipals == {alice, bob}
MCProcs == {c1, c2, c3}
MCSetups == {c1, c2}
=============================================================================
