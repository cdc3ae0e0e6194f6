-------------------------- MODULE MC_CredentialStore --------------------------
(* Three CLI processes racing over two principals.                           *)
EXTENDS CredentialStore, TLC

CONSTANTS alice, bob, c1, c2, c3

MCPrincipals == {alice, bob}

MCProcs == {c1, c2, c3}

Pair == {c1, c2}

MCSymmetry == Permutations(MCPrincipals) \union Permutations(MCProcs)
=============================================================================
