---------------------------- MODULE MC_JwksCache ----------------------------
(* Instances of JwksCache for TLC.                                         *)
EXTENDS JwksCache

CONSTANTS k1, k2, r1, r2, f1, f2

MCKeys == {k1, k2}
OneRequest == {r1}
TwoRequests == {r1, r2}
MCFetches == {f1, f2}
=============================================================================
