--------------------------- MODULE MC_LoginLimiter ---------------------------
(* Three attempts in flight, two source addresses, windows of three ticks.   *)
EXTENDS LoginLimiter, TLC

CONSTANTS a1, a2, a3, loopback, other

MCAttempts == {a1, a2, a3}

MCSources == {loopback, other}

Loopback == {loopback}

MCSymmetry == Permutations(MCAttempts)
=============================================================================
