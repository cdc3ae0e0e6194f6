------------------------ MODULE MC_SidecarLifecycle ------------------------
(* Instances of SidecarLifecycle for TLC.                                  *)
EXTENDS SidecarLifecycle

CONSTANTS s1, s2

MCSidecars == {s1, s2}
=============================================================================
