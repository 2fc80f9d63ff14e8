---------------------------- MODULE MCDesktopRuntime ---------------------------
(* Instances of DesktopRuntime for TLC.                                    *)
EXTENDS DesktopRuntime, TLC

CONSTANTS c1, c2, p1, p2, a1, a2, k1, k2

Symmetric == Permutations(Callers) \cup Permutations(Panes) \cup Permutations(Clients)
=============================================================================
