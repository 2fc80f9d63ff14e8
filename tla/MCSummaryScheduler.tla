--------------------------- MODULE MCSummaryScheduler ---------------------------
(* Two projects between which the user goes back and forth.                *)
EXTENDS SummaryScheduler, TLC

CONSTANTS pA, pB

Symmetric == Permutations(Projects)

=============================================================================
