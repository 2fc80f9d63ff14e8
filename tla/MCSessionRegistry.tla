--------------------------- MODULE MCSessionRegistry ---------------------------
(* An instance of SessionRegistry for TLC.                                 *)
EXTENDS SessionRegistry, TLC

CONSTANTS n1, n2, u1, u2, s1, s2, s3

Symmetric == Permutations(Names) \cup Permutations(Users) \cup Permutations(Servers)
=============================================================================
