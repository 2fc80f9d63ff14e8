------------------------ MODULE MCRemoteSessionManager ------------------------
(* One session, and one or two command threads.                            *)
EXTENDS RemoteSessionManager, TLC

CONSTANTS c1, c2, s1

Symmetric == Permutations(Callers)

=============================================================================
