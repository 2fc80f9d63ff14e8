----------------------------- MODULE MCRemoteBroker -----------------------------
(* Small instances of RemoteBroker: one session, and the connections that    *)
(* start it and contend for it.                                              *)
EXTENDS RemoteBroker

CONSTANTS f1, f2, s1

=============================================================================
