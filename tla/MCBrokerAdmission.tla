--------------------------- MODULE MCBrokerAdmission ---------------------------
(* Two frontends that race for one broker.                                 *)
EXTENDS BrokerAdmission

CONSTANTS f1, f2

=============================================================================
