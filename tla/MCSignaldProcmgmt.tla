-------------------------- MODULE MCSignaldProcmgmt --------------------------
(* SignaldProcmgmt for TLC: three accounts and the daemon started up to three *)
(* times.                                                                     *)
EXTENDS SignaldProcmgmt

CONSTANTS a1, a2, a3

ThreeAccounts == {a1, a2, a3}
TwoManaged == {a1, a2}
=============================================================================
