--------------------------- MODULE MCSignaldSession ---------------------------
(* SignaldSession for TLC.  All parameters are given by the configurations.   *)
EXTENDS SignaldSession
=============================================================================
