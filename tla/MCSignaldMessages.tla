-------------------------- MODULE MCSignaldMessages --------------------------
(* SignaldMessages for TLC: the conversation with one contact and the one of  *)
(* a group that the contact is a member of.                                   *)
EXTENDS SignaldMessages

CONSTANTS alice, team

OneContact == {alice}
OneGroup == {team}
=============================================================================
