--------------------------- MODULE MCSignaldGroups ---------------------------
(* SignaldGroups for TLC: two groups that share a stranger, and a buddy.     *)
EXTENDS SignaldGroups, TLC

CONSTANTS g1, g2, ann, bob

TwoGroups == {g1, g2}
OneGroup == {g2}
TwoPeople == {ann, bob}
OneBuddy == {bob}
MembersOf == g1 :> {ann, bob} @@ g2 :> {ann}
Nobody == {}
=============================================================================
