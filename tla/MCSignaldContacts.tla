-------------------------- MODULE MCSignaldContacts --------------------------
(* SignaldContacts for TLC: two people who may swap their numbers.            *)
EXTENDS SignaldContacts, TLC

CONSTANTS ann, bob, n1, n2

TwoPeople == {ann, bob}
TwoNumbers == {n1, n2}
Symmetry == Permutations(TwoPeople) \union Permutations(TwoNumbers)
=============================================================================
