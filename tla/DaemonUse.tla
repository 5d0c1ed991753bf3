------------------------------ MODULE DaemonUse ------------------------------
(***************************************************************************)
(* What src/src/signald_procmgmt.c promises to accounts that let the       *)
(* plugin handle signald: the daemon is started by the first of them that  *)
(* logs in and stopped by the last that closes, and at no other time.      *)
(***************************************************************************)
EXTENDS Naturals

CONSTANT Accounts

VARIABLES users,   \* the accounts that use the daemon
          starts,  \* how often it was started
          stops    \* how often it was stopped

vars == <<users, starts, stops>>

Init == users = {} /\ starts = 0 /\ stops = 0

Use(a) ==
  /\ a \notin users
  /\ users' = users \union {a}
  /\ starts' = IF users = {} THEN starts + 1 ELSE starts
  /\ UNCHANGED stops

Release(a) ==
  /\ a \in users
  /\ users' = users \ {a}
  /\ stops' = IF users' = {} THEN stops + 1 ELSE stops
  /\ UNCHANGED starts

Next == \E a \in Accounts : Use(a) \/ Release(a)

Spec == Init /\ [][Next]_vars
=============================================================================
