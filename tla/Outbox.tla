-------------------------------- MODULE Outbox --------------------------------
(***************************************************************************)
(* What src/src/message.c promises about the messages the user sends: each *)
(* is shown at most once, in the conversation it was sent to, either when  *)
(* it is sent or later as an echo.  An echo comes with an acknowledgement  *)
(* from signald, not necessarily its own, and one at a time; echoes are in *)
(* the order of sending.  What was shown stays where it is.                *)
(***************************************************************************)
EXTENDS Naturals, Sequences

CONSTANT Convs   \* the conversations

VARIABLES to,     \* per message sent: its conversation
          lines,  \* number of lines shown so far, those of others included
          shown,  \* the messages sent that are shown, each with its line
          acked   \* the messages acknowledged as delivered

vars == <<to, lines, shown, acked>>

Init == to = <<>> /\ lines = 0 /\ shown = {} /\ acked = {}

ShowOther == lines' = lines + 1 /\ UNCHANGED <<to, shown, acked>>

\* The message is shown in the next line.
Show(id, conv, echo) ==
  /\ \A s \in shown : s.id # id
  /\ lines' = lines + 1
  /\ shown' = shown \union {[line |-> lines + 1, id |-> id, conv |-> conv, echo |-> echo]}

Send(c) ==
  /\ to' = Append(to, c)
  /\ \/ Show(Len(to) + 1, c, FALSE)
     \/ UNCHANGED <<lines, shown>>
  /\ UNCHANGED acked

Echo(id) ==
  /\ \A s \in shown : s.echo => s.id < id
  /\ Show(id, to[id], TRUE)

Acknowledge(id) ==
  /\ id \notin acked /\ acked' = acked \union {id}
  /\ \/ \E waiting \in DOMAIN to : Echo(waiting)
     \/ UNCHANGED <<lines, shown>>
  /\ UNCHANGED to

Next ==
  \/ ShowOther
  \/ \E c \in Convs : Send(c)
  \/ \E id \in DOMAIN to : Acknowledge(id)

Spec == Init /\ [][Next]_vars
=============================================================================
