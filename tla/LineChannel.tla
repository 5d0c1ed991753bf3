----------------------------- MODULE LineChannel -----------------------------
(***************************************************************************)
(* What the read side of src/src/comms.c promises to the rest of the       *)
(* plugin: signald writes lines, and the plugin is handed those lines,     *)
(* whole, once each and in the order they were written.  The channel may   *)
(* fail, but only at a line that exceeds its capacity, and promises        *)
(* nothing from then on.                                                   *)
(*                                                                         *)
(* A line is known by its length only.  The k-th line, of length l, is the *)
(* sequence of the bytes <<k, 1>>, ..., <<k, l>>; the newline that ends it *)
(* is not part of it.                                                      *)
(***************************************************************************)
EXTENDS Naturals, Sequences

CONSTANTS Capacity,   \* the length of the longest line that is delivered for sure
          LineLens,   \* the lengths a line may have
          MaxLines    \* bound: number of lines written

VARIABLES sent,       \* lengths of the lines written so far
          received,   \* lines handed over so far, as sequences of bytes
          failed      \* has a line been too long?

vars == <<sent, received, failed>>

Line(k, l) == [i \in 1..l |-> <<k, i>>]

Init == sent = <<>> /\ received = <<>> /\ failed = FALSE

Write(l) ==
  /\ Len(sent) < MaxLines
  /\ sent' = Append(sent, l)
  /\ UNCHANGED <<received, failed>>

\* The line to be delivered next is the one after those delivered.
Due == Len(received) + 1

Deliver ==
  /\ ~failed /\ Due <= Len(sent)
  /\ received' = Append(received, Line(Due, sent[Due]))
  /\ UNCHANGED <<sent, failed>>

Fail ==
  /\ ~failed /\ Due <= Len(sent) /\ sent[Due] > Capacity
  /\ failed' = TRUE
  /\ UNCHANGED <<sent, received>>

\* After a failure anything may be handed over.
Garbled == failed /\ UNCHANGED <<sent, failed>>

Next == Deliver \/ Fail \/ Garbled \/ \E l \in LineLens : Write(l)

Spec == Init /\ [][Next]_vars
=============================================================================
