---------------------------- MODULE SignaldComms ----------------------------
(***************************************************************************)
(* The read side of src/src/comms.c: signald_read_cb assembles newline     *)
(* delimited messages byte by byte in the fixed buffer sa->input_buffer,   *)
(* which persists between two runs of the callback, and hands each one to  *)
(* signald_parse_input.  signald_close (login.c) runs the callback a last  *)
(* time, with blocking reads, before it frees the account.                 *)
(*                                                                         *)
(* The bytes of a line are <<line, offset>>, so that a message assembled   *)
(* from two lines, or from a part of one, is distinguishable from a line.  *)
(***************************************************************************)
EXTENDS Naturals, Sequences

CONSTANTS BufSize,    \* SIGNALD_INPUT_BUFSIZE
          LineLens,   \* the lengths, without the newline, of signald's lines
          MaxLines    \* bound: number of lines signald writes

ASSUME BufSizeAssumption == BufSize \in Nat /\ BufSize >= 2
ASSUME LineLensAssumption == LineLens \subseteq Nat
ASSUME MaxLinesAssumption == MaxLines \in Nat

VARIABLES
  sent,        \* lengths of the lines signald has written
  link,        \* signald's end of the socket: "up", or how it went away
  cur, off,    \* wire position: off bytes of line cur have been received
  buffer,      \* input_buffer[0 .. input_buffer_position - 1]
  top,         \* the highest index of input_buffer ever written (history)
  cb,          \* where signald_read_cb is: "idle", at its "first" recv or at a later one
  dispatched,  \* messages given to signald_parse_input (history)
  error,       \* purple_connection_error was called: a disconnect is scheduled
  overflowed,  \* a message exceeded the buffer (history)
  phase        \* of the account: "open", "closing" (last read) or "closed"

daemonVars == <<sent, link>>
wireVars   == <<cur, off>>
vars == <<sent, link, cur, off, buffer, top, cb, dispatched, error, overflowed, phase>>

LineBytes(k, l) == [i \in 1..l |-> <<k, i>>]

\* Between two recv calls input_buffer has room for a byte and the terminator.
TypeOK ==
  /\ sent \in Seq(LineLens)
  /\ link \in {"up", "down", "torn", "reset"}
  /\ cur \in Nat \ {0} /\ off \in Nat
  /\ buffer \in Seq(Nat \X Nat) /\ Len(buffer) + 2 <= BufSize
  /\ top \in Nat
  /\ cb \in {"idle", "first", "more"}
  /\ dispatched \in Seq(Seq(Nat \X Nat))
  /\ error \in BOOLEAN /\ overflowed \in BOOLEAN
  /\ phase \in {"open", "closing", "closed"}

Init ==
  /\ sent = <<>> /\ link = "up"
  /\ cur = 1 /\ off = 0
  /\ buffer = <<>> /\ top = 0
  /\ cb = "idle"
  /\ dispatched = <<>>
  /\ error = FALSE /\ overflowed = FALSE
  /\ phase = "open"

-----------------------------------------------------------------------------
(* signald and the kernel.                                                 *)

DaemonWrite(l) ==
  /\ link = "up" /\ Len(sent) < MaxLines
  /\ sent' = Append(sent, l)
  /\ UNCHANGED <<link, wireVars, buffer, top, cb, dispatched, error, overflowed, phase>>

\* signald goes away: after its last line ("down"), before the newline of its
\* last line ("torn"), or with requests unread, which the plugin's next recv
\* reports once as ECONNRESET ("reset").
DaemonHangup(how) ==
  /\ link = "up"
  /\ how = "torn" => (cur <= Len(sent))
  /\ link' = how
  /\ UNCHANGED <<sent, wireVars, buffer, top, cb, dispatched, error, overflowed, phase>>

CharAvailable == cur <= Len(sent) /\ off < sent[cur]

NewlineAvailable ==
  /\ cur <= Len(sent) /\ off = sent[cur]
  /\ ~(link = "torn" /\ cur = Len(sent))

Drained == ~CharAvailable /\ ~NewlineAvailable

-----------------------------------------------------------------------------
(* signald_read_cb.  A return ends the last read of signald_close too.     *)

Return ==
  /\ cb' = "idle"
  /\ phase' = IF phase = "closing" THEN "closed" ELSE phase

\* The main loop sees the socket readable (data or end of file).
ReadCb ==
  /\ phase = "open" /\ cb = "idle"
  /\ ~Drained \/ link # "up"
  /\ cb' = "first"
  /\ UNCHANGED <<daemonVars, wireVars, buffer, top, dispatched, error, overflowed, phase>>

\* A mutant of Full, off by one: no room is kept for the terminator.
FullWithoutTerminator(n) == n = BufSize

\* Is the buffer exhausted with n bytes in it?
Full(n) == n + 1 = BufSize

\* A byte other than newline is received and there is room for another one.
RecvChar ==
  /\ cb # "idle" /\ CharAvailable
  /\ ~Full(Len(buffer) + 1)
  /\ buffer' = Append(buffer, <<cur, off + 1>>)
  /\ top' = IF Len(buffer) > top THEN Len(buffer) ELSE top
  /\ off' = off + 1
  /\ cb' = "more"
  /\ UNCHANGED <<daemonVars, cur, dispatched, error, overflowed, phase>>

\* A mutant of RecvOverflow: the message is cut and nobody is told.
RecvOverflowSilent ==
  /\ cb # "idle" /\ CharAvailable
  /\ Full(Len(buffer) + 1)
  /\ buffer' = <<>> /\ overflowed' = TRUE
  /\ top' = IF Len(buffer) > top THEN Len(buffer) ELSE top
  /\ off' = off + 1
  /\ Return
  /\ UNCHANGED <<daemonVars, cur, dispatched, error>>

\* A byte other than newline fills the buffer.
RecvOverflow ==
  /\ cb # "idle" /\ CharAvailable
  /\ Full(Len(buffer) + 1)
  /\ error' = TRUE /\ overflowed' = TRUE
  /\ buffer' = <<>>
  /\ top' = IF Len(buffer) > top THEN Len(buffer) ELSE top
  /\ off' = off + 1
  /\ Return
  /\ UNCHANGED <<daemonVars, cur, dispatched>>

\* The newline is received: it is stored at index Len(buffer), a terminator
\* behind it, and the message without the newline is handled.  The handler
\* may fail, which schedules a disconnect and changes nothing here.
RecvNewline ==
  /\ cb # "idle" /\ NewlineAvailable
  /\ dispatched' = Append(dispatched, buffer)
  /\ \E failed \in BOOLEAN : error' = (error \/ failed)
  /\ buffer' = <<>>
  /\ top' = IF Len(buffer) + 1 > top THEN Len(buffer) + 1 ELSE top
  /\ cur' = cur + 1 /\ off' = 0
  /\ cb' = "more"
  /\ UNCHANGED <<daemonVars, overflowed, phase>>

\* A mutant of RecvAgain: the buffer does not persist between two callbacks.
RecvAgainForgets ==
  /\ cb = "more" /\ link = "up"
  /\ buffer' = <<>>
  /\ Return
  /\ UNCHANGED <<daemonVars, wireVars, top, dispatched, error, overflowed>>

\* EAGAIN.  The kernel may hand over a line in pieces, so that it is possible
\* in the middle of one; never at the first recv, which follows a readable
\* event or blocks.
RecvAgain ==
  /\ cb = "more" /\ link = "up"
  /\ Return
  /\ UNCHANGED <<daemonVars, wireVars, buffer, top, dispatched, error, overflowed>>

\* A mutant of RecvEof: the end of file is taken for "no more data for now".
RecvEofSilent ==
  /\ cb # "idle" /\ Drained /\ link \in {"down", "torn"}
  /\ Return
  /\ UNCHANGED <<daemonVars, wireVars, buffer, top, dispatched, error, overflowed>>

RecvEof ==
  /\ cb # "idle" /\ Drained /\ link \in {"down", "torn"}
  /\ error' = TRUE
  /\ Return
  /\ UNCHANGED <<daemonVars, wireVars, buffer, top, dispatched, overflowed>>

\* Any other errno is only logged; the next recv finds the end of file.
RecvError ==
  /\ cb # "idle" /\ Drained /\ link = "reset"
  /\ link' = "down"
  /\ Return
  /\ UNCHANGED <<sent, wireVars, buffer, top, dispatched, error, overflowed>>

-----------------------------------------------------------------------------
(* signald_close: the user disconnects, or the scheduled disconnect is due.*)
(* Unless unsubscribing is impossible, it reads one last time.             *)

Close ==
  /\ phase = "open" /\ cb = "idle"
  /\ \/ link = "up" /\ phase' = "closing" /\ cb' = "first"
     \/ phase' = "closed" /\ UNCHANGED cb
  /\ UNCHANGED <<daemonVars, wireVars, buffer, top, dispatched, error, overflowed>>

\* The end of a behaviour: nothing is left to be done for a closed account.
Terminated == phase = "closed" /\ UNCHANGED vars

Callback == RecvChar \/ RecvOverflow \/ RecvNewline \/ RecvAgain \/ RecvEof \/ RecvError

Next ==
  \/ \E l \in LineLens : DaemonWrite(l)
  \/ \E how \in {"down", "torn", "reset"} : DaemonHangup(how)
  \/ ReadCb
  \/ Callback
  \/ Close
  \/ Terminated

Spec == Init /\ [][Next]_vars

\* The main loop runs the callback for a readable socket, and a callback that
\* was started runs on.
Fairness == WF_vars(ReadCb) /\ WF_vars(Callback)

FairSpec == Spec /\ Fairness

-----------------------------------------------------------------------------
(* Properties.                                                             *)

\* No write of signald_read_cb, the terminator included, is past the end of
\* sa->input_buffer, however long signald's lines are and however the reads
\* are cut.
NoOverrun == top <= BufSize - 1

\* A fragment of a line is given to signald_parse_input only when the
\* disconnect that makes it harmless is already scheduled.
FragmentsOnlyWhenFailing ==
  (\E k \in 1..Len(dispatched) : dispatched[k] # LineBytes(k, sent[k])) => error

\* The inductive invariant behind the properties: how the wire position, the
\* buffer and the handled messages belong together.  Until the first overflow
\* the messages are lines: neither an EAGAIN in the middle of a line nor a second
\* line in the same callback mixes them.
Assembly ==
  /\ Len(dispatched) + 1 = cur
  /\ cur <= Len(sent) + 1
  /\ off <= IF cur <= Len(sent) THEN sent[cur] ELSE 0
  /\ overflowed => error
  /\ ~overflowed => /\ buffer = LineBytes(cur, off)
                    /\ \A k \in 1..Len(dispatched) : dispatched[k] = LineBytes(k, sent[k])

\* signald_parse_input gets signald's lines as a line channel delivers them: whole,
\* once and in order until a line does not fit the buffer with its newline and
\* terminator, and no line that does fit makes the channel fail.
Channel == INSTANCE LineChannel
             WITH Capacity <- BufSize - 2, received <- dispatched, failed <- overflowed
LineByLine == Channel!Spec

\* What signald does is not overlooked, unless the connection is given up: once a
\* line is written it is handled, none is left behind in the socket or in the
\* buffer; and a signald that went away makes a disconnect be scheduled, also
\* when the read fails in an unexpected way first.
NothingOverlooked ==
  /\ \A n \in 1..MaxLines :
       (Len(sent) >= n) ~> (Len(dispatched) >= n \/ error \/ phase # "open")
  /\ (link # "up") ~> (error \/ phase # "open")
=============================================================================
