------------------------- MODULE SignaldComms_Proofs -------------------------
(***************************************************************************)
(* Theorems about SignaldComms, for every buffer size, every set of line   *)
(* lengths and every number of lines.                                      *)
(***************************************************************************)
EXTENDS SignaldComms, SequenceTheorems, TLAPS

(***************************************************************************)
(* Lemmas about lines as sequences of bytes.                               *)
(***************************************************************************)

\* The first n bytes of a line are a sequence of n bytes.
LEMMA LineBytesType ==
  ASSUME NEW k \in Nat, NEW n \in Nat
  PROVE  /\ LineBytes(k, n) \in Seq(Nat \X Nat)
         /\ Len(LineBytes(k, n)) = n
         /\ DOMAIN LineBytes(k, n) = 1..n
<1>1. \A i \in 1..n : <<k, i>> \in Nat \X Nat
  OBVIOUS
<1>2. LineBytes(k, n) \in [1..n -> Nat \X Nat]
  BY <1>1 DEF LineBytes
<1>3. LineBytes(k, n) \in Seq(Nat \X Nat)
  BY <1>2
<1> QED
  BY <1>2, <1>3, LenProperties

\* Receiving the next byte of a line extends the part of it in the buffer.
LEMMA LineBytesAppend ==
  ASSUME NEW k \in Nat, NEW n \in Nat
  PROVE  Append(LineBytes(k, n), <<k, n + 1>>) = LineBytes(k, n + 1)
<1> DEFINE B == Nat \X Nat
           b == <<k, n + 1>>
           s == Append(LineBytes(k, n), b)
           t == LineBytes(k, n + 1)
<1>1. b \in B
  OBVIOUS
<1>2. LineBytes(k, n) \in Seq(B) /\ Len(LineBytes(k, n)) = n
  BY LineBytesType
<1>3. t \in Seq(B) /\ Len(t) = n + 1
  BY LineBytesType
<1>4. /\ \A i \in 1..n : LineBytes(k, n)[i] = t[i]
      /\ t[n + 1] = b
  BY DEF LineBytes
<1>5. /\ s \in Seq(B)
      /\ Len(s) = n + 1
      /\ \A i \in 1..n : s[i] = LineBytes(k, n)[i]
      /\ s[n + 1] = b
  <2> HIDE DEF B, b
  <2> QED
    BY <1>1, <1>2, AppendProperties
<1> HIDE DEF B, b, s, t
<1>6. \A i \in 1..(n + 1) : i = n + 1 \/ i \in 1..n
  OBVIOUS
<1>7. \A i \in 1..(n + 1) : s[i] = t[i]
  BY <1>4, <1>5, <1>6
<1>8. s = t
  BY <1>3, <1>5, <1>7, SeqEqual
<1> QED
  BY <1>8 DEF s, t, b

\* Nothing has been received of a line that has not begun.
LEMMA LineBytesEmpty ==
  ASSUME NEW k \in Nat
  PROVE  LineBytes(k, 0) = <<>>
BY DEF LineBytes

(***************************************************************************)
(* The type invariant: the buffer has room before every recv.              *)
(***************************************************************************)

\* Every reachable state is well typed, and input_buffer has room for the
\* next byte and the terminator before each recv of signald_read_cb.
THEOREM TypeCorrect == Spec => []TypeOK
<1> USE BufSizeAssumption, LineLensAssumption, MaxLinesAssumption
<1>1. Init => TypeOK
  <2> SUFFICES ASSUME Init PROVE TypeOK
    OBVIOUS
  <2>1. sent \in Seq(LineLens)
    BY DEF Init
  <2>2. buffer \in Seq(Nat \X Nat)
    BY DEF Init
  <2>4. Len(buffer) = 0
    BY DEF Init
  <2>3. dispatched \in Seq(Seq(Nat \X Nat))
    BY DEF Init
  <2>5. /\ link \in {"up", "down", "torn", "reset"}
        /\ cb \in {"idle", "first", "more"}
        /\ phase \in {"open", "closing", "closed"}
    BY DEF Init
  <2>6. cur \in Nat \ {0} /\ off \in Nat /\ top \in Nat
    BY DEF Init
  <2>7. error \in BOOLEAN /\ overflowed \in BOOLEAN
    BY DEF Init
  <2> QED
    BY <2>1, <2>2, <2>3, <2>4, <2>5, <2>6, <2>7 DEF TypeOK
<1>2. TypeOK /\ [Next]_vars => TypeOK'
  <2> SUFFICES ASSUME TypeOK, [Next]_vars PROVE TypeOK'
    OBVIOUS
  <2> USE DEF TypeOK
  <2>1. ASSUME NEW l \in LineLens, DaemonWrite(l) PROVE TypeOK'
    BY <2>1 DEF DaemonWrite, wireVars
  <2>2. ASSUME NEW how \in {"down", "torn", "reset"}, DaemonHangup(how) PROVE TypeOK'
    BY <2>2 DEF DaemonHangup, wireVars
  <2>3. CASE ReadCb
    BY <2>3 DEF ReadCb, daemonVars, wireVars
  <2>4. CASE RecvChar
    <3>1. <<cur, off + 1>> \in Nat \X Nat
      OBVIOUS
    <3>2. buffer' \in Seq(Nat \X Nat) /\ Len(buffer') = Len(buffer) + 1
      BY <2>4, <3>1, AppendProperties DEF RecvChar
    <3>3. Len(buffer) \in Nat
      BY LenProperties
    <3> QED
      BY <2>4, <3>2, <3>3 DEF RecvChar, Full, daemonVars
  <2>5. CASE RecvOverflow
    <3>1. Len(buffer) \in Nat
      BY LenProperties
    <3> QED
      BY <2>5, <3>1 DEF RecvOverflow, Return, daemonVars
  <2>6. CASE RecvNewline
    <3>1. Len(buffer) \in Nat
      BY LenProperties
    <3>2. dispatched' \in Seq(Seq(Nat \X Nat))
      BY <2>6 DEF RecvNewline
    <3> QED
      BY <2>6, <3>1, <3>2 DEF RecvNewline, daemonVars
  <2>7. CASE RecvAgain
    BY <2>7 DEF RecvAgain, Return, daemonVars, wireVars
  <2>8. CASE RecvEof
    BY <2>8 DEF RecvEof, Return, daemonVars, wireVars
  <2>9. CASE RecvError
    BY <2>9 DEF RecvError, Return, wireVars
  <2>10. CASE Close
    BY <2>10 DEF Close, daemonVars, wireVars
  <2>11. CASE UNCHANGED vars
    BY <2>11 DEF vars
  <2> QED
    BY <2>1, <2>2, <2>3, <2>4, <2>5, <2>6, <2>7, <2>8, <2>9, <2>10, <2>11
    DEF Next, Callback, Terminated
<1> QED
  BY <1>1, <1>2, PTL DEF Spec

(***************************************************************************)
(* No write past the end of the buffer.                                    *)
(***************************************************************************)

\* signald_read_cb never writes past the end of sa->input_buffer: the type
\* invariant leaves two free places before each recv, and a recv writes the
\* byte and at most a terminator behind it.
THEOREM BufferNeverOverrun == Spec => []NoOverrun
<1> USE BufSizeAssumption
<1>1. Init => NoOverrun
  BY DEF Init, NoOverrun
<1>2. TypeOK /\ NoOverrun /\ [Next]_vars => NoOverrun'
  <2> SUFFICES ASSUME TypeOK, NoOverrun, [Next]_vars PROVE NoOverrun'
    OBVIOUS
  <2>1. Len(buffer) \in Nat /\ Len(buffer) + 2 <= BufSize /\ top \in Nat
    BY LenProperties DEF TypeOK
  <2>2. CASE RecvChar \/ RecvOverflow \/ RecvNewline
    BY <2>1, <2>2 DEF RecvChar, RecvOverflow, RecvNewline, NoOverrun
  <2>3. CASE UNCHANGED top
    BY <2>3 DEF NoOverrun
  <2> QED
    BY <2>2, <2>3
    DEF Next, Callback, Terminated, DaemonWrite, DaemonHangup, ReadCb, RecvAgain,
        RecvEof, RecvError, Close, vars
<1> QED
  BY <1>1, <1>2, TypeCorrect, PTL DEF Spec

(***************************************************************************)
(* What is handled.                                                        *)
(***************************************************************************)

LEMMA AssemblyStep == TypeOK /\ Assembly /\ [Next]_vars => Assembly'
<1> USE BufSizeAssumption, LineLensAssumption
<1> SUFFICES ASSUME TypeOK, Assembly, [Next]_vars PROVE Assembly'
  OBVIOUS
<1>1. /\ cur \in Nat \ {0} /\ off \in Nat
      /\ sent \in Seq(Nat) /\ Len(sent) \in Nat
      /\ \A k \in 1..Len(sent) : sent[k] \in Nat
      /\ buffer \in Seq(Nat \X Nat) /\ Len(buffer) \in Nat
      /\ dispatched \in Seq(Seq(Nat \X Nat)) /\ Len(dispatched) \in Nat
  <2>1. cur \in Nat \ {0} /\ off \in Nat
    BY DEF TypeOK
  <2>2. sent \in Seq(Nat) /\ Len(sent) \in Nat /\ \A k \in 1..Len(sent) : sent[k] \in Nat
    <3>1. sent \in Seq(LineLens) /\ Len(sent) \in Nat /\ sent \in [1..Len(sent) -> LineLens]
      BY LenProperties DEF TypeOK
    <3>2. sent \in [1..Len(sent) -> Nat]
      BY <3>1
    <3>3. sent \in Seq(Nat)
      BY <3>1, <3>2
    <3> QED
      BY <3>1, <3>2, <3>3
  <2>3. buffer \in Seq(Nat \X Nat) /\ Len(buffer) \in Nat
    BY LenProperties DEF TypeOK
  <2>4. dispatched \in Seq(Seq(Nat \X Nat)) /\ Len(dispatched) \in Nat
    BY LenProperties DEF TypeOK
  <2> QED
    BY <2>1, <2>2, <2>3, <2>4
<1>2. ASSUME NEW l \in LineLens, DaemonWrite(l) PROVE Assembly'
  <2>1. /\ Len(sent') = Len(sent) + 1
        /\ \A k \in 1..Len(sent) : sent'[k] = sent[k]
        /\ sent'[Len(sent) + 1] = l
        /\ l \in Nat
    BY <1>1, <1>2 DEF DaemonWrite
  <2>2. UNCHANGED <<cur, off, buffer, dispatched, error, overflowed>>
    BY <1>2 DEF DaemonWrite, wireVars
  <2>3. cur' <= Len(sent') + 1 /\ Len(dispatched') + 1 = cur'
    BY <1>1, <2>1, <2>2 DEF Assembly
  <2>4. off' <= IF cur' <= Len(sent') THEN sent'[cur'] ELSE 0
    BY <1>1, <2>1, <2>2 DEF Assembly
  <2>5. \A k \in 1..Len(dispatched) : sent'[k] = sent[k]
    BY <1>1, <2>1 DEF Assembly
  <2>6. ~overflowed' => /\ buffer' = LineBytes(cur', off')
                       /\ \A k \in 1..Len(dispatched') : dispatched'[k] = LineBytes(k, sent'[k])
    BY <2>2, <2>5 DEF Assembly
  <2> QED
    BY <2>2, <2>3, <2>4, <2>6 DEF Assembly
<1>3. CASE RecvChar
  <2>1. off' = off + 1 /\ off < sent[cur] /\ cur <= Len(sent)
        /\ buffer' = Append(buffer, <<cur, off + 1>>)
        /\ UNCHANGED <<sent, cur, dispatched, error, overflowed>>
    BY <1>3 DEF RecvChar, CharAvailable, daemonVars
  <2>2. ~overflowed => buffer' = LineBytes(cur, off + 1)
    BY <1>1, <2>1, LineBytesAppend DEF Assembly
  <2>3. off' <= sent[cur]
    BY <1>1, <2>1
  <2> QED
    BY <2>1, <2>2, <2>3 DEF Assembly
<1>4. CASE RecvOverflow
  <2>1. off' = off + 1 /\ off < sent[cur] /\ cur <= Len(sent)
        /\ overflowed' = TRUE /\ error' = TRUE
        /\ UNCHANGED <<sent, cur, dispatched>>
    BY <1>4 DEF RecvOverflow, CharAvailable, daemonVars
  <2>2. off' <= sent[cur]
    BY <1>1, <2>1
  <2> QED
    BY <2>1, <2>2 DEF Assembly
<1>5. CASE RecvNewline
  <2>1. /\ cur <= Len(sent) /\ off = sent[cur]
        /\ dispatched' = Append(dispatched, buffer)
        /\ (error => error')
        /\ buffer' = <<>> /\ cur' = cur + 1 /\ off' = 0
        /\ UNCHANGED <<sent, overflowed>>
    BY <1>5 DEF RecvNewline, NewlineAvailable, daemonVars
  <2>2. /\ Len(dispatched') = Len(dispatched) + 1
        /\ \A k \in 1..Len(dispatched) : dispatched'[k] = dispatched[k]
        /\ dispatched'[Len(dispatched) + 1] = buffer
    BY <1>1, <2>1, AppendProperties
  <2>3. Len(dispatched') + 1 = cur' /\ cur' <= Len(sent') + 1
    BY <1>1, <2>1, <2>2 DEF Assembly
  <2>4. off' <= IF cur' <= Len(sent') THEN sent'[cur'] ELSE 0
    BY <1>1, <2>1
  <2>5. buffer' = LineBytes(cur', off')
    BY <1>1, <2>1, LineBytesEmpty
  <2>6. ASSUME ~overflowed', NEW k \in 1..Len(dispatched')
        PROVE  dispatched'[k] = LineBytes(k, sent'[k])
    <3>0. Len(dispatched) \in Nat /\ Len(dispatched') = Len(dispatched) + 1
      BY <1>1, <2>2
    <3>1. k \in 1..Len(dispatched) \/ k = Len(dispatched) + 1
      BY <3>0
    <3>2. CASE k \in 1..Len(dispatched)
      BY <2>1, <2>2, <2>6, <3>2 DEF Assembly
    <3>3. CASE k = Len(dispatched) + 1
      BY <2>1, <2>2, <2>6, <3>3 DEF Assembly
    <3> QED
      BY <3>1, <3>2, <3>3
  <2>7. overflowed' => error'
    BY <2>1 DEF Assembly
  <2> QED
    BY <2>3, <2>4, <2>5, <2>6, <2>7 DEF Assembly
<1>6. ASSUME UNCHANGED <<sent, cur, off, buffer, dispatched, overflowed>>, error => error'
      PROVE  Assembly'
  BY <1>6 DEF Assembly
<1> QED
  BY <1>2, <1>3, <1>4, <1>5, <1>6
  DEF Next, Callback, Terminated, DaemonHangup, ReadCb, RecvAgain, RecvEof, RecvError,
      Close, vars, daemonVars, wireVars

LEMMA AssemblyInit == Init => Assembly
<1> SUFFICES ASSUME Init PROVE Assembly
  OBVIOUS
<1>1. Len(dispatched) = 0 /\ Len(sent) = 0 /\ cur = 1 /\ off = 0
  BY DEF Init
<1>2. buffer = LineBytes(cur, off)
  BY LineBytesEmpty DEF Init
<1>3. ~overflowed
  BY DEF Init
<1> QED
  BY <1>1, <1>2, <1>3 DEF Assembly

\* The wire position, the buffer and the handled messages belong together in
\* every reachable state.
THEOREM AssemblyInvariant == Spec => []Assembly
BY AssemblyInit, AssemblyStep, TypeCorrect, PTL DEF Spec

\* A fragment of a line is handled only when a disconnect is already scheduled.
THEOREM FragmentsImplyError == Spec => []FragmentsOnlyWhenFailing
<1>1. Assembly => FragmentsOnlyWhenFailing
  BY DEF Assembly, FragmentsOnlyWhenFailing
<1> QED
  BY <1>1, AssemblyInvariant, PTL

(***************************************************************************)
(* The read side implements a line channel, for lines of any length.       *)
(***************************************************************************)

\* A byte that fills the buffer belongs to a line that is too long for it.
LEMMA OverflowsOnlyLongLines ==
  ASSUME TypeOK, Assembly, ~overflowed, RecvOverflow
  PROVE  Channel!Due <= Len(sent) /\ sent[Channel!Due] > BufSize - 2
<1> USE BufSizeAssumption, LineLensAssumption
<1>1. cur \in Nat /\ off \in Nat /\ cur # 0 /\ Len(dispatched) \in Nat
  BY LenProperties DEF TypeOK
<1>2. cur <= Len(sent) /\ off < sent[cur] /\ Full(Len(buffer) + 1)
  BY DEF RecvOverflow, CharAvailable
<1>3. sent[cur] \in Nat
  <2>1. sent[cur] \in LineLens
    BY <1>1, <1>2, LenProperties DEF TypeOK
  <2> QED
    BY <2>1
<1>4. Len(buffer) = off
  BY <1>1, LineBytesType DEF Assembly
<1>5. Channel!Due = cur
  BY <1>1 DEF Assembly, Channel!Due
<1>6. off + 2 = BufSize
  BY <1>1, <1>2, <1>4 DEF Full
<1> QED
  BY <1>1, <1>2, <1>3, <1>5, <1>6

\* signald_read_cb implements the line channel: a newline delivers the next
\* line, a full buffer is a failure at a line that exceeds the capacity, after
\* which nothing is promised, and everything else is a stutter.
THEOREM ImplementsLineChannel == Spec => LineByLine
<1> USE BufSizeAssumption, LineLensAssumption
<1>1. Init => Channel!Init
  BY DEF Init, Channel!Init
<1>2. TypeOK /\ Assembly /\ [Next]_vars => [Channel!Next]_(Channel!vars)
  <2> SUFFICES ASSUME TypeOK, Assembly, [Next]_vars
               PROVE  [Channel!Next]_(Channel!vars)
    OBVIOUS
  <2>1. ASSUME NEW l \in LineLens, DaemonWrite(l) PROVE Channel!Next
    BY <2>1 DEF DaemonWrite, Channel!Next, Channel!Write
  <2>2. ASSUME overflowed, UNCHANGED <<sent, overflowed>> PROVE Channel!Next
    BY <2>2 DEF Channel!Next, Channel!Garbled
  <2>3. CASE RecvNewline /\ ~overflowed
    <3>1. cur \in Nat /\ Len(dispatched) \in Nat /\ Len(dispatched) + 1 = cur
      BY LenProperties DEF TypeOK, Assembly
    <3>2. /\ cur <= Len(sent)
          /\ dispatched' = Append(dispatched, LineBytes(cur, sent[cur]))
          /\ UNCHANGED <<sent, overflowed>>
      BY <2>3 DEF RecvNewline, NewlineAvailable, daemonVars, Assembly
    <3>3. Channel!Deliver
      BY <2>3, <3>1, <3>2 DEF Channel!Deliver, Channel!Due, Channel!Line, LineBytes
    <3> QED
      BY <3>3 DEF Channel!Next
  <2>4. CASE RecvOverflow /\ ~overflowed
    <3>1. Channel!Due <= Len(sent) /\ sent[Channel!Due] > BufSize - 2
      BY <2>4, OverflowsOnlyLongLines
    <3>2. Channel!Fail
      BY <2>4, <3>1 DEF RecvOverflow, daemonVars, Channel!Fail
    <3> QED
      BY <3>2 DEF Channel!Next
  <2>5. CASE RecvOverflow /\ overflowed
    <3>1. UNCHANGED <<sent, dispatched, overflowed>>
      BY <2>5 DEF RecvOverflow, daemonVars, TypeOK
    <3> QED
      BY <3>1 DEF Channel!vars
  <2>6. ASSUME UNCHANGED <<sent, dispatched, overflowed>> PROVE UNCHANGED Channel!vars
    BY <2>6 DEF Channel!vars
  <2>7. CASE RecvNewline /\ overflowed
    BY <2>7, <2>2 DEF RecvNewline, daemonVars
  <2> QED
    BY <2>1, <2>3, <2>4, <2>5, <2>6, <2>7
    DEF Next, Callback, Terminated, DaemonHangup, ReadCb, RecvChar,
        RecvAgain, RecvEof, RecvError, Close, vars, daemonVars
<1> QED
  BY <1>1, <1>2, TypeCorrect, AssemblyInvariant, PTL
  DEF Spec, LineByLine, Channel!Spec
=============================================================================
