----------------------- MODULE SignaldTransfer_Proofs -----------------------
(***************************************************************************)
(* Theorems about SignaldTransfer: requests of any length and number,      *)
(* written to a socket that takes as much of them as it likes, and         *)
(* attachments with any names and types.                                   *)
(***************************************************************************)
EXTENDS SignaldTransfer, SequenceTheorems, FiniteSetTheorems, NaturalsInduction, TLAPS

Bytes == Nat \X Nat

\* What the properties need of types.  A request is pending exactly while it is
\* written; nothing is in the socket of a signald that is gone.
Typing ==
  /\ \E S : requests \in Seq(S)
  /\ outcome \in Seq({"pending", "written", "failed"}) /\ Len(outcome) = Len(requests)
  /\ writing \in {"json", "newline", "nothing"}
  /\ writing # "nothing" => Len(outcome) > 0
  /\ \A k \in 1..Len(outcome) : outcome[k] = "pending" <=> k = Len(outcome) /\ writing # "nothing"
  /\ wire \in Seq(Bytes) /\ lines \in Seq(Seq(Bytes))
  /\ gone \in BOOLEAN /\ (gone => wire = <<>>)
  /\ received \in Nat

\* A line ends with a request that was written, be it read or still in the
\* socket, and the JSON of the current request comes before its newline.
Ends ==
  /\ \A i \in 1..(Len(wire) - 1) : wire[i + 1] = Newline =>
       wire[i][1] \in 1..Len(outcome) /\ outcome[wire[i][1]] = "written"
  /\ \A j \in 1..Len(lines) : Len(lines[j]) > 0 =>
       LET last == lines[j][Len(lines[j])]
       IN last[1] \in 1..Len(outcome) /\ outcome[last[1]] = "written"
  /\ writing = "newline" /\ ~gone => Len(wire) > 0 /\ wire[Len(wire)] = <<Current, JsonLen>>

-----------------------------------------------------------------------------
(* Steps.                                                                  *)

\* A request is begun.
Begun ==
  /\ writing = "nothing" /\ writing' = "json"
  /\ Len(requests) < MaxTransfers
  /\ \E r : requests' = Append(requests, r)
  /\ outcome' = Append(outcome, "pending")
  /\ UNCHANGED <<socketVars, received>>

\* Nothing of what is written or read changes.
Aside == UNCHANGED <<requests, outcome, writing, socketVars>> /\ (received \in Nat => received' \in Nat)

LEMMA Steps ==
  ASSUME Typing, [Next]_vars
  PROVE  Begun \/ Aside \/ WriteJson \/ WriteNewline \/ DaemonRead \/ DaemonHangup
<1>0. received \in Nat /\ Len(requests) \in Nat
  BY LenProperties DEF Typing
<1>1. ASSUME NEW r, Request(r), Idle, UNCHANGED <<socketVars, received>> PROVE Begun
  <2>1. Len(requests) + received < MaxTransfers
    BY <1>1 DEF Request
  <2>2. Len(requests) < MaxTransfers
    BY <1>0, <2>1, MaxTransfersAssumption
  <2> QED
    BY <1>1, <2>2 DEF Request, Begun, Idle
<1>2. CASE SendMessage
  <2>1. (\E r : Request(r)) /\ Idle /\ UNCHANGED <<socketVars, received>>
    BY <1>2 DEF SendMessage
  <2> QED
    BY <1>1, <2>1
<1>3. ASSUME NEW kind, Ask(kind) PROVE Begun
  BY <1>1, <1>3 DEF Ask
<1>4. CASE Close
  BY <1>1, <1>4 DEF Close, Aside
<1>5. CASE Receive
  <2>1. received' = received + 1 /\ UNCHANGED <<requests, outcome, writing, socketVars>>
    BY <1>5 DEF Receive
  <2> QED
    BY <2>1 DEF Aside
<1>6. CASE Terminated \/ UNCHANGED vars
  BY <1>6 DEF Terminated, vars, Aside
<1> QED
  BY <1>2, <1>3, <1>4, <1>5, <1>6 DEF Next

LEMMA JsonType ==
  ASSUME NEW k \in Nat
  PROVE  /\ Json(k) \in Seq(Bytes) /\ Len(Json(k)) = JsonLen
         /\ \A i \in 1..JsonLen : Json(k)[i] = <<k, i>>
<1>1. Json(k) \in [1..JsonLen -> Bytes]
  BY JsonLenAssumption DEF Json, Bytes
<1>2. Json(k) \in Seq(Bytes)
  BY <1>1, JsonLenAssumption, SeqDef
<1> QED
  BY <1>2, JsonLenAssumption DEF Json

\* The beginning of the JSON of a request is taken.
LEMMA JsonSent ==
  ASSUME wire \in Seq(Bytes), NEW k \in Nat, NEW w \in 0..JsonLen,
         wire' = wire \o SubSeq(Json(k), 1, w)
  PROVE  /\ wire' \in Seq(Bytes) /\ Len(wire) \in Nat /\ Len(wire') = Len(wire) + w
         /\ \A i \in 1..Len(wire) : wire'[i] = wire[i]
         /\ \A i \in 1..w : wire'[Len(wire) + i] = <<k, i>>
<1> DEFINE part == SubSeq(Json(k), 1, w)
<1>0. w \in Nat /\ w <= JsonLen
  BY JsonLenAssumption
<1>1. part \in Seq(Bytes) /\ Len(part) = w /\ \A i \in 1..w : part[i] = <<k, i>>
  <2>1. \A i \in 1..w : Json(k)[i] = <<k, i>> /\ <<k, i>> \in Bytes
    <3>1. \A i \in 1..w : i \in 1..JsonLen /\ i \in Nat
      BY <1>0, JsonLenAssumption
    <3> QED
      BY <3>1, JsonType DEF Bytes
  <2>2. \A i \in 1..w : Json(k)[i] \in Bytes
    BY <2>1
  <2>3. part \in Seq(Bytes) /\ Len(part) = (IF 1 <= w THEN w - 1 + 1 ELSE 0)
        /\ \A i \in 1..(w - 1 + 1) : part[i] = Json(k)[1 + i - 1]
    BY <1>0, <2>2, SubSeqProperties
  <2>4. w - 1 + 1 = w /\ (1 <= w \/ w = 0) /\ \A i \in 1..w : 1 + i - 1 = i
    BY <1>0
  <2>5. \A i \in 1..w : part[i] = Json(k)[i]
    BY <2>3, <2>4
  <2>6. Len(part) = w
    BY <2>3, <2>4
  <2> HIDE DEF part
  <2> QED
    BY <2>1, <2>3, <2>5, <2>6
<1> HIDE DEF part
<1>2. wire' = wire \o part
  BY DEF part
<1>3. Len(wire) \in Nat
  BY LenProperties
<1>4. /\ wire' \in Seq(Bytes) /\ Len(wire') = Len(wire) + w
      /\ \A i \in 1..(Len(wire) + w) :
           wire'[i] = IF i <= Len(wire) THEN wire[i] ELSE part[i - Len(wire)]
  BY <1>1, <1>2, ConcatProperties
<1>5. \A i \in 1..w : /\ Len(wire) + i \in 1..(Len(wire) + w) /\ ~(Len(wire) + i <= Len(wire))
                      /\ (Len(wire) + i) - Len(wire) = i
  BY <1>0, <1>3
<1>6. \A i \in 1..Len(wire) : i \in 1..(Len(wire) + w) /\ i <= Len(wire)
  BY <1>0, <1>3
<1> QED
  BY <1>1, <1>3, <1>4, <1>5, <1>6

\* A newline is taken or not.
LEMMA NewlineSent ==
  ASSUME wire \in Seq(Bytes), NEW w \in 0..1, wire' = wire \o SubSeq(<<Newline>>, 1, w)
  PROVE  /\ wire' \in Seq(Bytes)
         /\ w = 0 => wire' = wire
         /\ w = 1 => wire' = Append(wire, Newline)
<1>1. Newline \in Bytes
  BY DEF Newline, Bytes
<1>2. CASE w = 0
  <2>1. SubSeq(<<Newline>>, 1, 0) = <<>>
    BY SubSeqEmpty
  <2> QED
    BY <1>2, <2>1, ConcatEmptySeq
<1>3. CASE w = 1
  <2>1. SubSeq(<<Newline>>, 1, 1) = <<Newline>>
    <3>1. <<Newline>> \in Seq(Bytes) /\ Len(<<Newline>>) = 1
      BY <1>1
    <3> QED
      BY <3>1, SubSeqFull
  <2> QED
    BY <1>1, <1>3, <2>1
<1> QED
  BY <1>2, <1>3

\* The outcome of the current request is known.
LEMMA Returned ==
  ASSUME Typing, writing # "nothing", NEW result \in {"written", "failed"}, Return(result)
  PROVE  /\ outcome' \in Seq({"pending", "written", "failed"}) /\ Len(outcome') = Len(outcome)
         /\ Current = Len(outcome) /\ Current \in 1..Len(outcome) /\ Current \in Nat
         /\ outcome'[Current] = result
         /\ \A k \in 1..Len(outcome) : k # Current => outcome'[k] = outcome[k]
         /\ \A k \in 1..Len(outcome) : outcome[k] = "written" => outcome'[k] = "written"
         /\ \A k \in 1..Len(outcome) : outcome'[k] # "pending"
         /\ writing' = "nothing"
<1>1. Current = Len(outcome) /\ Current \in 1..Len(outcome) /\ Current \in Nat
  BY LenProperties DEF Typing, Current
<1>2. outcome' = [outcome EXCEPT ![Current] = result] /\ writing' = "nothing"
  BY DEF Return
<1>3. outcome[Current] = "pending"
  BY <1>1 DEF Typing
<1>4. /\ outcome' \in Seq({"pending", "written", "failed"}) /\ Len(outcome') = Len(outcome)
      /\ \A k \in 1..Len(outcome) : outcome'[k] = IF k = Current THEN result ELSE outcome[k]
  BY <1>1, <1>2, ExceptSeq DEF Typing
<1> QED
  BY <1>1, <1>2, <1>3, <1>4 DEF Typing

\* signald reads up to the first newline.
LEMMA LineRead ==
  ASSUME Typing, NEW n \in DOMAIN wire,
         lines' = Append(lines, SubSeq(wire, 1, n - 1)), wire' = SubSeq(wire, n + 1, Len(wire))
  PROVE  /\ n \in 1..Len(wire) /\ Len(wire) \in Nat /\ Len(lines) \in Nat
         /\ wire' \in Seq(Bytes) /\ Len(wire') = Len(wire) - n
         /\ \A i \in 1..Len(wire') : wire'[i] = wire[i + n]
         /\ lines' \in Seq(Seq(Bytes)) /\ Len(lines') = Len(lines) + 1
         /\ \A j \in 1..Len(lines) : lines'[j] = lines[j]
         /\ Len(lines'[Len(lines) + 1]) = n - 1
         /\ \A i \in 1..(n - 1) : lines'[Len(lines) + 1][i] = wire[i]
<1>1. wire \in Seq(Bytes) /\ lines \in Seq(Seq(Bytes))
  BY DEF Typing
<1>2. Len(wire) \in Nat /\ Len(lines) \in Nat /\ n \in 1..Len(wire) /\ \A i \in 1..Len(wire) : wire[i] \in Bytes
  BY <1>1, LenProperties, ElementOfSeq
<1> DEFINE line == SubSeq(wire, 1, n - 1)
           rest == SubSeq(wire, n + 1, Len(wire))
<1>3. line \in Seq(Bytes) /\ Len(line) = n - 1 /\ \A i \in 1..(n - 1) : line[i] = wire[i]
  <2>1. \A i \in 1..(n - 1) : wire[i] \in Bytes
    BY <1>2
  <2>2. /\ line \in Seq(Bytes) /\ Len(line) = (IF 1 <= n - 1 THEN (n - 1) - 1 + 1 ELSE 0)
        /\ \A i \in 1..((n - 1) - 1 + 1) : line[i] = wire[1 + i - 1]
    BY <1>2, <2>1, SubSeqProperties
  <2> QED
    BY <1>2, <2>2
<1>4. rest \in Seq(Bytes) /\ Len(rest) = Len(wire) - n /\ \A i \in 1..Len(rest) : rest[i] = wire[i + n]
  <2>1. \A i \in (n + 1)..Len(wire) : wire[i] \in Bytes
    BY <1>2
  <2>2. /\ rest \in Seq(Bytes)
        /\ Len(rest) = (IF n + 1 <= Len(wire) THEN Len(wire) - (n + 1) + 1 ELSE 0)
        /\ \A i \in 1..(Len(wire) - (n + 1) + 1) : rest[i] = wire[(n + 1) + i - 1]
    BY <1>2, <2>1, SubSeqProperties
  <2> HIDE DEF rest
  <2>3. n \in Nat /\ n <= Len(wire) /\ Len(wire) \in Nat
    BY <1>2
  <2>4. Len(rest) = Len(wire) - n
    BY <2>2, <2>3
  <2>5. ASSUME NEW i \in 1..Len(rest) PROVE rest[i] = wire[i + n]
    <3>1. i \in 1..(Len(wire) - (n + 1) + 1) /\ (n + 1) + i - 1 = i + n
      BY <2>3, <2>4
    <3> QED
      BY <2>2, <3>1
  <2> QED
    BY <2>2, <2>4, <2>5
<1> HIDE DEF line, rest
<1>5. lines' = Append(lines, line) /\ wire' = rest
  BY DEF line, rest
<1>6. /\ lines' \in Seq(Seq(Bytes)) /\ Len(lines') = Len(lines) + 1
      /\ \A j \in 1..Len(lines) : lines'[j] = lines[j]
      /\ lines'[Len(lines) + 1] = line
  BY <1>1, <1>3, <1>5, AppendProperties
<1> QED
  BY <1>2, <1>3, <1>4, <1>5, <1>6

-----------------------------------------------------------------------------

LEMMA TypingStep ==
  ASSUME Typing, [Next]_vars
  PROVE  Typing'
<1>0. Len(outcome) \in Nat /\ Len(requests) \in Nat
  BY LenProperties DEF Typing
<1>1. CASE Begun
  <2>1. PICK S, r : requests \in Seq(S) /\ requests' = Append(requests, r)
    BY <1>1 DEF Begun, Typing
  <2>2. requests \in Seq(S \union {r})
    BY <2>1, SeqMonotonic
  <2>3. requests' \in Seq(S \union {r}) /\ Len(requests') = Len(requests) + 1
    BY <2>1, <2>2
  <2>4. /\ outcome' \in Seq({"pending", "written", "failed"}) /\ Len(outcome') = Len(outcome) + 1
        /\ \A k \in 1..Len(outcome) : outcome'[k] = outcome[k] /\ outcome[k] # "pending"
        /\ outcome'[Len(outcome) + 1] = "pending"
    BY <1>1 DEF Begun, Typing
  <2>5. \A k \in 1..Len(outcome') : outcome'[k] = "pending" <=> k = Len(outcome')
    BY <1>0, <2>4
  <2> QED
    BY <1>0, <1>1, <2>3, <2>4, <2>5 DEF Begun, Typing, socketVars
<1>2. CASE Aside
  BY <1>2 DEF Aside, Typing, socketVars
<1>3. CASE WriteJson
  <2>1. PICK w \in 0..JsonLen :
          /\ SendStr(Json(Current), w)
          /\ IF w = JsonLen THEN writing' = "newline" /\ UNCHANGED <<outcome, error, phase>>
             ELSE Return("failed")
    BY <1>3 DEF WriteJson
  <2>2. writing = "json" /\ UNCHANGED <<requests, received, gone, lines>> /\ (gone => w = 0)
    BY <1>3, <2>1 DEF WriteJson, SendStr
  <2>3. Current \in Nat
    BY <1>0 DEF Current
  <2>4. wire' \in Seq(Bytes) /\ Len(wire) \in Nat /\ Len(wire') = Len(wire) + w
    BY <2>1, <2>3, JsonSent DEF SendStr, Typing
  <2>5. gone => wire' = <<>>
    <3>1. gone => Len(wire') = 0
      BY <2>2, <2>4, EmptySeq DEF Typing
    <3> QED
      BY <2>4, <3>1, EmptySeq
  <2>6. CASE w = JsonLen
    <3>1. writing' = "newline" /\ outcome' = outcome
      BY <2>1, <2>6
    <3> QED
      BY <2>2, <2>4, <2>5, <3>1 DEF Typing
  <2>7. CASE w # JsonLen
    <3>1. Return("failed")
      BY <2>1, <2>7
    <3>2. /\ outcome' \in Seq({"pending", "written", "failed"}) /\ Len(outcome') = Len(outcome)
          /\ \A k \in 1..Len(outcome) : outcome'[k] # "pending"
          /\ writing' = "nothing"
      BY <2>2, <3>1, Returned
    <3> QED
      BY <2>2, <2>4, <2>5, <3>2 DEF Typing
  <2> QED
    BY <2>6, <2>7
<1>4. CASE WriteNewline
  <2>1. PICK w \in 0..1 : SendStr(<<Newline>>, w) /\ Return(IF w = 1 THEN "written" ELSE "failed")
    BY <1>4 DEF WriteNewline
  <2>2. writing = "newline" /\ UNCHANGED <<requests, received, gone, lines>> /\ (gone => w = 0)
    BY <1>4, <2>1 DEF WriteNewline, SendStr
  <2>3. wire' \in Seq(Bytes) /\ (w = 0 => wire' = wire)
    BY <2>1, NewlineSent DEF SendStr, Typing
  <2>4. /\ outcome' \in Seq({"pending", "written", "failed"}) /\ Len(outcome') = Len(outcome)
        /\ \A k \in 1..Len(outcome) : outcome'[k] # "pending"
        /\ writing' = "nothing"
    BY <2>1, <2>2, Returned
  <2> QED
    BY <2>2, <2>3, <2>4 DEF Typing
<1>5. CASE DaemonRead
  <2>1. PICK n \in DOMAIN wire :
          /\ lines' = Append(lines, SubSeq(wire, 1, n - 1))
          /\ wire' = SubSeq(wire, n + 1, Len(wire))
          /\ UNCHANGED <<requests, writing, outcome, gone, received>>
    BY <1>5 DEF DaemonRead
  <2>2. wire' \in Seq(Bytes) /\ lines' \in Seq(Seq(Bytes)) /\ n \in 1..Len(wire) /\ Len(wire) \in Nat
    BY <2>1, LineRead
  <2>3. ~gone
    <3>1. Len(wire) # 0
      BY <2>2
    <3> QED
      BY <3>1, EmptySeq DEF Typing
  <2> QED
    BY <2>1, <2>2, <2>3 DEF Typing
<1>6. CASE DaemonHangup
  BY <1>6, EmptySeq DEF DaemonHangup, Typing
<1> QED
  BY <1>1, <1>2, <1>3, <1>4, <1>5, <1>6, Steps

LEMMA TypingInit == Init => Typing
<1> SUFFICES ASSUME Init PROVE Typing
  OBVIOUS
<1>1. <<>> \in Seq({}) /\ Len(<<>>) = 0
  BY EmptySeq
<1>2. requests \in Seq({}) /\ outcome \in Seq({"pending", "written", "failed"}) /\ wire \in Seq(Bytes)
      /\ lines \in Seq(Seq(Bytes))
  BY EmptySeq DEF Init
<1>3. \E S : requests \in Seq(S)
  BY <1>2
<1>4. Len(outcome) = 0 /\ Len(requests) = 0 /\ 1..0 = {}
  BY <1>1 DEF Init
<1>5. writing = "nothing" /\ gone = FALSE /\ received = 0
  BY DEF Init
<1> QED
  BY <1>2, <1>3, <1>4, <1>5 DEF Typing

-----------------------------------------------------------------------------
(* Lines end with requests that were written.                              *)

\* What was written stays written.
Settles ==
  /\ Len(outcome) <= Len(outcome') /\ Len(outcome) \in Nat /\ Len(outcome') \in Nat
  /\ \A k \in 1..Len(outcome) : outcome[k] = "written" => outcome'[k] = "written"

\* Nothing is read, and nothing but JSON is added to the socket.
LEMMA EndsKept ==
  ASSUME Typing, Ends, Settles, lines' = lines,
         Len(wire) <= Len(wire'), Len(wire') \in Nat,
         \A i \in 1..Len(wire) : wire'[i] = wire[i],
         \A i \in (Len(wire) + 1)..Len(wire') : wire'[i] # Newline,
         writing' = "newline" /\ ~gone' => Len(wire') > 0 /\ wire'[Len(wire')] = <<Current', JsonLen>>
  PROVE  Ends'
<1>0. Len(wire) \in Nat
  BY LenProperties DEF Typing
<1>1. \A i \in 1..(Len(wire') - 1) : wire'[i + 1] = Newline =>
         wire'[i][1] \in 1..Len(outcome') /\ outcome'[wire'[i][1]] = "written"
  <2> SUFFICES ASSUME NEW i \in 1..(Len(wire') - 1), wire'[i + 1] = Newline
               PROVE  wire'[i][1] \in 1..Len(outcome') /\ outcome'[wire'[i][1]] = "written"
    OBVIOUS
  <2>1. i \in 1..(Len(wire) - 1) /\ i \in 1..Len(wire) /\ i + 1 \in 1..Len(wire)
    BY <1>0
  <2>2. wire'[i] = wire[i] /\ wire[i + 1] = Newline
    BY <2>1
  <2>3. wire[i][1] \in 1..Len(outcome) /\ outcome[wire[i][1]] = "written"
    BY <2>1, <2>2 DEF Ends
  <2>4. wire[i][1] \in 1..Len(outcome')
    BY <2>3 DEF Settles
  <2> QED
    BY <2>2, <2>3, <2>4 DEF Settles
<1>2. \A j \in 1..Len(lines) : Len(lines[j]) > 0 =>
        /\ lines[j][Len(lines[j])][1] \in 1..Len(outcome')
        /\ outcome'[lines[j][Len(lines[j])][1]] = "written"
  <2> SUFFICES ASSUME NEW j \in 1..Len(lines), Len(lines[j]) > 0
               PROVE  /\ lines[j][Len(lines[j])][1] \in 1..Len(outcome')
                      /\ outcome'[lines[j][Len(lines[j])][1]] = "written"
    OBVIOUS
  <2> DEFINE k == lines[j][Len(lines[j])][1]
  <2>1. k \in 1..Len(outcome) /\ outcome[k] = "written"
    BY DEF Ends
  <2> HIDE DEF k
  <2>2. k \in 1..Len(outcome') /\ outcome'[k] = "written"
    BY <2>1 DEF Settles
  <2> QED
    BY <2>2 DEF k
<1> QED
  BY <1>1, <1>2 DEF Ends

LEMMA EndsStep ==
  ASSUME Typing, Typing', Ends, [Next]_vars
  PROVE  Ends'
<1>0. /\ Len(outcome) \in Nat /\ Len(outcome') \in Nat /\ Len(wire) \in Nat /\ Len(wire') \in Nat
      /\ Current = Len(outcome) /\ Current' = Len(outcome') /\ JsonLen \in Nat /\ JsonLen > 0
  BY LenProperties, JsonLenAssumption DEF Typing, Current
<1>1. CASE Begun
  <2>1. Settles /\ writing' = "json" /\ wire' = wire /\ lines' = lines
    <3>1. outcome' = Append(outcome, "pending") /\ outcome \in Seq({"pending", "written", "failed"})
      BY <1>1 DEF Begun, Typing
    <3>2. Len(outcome') = Len(outcome) + 1 /\ \A k \in 1..Len(outcome) : outcome'[k] = outcome[k]
      BY <3>1
    <3> QED
      BY <1>0, <1>1, <3>2 DEF Begun, Settles, socketVars
  <2> QED
    BY <1>0, <2>1, EndsKept
<1>2. CASE Aside
  <2>1. UNCHANGED <<outcome, lines, wire, writing, gone, requests>>
    BY <1>2 DEF Aside, socketVars
  <2> QED
    BY <2>1 DEF Ends, Current
<1>3. CASE WriteJson
  <2>1. PICK w \in 0..JsonLen :
          /\ SendStr(Json(Current), w)
          /\ IF w = JsonLen THEN writing' = "newline" /\ UNCHANGED <<outcome, error, phase>>
             ELSE Return("failed")
    BY <1>3 DEF WriteJson
  <2>2. writing = "json" /\ UNCHANGED <<gone, lines, requests>> /\ (gone => w = 0)
    BY <1>3, <2>1 DEF WriteJson, SendStr
  <2>3. /\ Len(wire') = Len(wire) + w /\ \A i \in 1..Len(wire) : wire'[i] = wire[i]
        /\ \A i \in 1..w : wire'[Len(wire) + i] = <<Current, i>>
    BY <1>0, <2>1, JsonSent DEF SendStr, Typing
  <2>4. \A i \in (Len(wire) + 1)..Len(wire') : wire'[i] # Newline
    <3> SUFFICES ASSUME NEW i \in (Len(wire) + 1)..Len(wire') PROVE wire'[i] # Newline
      OBVIOUS
    <3>1. i - Len(wire) \in 1..w /\ Len(wire) + (i - Len(wire)) = i /\ i - Len(wire) > 0
      BY <1>0, <2>3
    <3>2. wire'[i] = <<Current, i - Len(wire)>>
      BY <2>3, <3>1
    <3> QED
      BY <3>1, <3>2 DEF Newline
  <2>5. CASE w = JsonLen
    <3>1. outcome' = outcome /\ Settles
      BY <1>0, <2>1, <2>5 DEF Settles
    <3>2. wire'[Len(wire')] = <<Current, JsonLen>> /\ Len(wire') > 0
      <4>1. JsonLen \in 1..w /\ Len(wire') = Len(wire) + JsonLen /\ Len(wire') > 0
        BY <1>0, <2>3, <2>5
      <4>2. wire'[Len(wire) + JsonLen] = <<Current, JsonLen>>
        BY <2>3, <4>1
      <4> QED
        BY <4>1, <4>2
    <3>3. Current' = Current
      BY <1>0, <3>1
    <3> QED
      BY <1>0, <2>2, <2>3, <2>4, <3>1, <3>2, <3>3, EndsKept
  <2>6. CASE w # JsonLen
    <3>1. Settles /\ writing' = "nothing"
      BY <1>0, <2>1, <2>2, <2>6, Returned DEF Settles
    <3>2. Len(wire) <= Len(wire')
      BY <1>0, <2>3
    <3> QED
      BY <1>0, <2>2, <2>3, <2>4, <3>1, <3>2, EndsKept
  <2> QED
    BY <2>5, <2>6
<1>4. CASE WriteNewline
  <2>1. PICK w \in 0..1 : SendStr(<<Newline>>, w) /\ Return(IF w = 1 THEN "written" ELSE "failed")
    BY <1>4 DEF WriteNewline
  <2>2. writing = "newline" /\ UNCHANGED <<gone, lines, requests>> /\ (gone => w = 0)
    BY <1>4, <2>1 DEF WriteNewline, SendStr
  <2>3. Settles /\ writing' = "nothing" /\ Len(outcome') = Len(outcome) /\ Current \in 1..Len(outcome)
        /\ outcome'[Current] = IF w = 1 THEN "written" ELSE "failed"
    <3>1. (IF w = 1 THEN "written" ELSE "failed") \in {"written", "failed"}
      OBVIOUS
    <3> QED
      BY <1>0, <2>1, <2>2, <3>1, Returned DEF Settles
  <2>4. CASE w = 0
    <3>1. wire' = wire
      BY <2>1, <2>4, NewlineSent DEF SendStr, Typing
    <3> QED
      BY <1>0, <2>2, <2>3, <3>1, EndsKept
  <2>5. CASE w = 1
    <3>1. ~gone /\ Len(wire) > 0 /\ wire[Len(wire)] = <<Current, JsonLen>>
      BY <2>2, <2>5 DEF Ends
    <3>2. wire' = Append(wire, Newline) /\ wire \in Seq(Bytes) /\ Newline \in Bytes
      BY <2>1, <2>5, NewlineSent DEF SendStr, Typing, Newline, Bytes
    <3>3. Len(wire') = Len(wire) + 1 /\ \A i \in 1..Len(wire) : wire'[i] = wire[i]
      BY <3>2
    <3>4. \A i \in 1..(Len(wire') - 1) : wire'[i + 1] = Newline =>
             wire'[i][1] \in 1..Len(outcome') /\ outcome'[wire'[i][1]] = "written"
      <4> SUFFICES ASSUME NEW i \in 1..Len(wire), wire'[i + 1] = Newline
                   PROVE  wire[i][1] \in 1..Len(outcome') /\ outcome'[wire[i][1]] = "written"
        BY <1>0, <3>3
      <4>1. CASE i = Len(wire)
        <5>1. wire[i][1] = Current
          BY <3>1, <4>1
        <5> QED
          BY <2>3, <2>5, <5>1
      <4>2. CASE i # Len(wire)
        <5>1. i \in 1..(Len(wire) - 1) /\ i + 1 \in 1..Len(wire)
          BY <1>0, <4>2
        <5>2. wire[i][1] \in 1..Len(outcome) /\ outcome[wire[i][1]] = "written"
          BY <3>3, <5>1 DEF Ends
        <5> QED
          BY <2>3, <5>2 DEF Settles
      <4> QED
        BY <4>1, <4>2
    <3>5. \A j \in 1..Len(lines) : Len(lines[j]) > 0 =>
            /\ lines[j][Len(lines[j])][1] \in 1..Len(outcome')
            /\ outcome'[lines[j][Len(lines[j])][1]] = "written"
      BY <2>3 DEF Ends, Settles
    <3> QED
      BY <2>2, <2>3, <3>4, <3>5 DEF Ends
  <2> QED
    BY <2>4, <2>5
<1>5. CASE DaemonRead
  <2>1. PICK n \in DOMAIN wire :
          /\ wire[n] = Newline
          /\ lines' = Append(lines, SubSeq(wire, 1, n - 1))
          /\ wire' = SubSeq(wire, n + 1, Len(wire))
          /\ UNCHANGED <<requests, writing, outcome, gone, received>>
    BY <1>5 DEF DaemonRead
  <2>2. /\ n \in 1..Len(wire) /\ Len(lines) \in Nat /\ Len(wire') = Len(wire) - n
        /\ \A i \in 1..Len(wire') : wire'[i] = wire[i + n]
        /\ Len(lines') = Len(lines) + 1
        /\ \A j \in 1..Len(lines) : lines'[j] = lines[j]
        /\ Len(lines'[Len(lines) + 1]) = n - 1
        /\ \A i \in 1..(n - 1) : lines'[Len(lines) + 1][i] = wire[i]
    BY <2>1, LineRead
  <2>3. \A i \in 1..(Len(wire') - 1) : wire'[i + 1] = Newline =>
           wire'[i][1] \in 1..Len(outcome) /\ outcome[wire'[i][1]] = "written"
    <3> SUFFICES ASSUME NEW i \in 1..(Len(wire') - 1), wire'[i + 1] = Newline
                 PROVE  wire'[i][1] \in 1..Len(outcome) /\ outcome[wire'[i][1]] = "written"
      OBVIOUS
    <3>0. /\ Len(wire) \in Nat /\ Len(wire') \in Nat /\ n \in Nat /\ i \in Nat
          /\ Len(wire') = Len(wire) - n /\ n >= 1 /\ 1 <= i /\ i <= Len(wire') - 1
      BY <1>0, <2>2
    <3>1. /\ i + n \in 1..(Len(wire) - 1) /\ i \in 1..Len(wire') /\ i + 1 \in 1..Len(wire')
          /\ (i + 1) + n = (i + n) + 1
      BY <3>0
    <3>2. wire'[i] = wire[i + n] /\ wire'[i + 1] = wire[(i + 1) + n]
      BY <2>2, <3>1
    <3>3. wire[(i + n) + 1] = Newline
      BY <3>1, <3>2
    <3> QED
      BY <3>1, <3>2, <3>3 DEF Ends
  <2>4. \A j \in 1..Len(lines') : Len(lines'[j]) > 0 =>
          /\ lines'[j][Len(lines'[j])][1] \in 1..Len(outcome)
          /\ outcome[lines'[j][Len(lines'[j])][1]] = "written"
    <3> SUFFICES ASSUME NEW j \in 1..Len(lines'), Len(lines'[j]) > 0
                 PROVE  /\ lines'[j][Len(lines'[j])][1] \in 1..Len(outcome)
                        /\ outcome[lines'[j][Len(lines'[j])][1]] = "written"
      OBVIOUS
    <3>1. CASE j \in 1..Len(lines)
      BY <2>2, <3>1 DEF Ends
    <3>2. CASE j = Len(lines) + 1
      <4>1. n - 1 \in 1..(n - 1) /\ n - 1 \in 1..(Len(wire) - 1) /\ (n - 1) + 1 = n
        BY <1>0, <2>2, <3>2
      <4>2. lines'[j][Len(lines'[j])] = wire[n - 1] /\ wire[(n - 1) + 1] = Newline
        BY <2>1, <2>2, <3>2, <4>1
      <4> QED
        BY <4>1, <4>2 DEF Ends
    <3> QED
      BY <2>2, <3>1, <3>2
  <2>5. ASSUME writing = "newline", ~gone
        PROVE  Len(wire') > 0 /\ wire'[Len(wire')] = <<Current, JsonLen>>
    <3>1. Len(wire) > 0 /\ wire[Len(wire)] = <<Current, JsonLen>>
      BY <2>5 DEF Ends
    <3>2. n # Len(wire)
      <4>1. <<Current, JsonLen>> # Newline
        BY <1>0 DEF Newline
      <4> QED
        BY <2>1, <3>1, <4>1
    <3>3. n \in 1..Len(wire) /\ Len(wire') = Len(wire) - n
      BY <2>2
    <3>4. Len(wire') > 0 /\ Len(wire') \in 1..Len(wire') /\ Len(wire') + n = Len(wire)
      <4>1. \A l, m \in Nat : n # l /\ n \in 1..l /\ m = l - n => m > 0 /\ m \in 1..m /\ m + n = l
        OBVIOUS
      <4> QED
        BY <1>0, <3>2, <3>3, <4>1
    <3>5. wire'[Len(wire')] = wire[Len(wire') + n]
      BY <2>2, <3>4
    <3> QED
      BY <3>1, <3>4, <3>5
  <2> QED
    BY <2>1, <2>3, <2>4, <2>5 DEF Ends, Current
<1>6. CASE DaemonHangup
  <2>1. wire' = <<>> /\ gone' = TRUE /\ UNCHANGED <<lines, outcome>>
    BY <1>6 DEF DaemonHangup
  <2>2. Len(wire') = 0
    BY <2>1, EmptySeq
  <2> QED
    BY <2>1, <2>2 DEF Ends
<1> QED
  BY <1>1, <1>2, <1>3, <1>4, <1>5, <1>6, Steps

\* No line signald reads is a request whose sender was told that it failed.
THEOREM FailedRequestsAreNotRead == Spec => []FailedIsNeverRead
<1>1. Init => Ends
  <2> SUFFICES ASSUME Init PROVE Ends
    OBVIOUS
  <2>1. Len(wire) = 0 /\ Len(lines) = 0 /\ writing = "nothing"
    BY EmptySeq DEF Init
  <2> QED
    BY <2>1 DEF Ends
<1>2. Typing /\ Ends => FailedIsNeverRead
  <2> SUFFICES ASSUME Typing, Ends, NEW k \in DOMAIN outcome, outcome[k] = "failed",
                      NEW j \in DOMAIN lines, lines[j] = Json(k)
               PROVE  FALSE
    BY DEF FailedIsNeverRead
  <2>1. k \in 1..Len(outcome) /\ k \in Nat /\ j \in 1..Len(lines)
    BY LenProperties DEF Typing
  <2>2. Len(lines[j]) = JsonLen /\ JsonLen > 0 /\ lines[j][JsonLen] = <<k, JsonLen>>
    <3>1. JsonLen \in 1..JsonLen /\ JsonLen > 0
      BY JsonLenAssumption
    <3> QED
      BY <2>1, <3>1, JsonType
  <2>3. lines[j][Len(lines[j])][1] = k
    BY <2>2
  <2>4. outcome[k] = "written"
    BY <2>1, <2>2, <2>3 DEF Ends
  <2> QED
    BY <2>4
<1> QED
  BY <1>1, <1>2, TypingInit, TypingStep, EndsStep, PTL DEF Spec

-----------------------------------------------------------------------------
(* The write side implements a line channel: until a write fails, signald  *)
(* reads the requests.                                                     *)

\* A request with its newline, and its bytes.
W == JsonLen + 1
Byte(k, b) == IF b = W THEN Newline ELSE <<k, b>>

\* Where the q-th request of a sequence begins.
Base(q) == q * W

\* The number of requests that were written with their newline.
Complete == IF writing = "nothing" THEN Len(requests) ELSE Len(requests) - 1

\* The socket holds the requests after those read, one behind the other: byte b
\* of the q-th is at Base(q) + b.
Stream == ~Failed =>
  /\ Len(lines) <= Complete
  /\ ~gone => Len(wire) = Base(Complete - Len(lines)) + IF writing = "newline" THEN JsonLen ELSE 0
  /\ \A q \in Nat, b \in 1..W : Base(q) + b <= Len(wire) => wire[Base(q) + b] = Byte(Len(lines) + 1 + q, b)

LEMMA WType == W \in Nat /\ W > 0 /\ JsonLen \in Nat /\ JsonLen > 0 /\ W = JsonLen + 1
BY JsonLenAssumption DEF W

LEMMA Distributes ==
  ASSUME NEW x \in Nat, NEW y \in Nat
  PROVE  Base(x) \in Nat /\ Base(x + y) = Base(x) + Base(y) /\ Base(0) = 0 /\ Base(1) = W
<1>1. W \in Nat
  BY WType
<1>2. x * W \in Nat /\ (x + y) * W = x * W + y * W /\ 0 * W = 0 /\ 1 * W = W
  <2> HIDE DEF W
  <2> QED
    BY <1>1
<1> QED
  BY <1>2 DEF Base

LEMMA BaseType == \A q \in Nat : Base(q) \in Nat
BY Distributes

LEMMA Positions ==
  ASSUME NEW q \in Nat, NEW c \in Nat, NEW b \in 1..W
  PROVE  /\ Base(q) \in Nat /\ Base(c) \in Nat /\ Base(q + 1) = Base(q) + W
         /\ q < c => Base(q) + b <= Base(c)
         /\ q >= c => Base(q) + b > Base(c)
         /\ q > c => Base(q) + b > Base(c) + W
<1>0. W \in Nat /\ W > 0 /\ b \in Nat /\ b <= W /\ b > 0
  BY WType
<1>1. /\ Base(q) \in Nat /\ Base(c) \in Nat /\ Base(q + 1) = Base(q) + W /\ Base(c + 1) = Base(c) + W
  BY Distributes
<1>2. ASSUME q < c PROVE Base(q) + b <= Base(c)
  <2> DEFINE d == c - (q + 1)
  <2>1. d \in Nat /\ c = (q + 1) + d
    BY <1>2
  <2> HIDE DEF d
  <2>2. Base((q + 1) + d) = Base(q + 1) + Base(d) /\ Base(d) \in Nat
    <3>1. q + 1 \in Nat
      OBVIOUS
    <3> QED
      BY <2>1, <3>1, Distributes
  <2> QED
    BY <1>0, <1>1, <2>1, <2>2
<1>3. ASSUME q >= c PROVE Base(q) >= Base(c)
  <2> DEFINE d == q - c
  <2>1. d \in Nat /\ q = c + d
    BY <1>3
  <2> HIDE DEF d
  <2>2. Base(q) = Base(c) + Base(d) /\ Base(d) \in Nat
    BY <2>1, Distributes
  <2> QED
    BY <1>1, <2>2
<1>4. ASSUME q > c PROVE Base(q) >= Base(c) + W
  <2> DEFINE d == q - (c + 1)
  <2>1. d \in Nat /\ q = (c + 1) + d
    BY <1>4
  <2> HIDE DEF d
  <2>2. Base((c + 1) + d) = Base(c + 1) + Base(d) /\ Base(d) \in Nat
    <3>1. c + 1 \in Nat
      OBVIOUS
    <3> QED
      BY <2>1, <3>1, Distributes
  <2> QED
    BY <1>0, <1>1, <2>1, <2>2
<1> QED
  BY <1>0, <1>1, <1>2, <1>3, <1>4

LEMMA FailedStays ==
  ASSUME Typing, Typing', [Next]_vars
  PROVE  /\ Failed => Failed'
         /\ outcome' = outcome => Failed' = Failed
         /\ Begun => Failed' = Failed
<1>0. /\ outcome \in Seq({"pending", "written", "failed"}) /\ DOMAIN outcome = 1..Len(outcome)
      /\ DOMAIN outcome' = 1..Len(outcome') /\ Len(outcome) \in Nat
  BY LenProperties DEF Typing
<1>1. outcome' = outcome => Failed' = Failed
  BY DEF Failed
<1>2. Begun => Failed' = Failed
  <2> SUFFICES ASSUME Begun PROVE Failed' = Failed
    OBVIOUS
  <2>1. /\ Len(outcome') = Len(outcome) + 1 /\ outcome'[Len(outcome) + 1] = "pending"
        /\ \A k \in 1..Len(outcome) : outcome'[k] = outcome[k]
    BY <1>0 DEF Begun
  <2>2. \A k \in 1..Len(outcome') : k \in 1..Len(outcome) \/ k = Len(outcome) + 1
    BY <1>0, <2>1
  <2>3. \A k \in 1..Len(outcome) : k \in 1..Len(outcome')
    BY <1>0, <2>1
  <2> QED
    BY <1>0, <2>1, <2>2, <2>3 DEF Failed
<1>3. ASSUME writing # "nothing", NEW result \in {"written", "failed"}, Return(result) PROVE Failed => Failed'
  <2>1. /\ Len(outcome') = Len(outcome) /\ Current \in 1..Len(outcome) /\ outcome[Current] = "pending"
        /\ \A k \in 1..Len(outcome) : k # Current => outcome'[k] = outcome[k]
    BY <1>3, Returned DEF Typing
  <2> SUFFICES ASSUME NEW k \in 1..Len(outcome), outcome[k] = "failed" PROVE Failed'
    BY <1>0 DEF Failed
  <2>2. outcome'[k] = "failed" /\ k \in 1..Len(outcome')
    BY <2>1
  <2> QED
    BY <1>0, <2>2 DEF Failed
<1>4. WriteJson => outcome' = outcome \/ (writing # "nothing" /\ Return("failed"))
  <2> SUFFICES ASSUME WriteJson PROVE outcome' = outcome \/ (writing # "nothing" /\ Return("failed"))
    OBVIOUS
  <2>1. outcome' = outcome \/ Return("failed")
    BY DEF WriteJson
  <2>2. writing # "nothing"
    BY DEF WriteJson
  <2> QED
    BY <2>1, <2>2
<1>5. WriteNewline => writing # "nothing" /\ (Return("written") \/ Return("failed"))
  BY DEF WriteNewline
<1>6. Aside \/ DaemonRead \/ DaemonHangup => outcome' = outcome
  BY DEF Aside, DaemonRead, DaemonHangup
<1> QED
  BY <1>1, <1>2, <1>3, <1>4, <1>5, <1>6, Steps

\* A request that fails is seen to have failed.
LEMMA FailureSeen ==
  ASSUME Typing, writing # "nothing", Return("failed")
  PROVE  Failed'
<1>1. outcome' \in Seq({"pending", "written", "failed"}) /\ Current \in 1..Len(outcome') /\ outcome'[Current] = "failed"
  BY Returned
<1> QED
  BY <1>1, LenProperties DEF Failed

LEMMA StreamStep ==
  ASSUME Typing, Typing', Stream, [Next]_vars
  PROVE  Stream'
<1> SUFFICES ASSUME ~Failed'
             PROVE  (/\ Len(lines) <= Complete
                     /\ ~gone => Len(wire) = Base(Complete - Len(lines)) + IF writing = "newline" THEN JsonLen ELSE 0
                     /\ \A q \in Nat, b \in 1..W :
                          Base(q) + b <= Len(wire) => wire[Base(q) + b] = Byte(Len(lines) + 1 + q, b))'
  BY DEF Stream
<1>0. /\ Len(outcome) \in Nat /\ Len(requests) \in Nat /\ Len(requests) = Len(outcome)
      /\ Len(wire) \in Nat /\ Len(lines) \in Nat /\ Complete \in Int
      /\ Current = Len(requests) /\ Current \in Nat /\ wire \in Seq(Bytes)
  BY LenProperties DEF Typing, Complete, Current
<1>1. /\ Len(lines) <= Complete
      /\ ~gone => Len(wire) = Base(Complete - Len(lines)) + IF writing = "newline" THEN JsonLen ELSE 0
      /\ \A q \in Nat, b \in 1..W : Base(q) + b <= Len(wire) => wire[Base(q) + b] = Byte(Len(lines) + 1 + q, b)
  BY FailedStays DEF Stream
<1>2. \A q \in Nat, b \in 1..W : Base(q) \in Nat /\ Base(q) + b > 0 /\ Base(q) + b \in Nat
  BY BaseType, WType
<1> DEFINE c == Complete - Len(lines)
<1>3. c \in Nat /\ Base(c) \in Nat
  <2>1. Len(lines) <= Complete
    BY <1>1
  <2>2. c \in Nat
    BY <1>0, <2>1
  <2> HIDE DEF c
  <2> QED
    BY <2>2, BaseType
<1>4. CASE Begun
  <2>1. PICK r : requests' = Append(requests, r)
    BY <1>4 DEF Begun
  <2>2. Len(requests') = Len(requests) + 1
    BY <2>1, AppendProperties DEF Typing
  <2>3. writing = "nothing" /\ writing' = "json" /\ UNCHANGED <<gone, wire, lines>>
    BY <1>4 DEF Begun, socketVars
  <2>4. Complete' = Complete
    BY <1>0, <2>2, <2>3 DEF Complete
  <2> QED
    BY <1>1, <2>3, <2>4
<1>5. CASE Aside
  <2>1. UNCHANGED <<requests, writing, gone, wire, lines, Complete>>
    BY <1>5 DEF Aside, socketVars, Complete
  <2> QED
    BY <1>1, <2>1
<1>6. CASE WriteJson
  <2>1. PICK w \in 0..JsonLen :
          /\ SendStr(Json(Current), w)
          /\ IF w = JsonLen THEN writing' = "newline" /\ UNCHANGED <<outcome, error, phase>>
             ELSE Return("failed")
    BY <1>6 DEF WriteJson
  <2>2. writing = "json" /\ UNCHANGED <<gone, lines, requests>> /\ (gone => w = 0)
    BY <1>6, <2>1 DEF WriteJson, SendStr
  <2>3. w = JsonLen /\ writing' = "newline"
    BY <2>1, <2>2, FailureSeen
  <2>4. ~gone /\ Complete' = Complete /\ Complete = Len(requests) - 1
    BY <2>2, <2>3, WType DEF Complete
  <2>5. /\ Len(wire') = Len(wire) + JsonLen /\ \A i \in 1..Len(wire) : wire'[i] = wire[i]
        /\ \A i \in 1..JsonLen : wire'[Len(wire) + i] = <<Current, i>>
    BY <1>0, <2>1, <2>3, JsonSent DEF SendStr
  <2>6. Len(wire) = Base(c)
    BY <1>1, <1>3, <2>2, <2>4
  <2>7. ASSUME NEW q \in Nat, NEW b \in 1..W, Base(q) + b <= Len(wire')
        PROVE  wire'[Base(q) + b] = Byte(Len(lines) + 1 + q, b)
    <3>0. /\ Base(q) \in Nat /\ b \in Nat /\ b > 0 /\ b <= W
          /\ Base(q) + b > Len(wire) \/ Base(q) + b <= Len(wire)
      <4>1. Base(q) \in Nat /\ b \in Nat /\ b > 0 /\ b <= W
        BY BaseType, WType
      <4> QED
        BY <1>0, <4>1
    <3>1. CASE Base(q) + b <= Len(wire)
      <4>1. Base(q) + b \in 1..Len(wire)
        BY <1>0, <3>0, <3>1
      <4> QED
        BY <1>1, <2>5, <3>1, <4>1
    <3>2. CASE Base(q) + b > Len(wire)
      <4>1. q = c
        <5> HIDE DEF c
        <5>1. Len(wire') = Base(c) + JsonLen
          BY <2>5, <2>6
        <5>2. Base(q) + b <= Base(c) + W /\ Base(q) + b > Base(c)
          BY <1>3, <2>6, <2>7, <3>0, <3>2, <5>1, WType
        <5>3. /\ q < c => Base(q) + b <= Base(c)
              /\ q > c => Base(q) + b > Base(c) + W
          BY <1>3, Positions
        <5>4. ~(q < c) /\ ~(q > c)
          BY <1>3, <3>0, <5>2, <5>3, WType
        <5> QED
          BY <1>3, <5>4
      <4>2. b \in 1..JsonLen /\ b # W
        <5> HIDE DEF c
        <5>1. Base(c) + b <= Base(c) + JsonLen
          BY <2>5, <2>6, <2>7, <4>1
        <5>2. b <= JsonLen
          BY <1>3, <5>1, WType
        <5> QED
          BY <5>2, WType
      <4>3. wire'[Base(q) + b] = <<Current, b>>
        BY <2>5, <2>6, <4>1, <4>2
      <4>4. Len(lines) + 1 + q = Current
        BY <1>0, <2>4, <4>1
      <4> QED
        BY <4>2, <4>3, <4>4 DEF Byte
    <3> QED
      BY <3>0, <3>1, <3>2
  <2>8. Len(wire') = Base(Complete - Len(lines)) + JsonLen
    BY <2>5, <2>6
  <2> QED
    BY <1>1, <2>2, <2>3, <2>4, <2>7, <2>8
<1>7. CASE WriteNewline
  <2>1. PICK w \in 0..1 : SendStr(<<Newline>>, w) /\ Return(IF w = 1 THEN "written" ELSE "failed")
    BY <1>7 DEF WriteNewline
  <2>2. writing = "newline" /\ writing' = "nothing" /\ UNCHANGED <<gone, lines, requests>> /\ (gone => w = 0)
    BY <1>7, <2>1 DEF WriteNewline, SendStr, Return
  <2>3. w = 1
    <3>1. w # 0
      <4> SUFFICES ASSUME w = 0 PROVE FALSE
        OBVIOUS
      <4>1. Return("failed")
        BY <2>1
      <4> QED
        BY <2>2, <4>1, FailureSeen
    <3> QED
      BY <3>1
  <2>4. ~gone /\ Complete' = Complete + 1 /\ Complete = Len(requests) - 1
    BY <1>0, <2>2, <2>3 DEF Complete
  <2>5. wire' = Append(wire, Newline)
    BY <1>0, <2>1, <2>3, NewlineSent DEF SendStr
  <2>6. /\ Len(wire') = Len(wire) + 1 /\ \A i \in 1..Len(wire) : wire'[i] = wire[i]
        /\ wire'[Len(wire) + 1] = Newline
    BY <1>0, <2>5
  <2>7. Len(wire) = Base(c) + JsonLen
    BY <1>1, <2>2, <2>4
  <2>8. ASSUME NEW q \in Nat, NEW b \in 1..W, Base(q) + b <= Len(wire')
        PROVE  wire'[Base(q) + b] = Byte(Len(lines) + 1 + q, b)
    <3>0. /\ Base(q) \in Nat /\ b \in Nat /\ b > 0 /\ b <= W
          /\ Base(q) + b > Len(wire) \/ Base(q) + b <= Len(wire)
      <4>1. Base(q) \in Nat /\ b \in Nat /\ b > 0 /\ b <= W
        BY BaseType, WType
      <4> QED
        BY <1>0, <4>1
    <3>1. CASE Base(q) + b <= Len(wire)
      <4>1. Base(q) + b \in 1..Len(wire)
        BY <1>0, <3>0, <3>1
      <4> QED
        BY <1>1, <2>6, <3>1, <4>1
    <3>2. CASE Base(q) + b > Len(wire)
      <4> HIDE DEF c
      <4>1. Base(q) + b = Base(c) + W /\ Base(q) + b = Len(wire) + 1
        <5>1. Len(wire') = Len(wire) + 1
          BY <2>6
        <5>2. Base(q) + b = Len(wire) + 1
          BY <1>0, <2>8, <3>0, <3>2, <5>1
        <5> QED
          BY <1>3, <2>7, <5>2, WType
      <4>2. q = c
        <5>1. ~(q < c) /\ ~(q > c)
          <6>1. /\ q < c => Base(q) + b <= Base(c)
                /\ q > c => Base(q) + b > Base(c) + W
            BY <1>3, Positions
          <6> QED
            BY <1>3, <3>0, <4>1, <6>1, WType
        <5> QED
          BY <1>3, <5>1
      <4>3. b = W
        BY <1>3, <3>0, <4>1, <4>2, WType
      <4> QED
        BY <2>6, <4>1, <4>3 DEF Byte
    <3> QED
      BY <3>0, <3>1, <3>2
  <2>9. Len(wire') = Base(Complete' - Len(lines))
    <3>1. Complete' - Len(lines) = c + 1 /\ 1 \in 1..W
      BY <1>0, <2>4, WType
    <3>2. Base(c + 1) = Base(c) + W
      <4> HIDE DEF c
      <4> QED
        BY <1>3, <3>1, Positions
    <3> QED
      BY <1>3, <2>6, <2>7, <3>1, <3>2, WType
  <2>10. Len(lines) <= Complete'
    BY <1>0, <1>1, <2>4
  <2>11. \A x \in Nat : x + 0 = x
    OBVIOUS
  <2> QED
    BY <1>0, <2>2, <2>6, <2>8, <2>9, <2>10, <2>11
<1>8. CASE DaemonRead
  <2>1. PICK n \in DOMAIN wire :
          /\ wire[n] = Newline /\ \A i \in 1..(n - 1) : wire[i] # Newline
          /\ lines' = Append(lines, SubSeq(wire, 1, n - 1))
          /\ wire' = SubSeq(wire, n + 1, Len(wire))
          /\ UNCHANGED <<requests, writing, outcome, gone, received>>
    BY <1>8 DEF DaemonRead
  <2>2. /\ n \in 1..Len(wire) /\ Len(wire') = Len(wire) - n /\ Len(lines') = Len(lines) + 1
        /\ \A i \in 1..Len(wire') : wire'[i] = wire[i + n]
    BY <2>1, LineRead
  <2>3. ~gone /\ Complete' = Complete
    BY <2>1, <2>2, EmptySeq DEF Typing, Complete
  <2>4. \A b \in 1..W : b <= Len(wire) => wire[b] = Byte(Len(lines) + 1, b)
    <3> SUFFICES ASSUME NEW b \in 1..W, b <= Len(wire) PROVE wire[b] = Byte(Len(lines) + 1, b)
      OBVIOUS
    <3>1. Base(0) + b = b /\ Len(lines) + 1 + 0 = Len(lines) + 1
      BY <1>0, WType, Distributes
    <3>2. Base(0) + b <= Len(wire) => wire[Base(0) + b] = Byte(Len(lines) + 1 + 0, b)
      BY <1>1
    <3> QED
      BY <3>1, <3>2
  <2>5. \A b \in 1..W : b # W => Byte(Len(lines) + 1, b) # Newline
    BY <1>0, WType DEF Byte, Newline
  <2>6. n = W
    <3>1. W <= Len(wire) => n <= W
      <4> SUFFICES ASSUME W <= Len(wire), n > W PROVE FALSE
        BY <2>2, WType
      <4>1. W \in 1..W /\ W \in 1..(n - 1)
        BY <2>2, WType
      <4>2. wire[W] = Newline
        BY <2>4, <4>1 DEF Byte
      <4> QED
        BY <2>1, <4>1, <4>2
    <3>2. n <= W => n = W
      <4> SUFFICES ASSUME n <= W, n # W PROVE FALSE
        OBVIOUS
      <4>1. n \in 1..W /\ n <= Len(wire)
        BY <2>2, WType
      <4> QED
        BY <2>1, <2>4, <2>5, <4>1
    <3> QED
      BY <1>0, <2>2, <3>1, <3>2, WType
  <2>7. c > 0
    <3> SUFFICES ASSUME c = 0 PROVE FALSE
      BY <1>3
    <3>1. Base(c) = 0
      BY Distributes
    <3>2. Len(wire) <= JsonLen
      BY <1>1, <2>3, <3>1, WType
    <3> QED
      BY <1>0, <2>2, <2>6, <3>2, WType
  <2>8. Len(lines') <= Complete'
    BY <1>0, <2>2, <2>3, <2>7
  <2>9. Len(wire') = Base(Complete' - Len(lines')) + IF writing = "newline" THEN JsonLen ELSE 0
    <3>1. c - 1 \in Nat /\ Complete' - Len(lines') = c - 1 /\ (c - 1) + 1 = c /\ 1 \in 1..W
      BY <1>0, <1>3, <2>2, <2>3, <2>7, WType
    <3> HIDE DEF c
    <3>2. Base(c) = Base(c - 1) + W /\ Base(c - 1) \in Nat
      <4>1. Base((c - 1) + 1) = Base(c - 1) + Base(1) /\ Base(1) = W
        BY <3>1, Distributes
      <4> QED
        BY <3>1, <4>1, BaseType
    <3>3. Len(wire) = Base(c) + IF writing = "newline" THEN JsonLen ELSE 0
      BY <1>1, <2>3 DEF c
    <3>4. Len(wire') = Len(wire) - W
      BY <2>2, <2>6
    <3> DEFINE rest == IF writing = "newline" THEN JsonLen ELSE 0
    <3>5. rest \in Nat
      BY WType
    <3> HIDE DEF rest
    <3>6. Len(wire') = Base(c - 1) + rest
      <4>1. Len(wire) = Base(c) + rest
        BY <3>3 DEF rest
      <4> QED
        BY <3>2, <3>4, <3>5, <4>1, WType
    <3>7. Len(wire') = Base(Complete' - Len(lines')) + rest
      BY <3>1, <3>6
    <3> QED
      BY <3>7 DEF rest
  <2>10. ASSUME NEW q \in Nat, NEW b \in 1..W, Base(q) + b <= Len(wire')
         PROVE  wire'[Base(q) + b] = Byte(Len(lines') + 1 + q, b)
    <3>1. /\ Base(q + 1) = Base(q) + W /\ Base(q) \in Nat /\ q + 1 \in Nat
          /\ b \in Nat /\ b > 0
      <4>1. Base(q + 1) = Base(q) + Base(1) /\ Base(1) = W
        BY Distributes
      <4> QED
        BY <4>1, BaseType, WType
    <3>2. (Base(q) + b) + n = Base(q + 1) + b /\ Base(q + 1) + b <= Len(wire) /\ Base(q) + b \in 1..Len(wire')
      <4>1. Len(wire') = Len(wire) - n /\ n = W
        BY <2>2, <2>6
      <4> QED
        BY <1>0, <2>10, <3>1, <4>1, WType
    <3>3. wire'[Base(q) + b] = wire[Base(q + 1) + b]
      BY <2>2, <3>2
    <3>4. wire[Base(q + 1) + b] = Byte(Len(lines) + 1 + (q + 1), b)
      BY <1>1, <3>1, <3>2
    <3>5. Len(lines') + 1 + q = Len(lines) + 1 + (q + 1)
      BY <1>0, <2>2
    <3> QED
      BY <3>3, <3>4, <3>5
  <2> QED
    BY <2>1, <2>8, <2>9, <2>10
<1>9. CASE DaemonHangup
  <2>1. wire' = <<>> /\ gone' = TRUE /\ UNCHANGED <<requests, writing, lines>>
    BY <1>9 DEF DaemonHangup
  <2>2. Len(wire') = 0 /\ Complete' = Complete
    BY <2>1, EmptySeq DEF Complete
  <2>3. \A q \in Nat, b \in 1..W : ~(Base(q) + b <= Len(wire'))
    BY <1>2, <2>2
  <2> QED
    BY <1>1, <2>1, <2>2, <2>3
<1> QED
  BY <1>4, <1>5, <1>6, <1>7, <1>8, <1>9, Steps

\* What the channel was sent.
LEMMA LensOfRequests ==
  ASSUME NEW S, NEW r \in Seq(S)
  PROVE  /\ [k \in DOMAIN r |-> JsonLen] \in Seq({JsonLen}) /\ Len([k \in DOMAIN r |-> JsonLen]) = Len(r)
         /\ \A i \in 1..Len(r) : [k \in DOMAIN r |-> JsonLen][i] = JsonLen
<1> DEFINE lens == [k \in DOMAIN r |-> JsonLen]
<1>1. Len(r) \in Nat /\ DOMAIN r = 1..Len(r)
  BY LenProperties
<1>2. lens \in [1..Len(r) -> {JsonLen}] /\ lens = [k \in 1..Len(r) |-> JsonLen]
  BY <1>1
<1>3. lens \in Seq({JsonLen})
  BY <1>1, <1>2, SeqDef
<1> QED
  BY <1>1, <1>2, <1>3

LEMMA RequestLensType ==
  ASSUME Typing
  PROVE  /\ RequestLens \in Seq({JsonLen}) /\ Len(RequestLens) = Len(requests)
         /\ \A k \in 1..Len(requests) : RequestLens[k] = JsonLen
BY LensOfRequests DEF Typing, RequestLens

\* Every step of the write side is one of the channel, or none.
LEMMA ChannelStep ==
  ASSUME Typing, Typing', Stream, Stream', [Next]_vars
  PROVE  [Channel!Next]_(Channel!vars)
<1>0. /\ Len(requests) \in Nat /\ Len(lines) \in Nat /\ Current = Len(requests)
      /\ RequestLens \in Seq({JsonLen}) /\ Len(RequestLens) = Len(requests)
      /\ \A k \in 1..Len(requests) : RequestLens[k] = JsonLen
  BY LenProperties, RequestLensType DEF Typing, Current
<1>1. requests' = requests => RequestLens' = RequestLens
  BY DEF RequestLens
<1>2. ASSUME UNCHANGED <<requests, lines>>, Failed' = Failed PROVE UNCHANGED Channel!vars
  BY <1>1, <1>2 DEF Channel!vars
<1>3. ASSUME Failed, Failed', requests' = requests PROVE Channel!Next
  BY <1>1, <1>3 DEF Channel!Next, Channel!Garbled
<1>4. ASSUME writing # "nothing", ~Failed, Failed', UNCHANGED <<requests, lines>> PROVE Channel!Next
  <2>1. Len(lines) + 1 <= Len(requests) /\ Len(lines) + 1 \in 1..Len(requests)
    <3>1. Len(lines) <= Len(requests) - 1
      BY <1>4 DEF Stream, Complete
    <3> QED
      BY <1>0, <3>1
  <2>2. Channel!Due <= Len(RequestLens) /\ RequestLens[Channel!Due] > 0
    BY <1>0, <2>1, JsonLenAssumption DEF Channel!Due
  <2>3. Channel!Fail
    BY <1>1, <1>4, <2>2 DEF Channel!Fail
  <2> QED
    BY <2>3 DEF Channel!Next
<1>5. ASSUME writing # "nothing", UNCHANGED <<requests, lines>>, Failed => Failed'
      PROVE  Channel!Next \/ UNCHANGED Channel!vars
  <2>1. Failed \in BOOLEAN /\ Failed' \in BOOLEAN
    BY DEF Failed
  <2>2. CASE Failed' = Failed
    BY <1>2, <1>5, <2>2
  <2>3. CASE ~Failed /\ Failed'
    BY <1>4, <1>5, <2>3
  <2> QED
    BY <1>5, <2>1, <2>2, <2>3
<1>6. CASE Begun
  <2>1. PICK r : requests' = Append(requests, r)
    BY <1>6 DEF Begun
  <2>2. Len(requests') = Len(requests) + 1
    BY <2>1, AppendProperties DEF Typing
  <2>3. RequestLens' = Append(RequestLens, JsonLen)
    <3>1. RequestLens' \in Seq({JsonLen}) /\ Len(RequestLens') = Len(requests')
          /\ \A k \in 1..Len(requests') : RequestLens'[k] = JsonLen
      BY LensOfRequests DEF Typing, RequestLens
    <3>2. /\ Append(RequestLens, JsonLen) \in Seq({JsonLen})
          /\ Len(Append(RequestLens, JsonLen)) = Len(requests')
      BY <1>0, <2>2
    <3>3. \A k \in 1..Len(requests') : Append(RequestLens, JsonLen)[k] = JsonLen
      BY <1>0, <3>2, ElementOfSeq
    <3> QED
      BY <3>1, <3>2, <3>3, SeqEqual
  <2>4. Len(RequestLens) < MaxTransfers /\ lines' = lines /\ Failed' = Failed
    BY <1>0, <1>6, FailedStays DEF Begun, socketVars
  <2>5. Channel!Write(JsonLen)
    BY <2>3, <2>4 DEF Channel!Write
  <2> QED
    BY <2>5 DEF Channel!Next
<1>7. CASE Aside \/ DaemonHangup
  <2>1. UNCHANGED <<requests, lines, outcome>>
    BY <1>7 DEF Aside, DaemonHangup, socketVars
  <2> QED
    BY <1>2, <2>1, FailedStays
<1>8. CASE WriteJson
  <2>1. writing # "nothing" /\ UNCHANGED <<requests, lines>>
    BY <1>8 DEF WriteJson, SendStr
  <2> QED
    BY <1>5, <2>1, FailedStays
<1>9. CASE WriteNewline
  <2>1. writing # "nothing" /\ UNCHANGED <<requests, lines>>
    BY <1>9 DEF WriteNewline, SendStr
  <2> QED
    BY <1>5, <2>1, FailedStays
<1>10. CASE DaemonRead
  <2>1. PICK n \in DOMAIN wire :
          /\ wire[n] = Newline /\ \A i \in 1..(n - 1) : wire[i] # Newline
          /\ lines' = Append(lines, SubSeq(wire, 1, n - 1))
          /\ wire' = SubSeq(wire, n + 1, Len(wire))
          /\ UNCHANGED <<requests, writing, outcome, gone, received>>
    BY <1>10 DEF DaemonRead
  <2>2. Failed' = Failed
    BY <2>1, FailedStays
  <2>3. CASE Failed
    BY <1>3, <2>1, <2>2, <2>3
  <2>4. CASE ~Failed
    <3>1. /\ n \in 1..Len(wire) /\ Len(wire) \in Nat /\ Len(lines') = Len(lines) + 1
          /\ SubSeq(wire, 1, n - 1) \in Seq(Bytes) /\ Len(SubSeq(wire, 1, n - 1)) = n - 1
          /\ \A i \in 1..(n - 1) : SubSeq(wire, 1, n - 1)[i] = wire[i]
      <4>1. lines \in Seq(Seq(Bytes)) /\ wire \in Seq(Bytes) /\ DOMAIN wire = 1..Len(wire)
        BY LenProperties DEF Typing
      <4>2. n \in 1..Len(wire) /\ Len(wire) \in Nat /\ Len(lines') = Len(lines) + 1
        BY <2>1, LineRead
      <4>3. \A i \in 1..(n - 1) : wire[i] \in Bytes
        BY <4>1, <4>2, ElementOfSeq
      <4> DEFINE line == SubSeq(wire, 1, n - 1)
      <4>4. /\ line \in Seq(Bytes) /\ Len(line) = (IF 1 <= n - 1 THEN (n - 1) - 1 + 1 ELSE 0)
            /\ \A i \in 1..((n - 1) - 1 + 1) : line[i] = wire[1 + i - 1]
        BY <4>2, <4>3, SubSeqProperties
      <4> QED
        BY <4>2, <4>4
    <3>2. Len(lines) + 1 <= Len(requests) /\ Len(lines) + 1 \in 1..Len(requests)
      <4>1. Len(lines') <= Complete'
        BY <2>2, <2>4 DEF Stream
      <4>2. Complete' <= Len(requests)
        BY <1>0, <2>1 DEF Complete
      <4>3. Complete' \in Int
        BY <1>0, <2>1 DEF Complete
      <4> QED
        BY <1>0, <3>1, <4>1, <4>2, <4>3
    <3>3. \A b \in 1..W : b <= Len(wire) => wire[b] = Byte(Len(lines) + 1, b)
      <4> SUFFICES ASSUME NEW b \in 1..W, b <= Len(wire) PROVE wire[b] = Byte(Len(lines) + 1, b)
        OBVIOUS
      <4>1. Base(0) + b = b /\ Len(lines) + 1 + 0 = Len(lines) + 1
        BY <1>0, WType, Distributes
      <4>2. Base(0) + b <= Len(wire) => wire[Base(0) + b] = Byte(Len(lines) + 1 + 0, b)
        BY <2>4 DEF Stream
      <4> QED
        BY <4>1, <4>2
    <3>4. n = W
      <4>1. W <= Len(wire) => n <= W
        <5> SUFFICES ASSUME W <= Len(wire), n > W PROVE FALSE
          BY <3>1, WType
        <5>1. W \in 1..W /\ W \in 1..(n - 1)
          BY <3>1, WType
        <5> QED
          BY <2>1, <3>3, <5>1 DEF Byte
      <4>2. n <= W => n = W
        <5> SUFFICES ASSUME n <= W, n # W PROVE FALSE
          OBVIOUS
        <5>1. n \in 1..W /\ n <= Len(wire)
          BY <3>1, WType
        <5>2. wire[n] = <<Len(lines) + 1, n>>
          BY <3>3, <5>1 DEF Byte
        <5> QED
          BY <1>0, <2>1, <5>2 DEF Newline
      <4> QED
        BY <3>1, <4>1, <4>2, WType
    <3>5. SubSeq(wire, 1, n - 1) = Channel!Line(Len(lines) + 1, JsonLen)
      <4> DEFINE line == SubSeq(wire, 1, n - 1)
      <4>1. n - 1 = JsonLen
        BY <3>4, WType
      <4>2. \A i \in 1..JsonLen : line[i] = <<Len(lines) + 1, i>>
        <5> SUFFICES ASSUME NEW i \in 1..JsonLen PROVE line[i] = <<Len(lines) + 1, i>>
          OBVIOUS
        <5>1. i \in 1..W /\ i # W /\ i <= Len(wire) /\ i \in 1..(n - 1)
          BY <3>1, <3>4, WType
        <5>2. wire[i] = <<Len(lines) + 1, i>>
          BY <3>3, <5>1 DEF Byte
        <5> QED
          BY <3>1, <5>1, <5>2
      <4>3. Channel!Line(Len(lines) + 1, JsonLen) = Json(Len(lines) + 1)
        BY DEF Channel!Line, Json
      <4>4. /\ Json(Len(lines) + 1) \in Seq(Bytes) /\ Len(Json(Len(lines) + 1)) = JsonLen
            /\ \A i \in 1..JsonLen : Json(Len(lines) + 1)[i] = <<Len(lines) + 1, i>>
        BY <1>0, JsonType
      <4>5. line \in Seq(Bytes) /\ Len(line) = JsonLen
        BY <3>1, <4>1
      <4> HIDE DEF line
      <4>6. line = Json(Len(lines) + 1)
        BY <4>2, <4>4, <4>5, SeqEqual
      <4> QED
        BY <4>3, <4>6 DEF line
    <3>6. Channel!Deliver
      BY <1>0, <1>1, <2>1, <2>2, <2>4, <3>2, <3>5 DEF Channel!Deliver, Channel!Due
    <3> QED
      BY <3>6 DEF Channel!Next
  <2> QED
    BY <2>3, <2>4
<1> QED
  BY <1>6, <1>7, <1>8, <1>9, <1>10, Steps

\* signald_send_json (comms.c:66) writes to a line channel that fails with the
\* first request that is not taken whole, and not before, whatever the socket
\* takes at a time.
THEOREM ImplementsLineChannel == Spec => RequestByRequest
<1>1. Init => Stream /\ Channel!Init
  <2> SUFFICES ASSUME Init PROVE Stream /\ Channel!Init
    OBVIOUS
  <2>1. Len(lines) = 0 /\ Len(wire) = 0 /\ Len(requests) = 0 /\ lines = <<>> /\ writing = "nothing"
    BY EmptySeq DEF Init
  <2>2. ~Failed
    BY DEF Init, Failed
  <2>3. RequestLens = <<>>
    BY <2>1, TypingInit, RequestLensType, EmptySeq
  <2>4. Stream
    <3>1. \A q \in Nat, b \in 1..W : ~(Base(q) + b <= 0)
      BY BaseType, WType
    <3>2. Complete - Len(lines) = 0 /\ Len(lines) <= Complete
      BY <2>1 DEF Complete
    <3>3. Base(0) + 0 = 0
      BY Distributes
    <3> QED
      BY <2>1, <3>1, <3>2, <3>3 DEF Stream
  <2> QED
    BY <2>1, <2>2, <2>3, <2>4 DEF Channel!Init
<1> QED
  BY <1>1, TypingInit, TypingStep, StreamStep, ChannelStep, PTL
  DEF Spec, RequestByRequest, Channel!Spec

-----------------------------------------------------------------------------
(* Attachments.                                                            *)

LinksTyping ==
  /\ served \in [Targets -> Paths \union {None, "partial"}]
  /\ links \subseteq Targets \X Paths

LEMMA TargetType ==
  ASSUME NEW p \in Paths, NEW t \in Types
  PROVE  Target(p, t) \in Targets
BY DEF Target, Targets

LEMMA ParseKeepsLinks ==
  ASSUME LinksTyping, LinksKeepContent, NEW p \in Paths, NEW t \in Types, NEW s, NEW readable,
         ParseAttachment(p, t, s, readable)
  PROVE  LinksTyping' /\ LinksKeepContent'
<1> DEFINE target == Target(p, t)
<1>1. target \in Targets
  BY TargetType
<1>2. CASE UNCHANGED <<served, links>>
  BY <1>2 DEF LinksTyping, LinksKeepContent
<1>3. CASE MayCopy(target) /\ LinkAttachment(p, target)
  <2>1. served[target] = None /\ served' = [served EXCEPT ![target] = p] /\ links' = links \union {<<target, p>>}
    BY <1>3 DEF MayCopy, LinkAttachment
  <2>2. LinksTyping'
    BY <1>1, <2>1 DEF LinksTyping
  <2>3. LinksKeepContent'
    <3> SUFFICES ASSUME NEW l \in links' PROVE served'[l[1]] = l[2]
      BY DEF LinksKeepContent
    <3>1. CASE l = <<target, p>>
      BY <1>1, <2>1, <3>1 DEF LinksTyping
    <3>2. CASE l \in links
      <4>1. l[1] \in Targets /\ l[2] \in Paths /\ served[l[1]] = l[2]
        BY <3>2 DEF LinksTyping, LinksKeepContent
      <4>2. l[1] # target
        BY <2>1, <4>1, AttachmentNames
      <4> QED
        BY <2>1, <4>1, <4>2 DEF LinksTyping
    <3> QED
      BY <2>1, <3>1, <3>2
  <2> QED
    BY <2>2, <2>3
<1>4. CASE MayCopy(target) /\ CopyFails(target)
  <2>1. /\ served[target] = None /\ links' = links
        /\ served' = served \/ served' = [served EXCEPT ![target] = "partial"]
    BY <1>4 DEF MayCopy, CopyFails
  <2>2. LinksTyping'
    BY <1>1, <2>1 DEF LinksTyping
  <2>3. LinksKeepContent'
    <3> SUFFICES ASSUME NEW l \in links PROVE served'[l[1]] = l[2]
      BY <2>1 DEF LinksKeepContent
    <3>1. l[1] \in Targets /\ l[2] \in Paths /\ served[l[1]] = l[2]
      BY DEF LinksTyping, LinksKeepContent
    <3>2. l[1] # target
      BY <2>1, <3>1, AttachmentNames
    <3> QED
      BY <2>1, <3>1, <3>2 DEF LinksTyping
  <2> QED
    BY <2>2, <2>3
<1> QED
  BY <1>2, <1>3, <1>4 DEF ParseAttachment, WriteExternalAttachment

\* signald_write_external_attachment (attachments.c) never changes what an earlier
\* link leads to, whatever files have the same name.
THEOREM LinksStay == Spec => []LinksKeepContent
<1>1. Init => LinksTyping /\ LinksKeepContent
  BY DEF Init, AttachmentsInit, LinksTyping, LinksKeepContent
<1>2. LinksTyping /\ LinksKeepContent /\ [Next]_vars => LinksTyping' /\ LinksKeepContent'
  <2> SUFFICES ASSUME LinksTyping, LinksKeepContent, [Next]_vars PROVE LinksTyping' /\ LinksKeepContent'
    OBVIOUS
  <2>1. CASE UNCHANGED <<served, links>>
    BY <2>1 DEF LinksTyping, LinksKeepContent
  <2>2. CASE Receive
    BY <2>2, ParseKeepsLinks DEF Receive
  <2>3. [Next]_vars => Receive \/ UNCHANGED <<served, links>>
    BY DEF Next, vars, attachmentVars, SendMessage, Ask, Close, WriteJson, WriteNewline, DaemonRead,
           DaemonHangup, Terminated
  <2> QED
    BY <2>1, <2>2, <2>3
<1> QED
  BY <1>1, <1>2, PTL DEF Spec

-----------------------------------------------------------------------------
(* Messages.                                                               *)

\* Induction, with a set in the place of a predicate.
LEMMA Induction ==
  ASSUME NEW S, 0 \in S, \A n \in Nat : n \in S => n + 1 \in S
  PROVE  Nat \subseteq S
<1> SUFFICES ASSUME Nat \ S # {} PROVE FALSE
  OBVIOUS
<1>1. PICK least \in Nat \ S : \A j \in Nat \ S : ~(<<j, least>> \in OpToRel(<, Nat))
  <2>1. Nat \ S \in SUBSET Nat
    OBVIOUS
  <2> QED
    BY <2>1, NatLessThanWellFounded, WFMin, Zenon
<1>2. \A j \in Nat \ S : ~(j < least)
  BY <1>1 DEF OpToRel
<1>3. least \in Nat /\ least # 0 /\ least - 1 \in Nat /\ least - 1 < least /\ (least - 1) + 1 = least
  OBVIOUS
<1>4. least - 1 \in S
  BY <1>2, <1>3
<1> QED
  BY <1>3, <1>4

Pieces == Texts \union Images \union {BrokenTag}

\* The loop is a recursive definition.
LEMMA DetachedDef ==
  ASSUME NEW m \in Seq(Pieces), NEW o, NEW t
  PROVE  /\ Detached(m, o, t)[0] = Start(t)
         /\ \A n \in 1..Len(m) : Detached(m, o, t)[n] = Detach(Detached(m, o, t)[n - 1], m[n], o[n])
<1> DEFINE IsLoop(d, N) == d = [n \in 0..N |-> IF n = 0 THEN Start(t) ELSE Detach(d[n - 1], m[n], o[n])]
           S == {N \in Nat : \E d : IsLoop(d, N)}
<1>1. 0 \in S
  <2>1. IsLoop([n \in 0..0 |-> Start(t)], 0)
    OBVIOUS
  <2> QED
    BY <2>1
<1>2. ASSUME NEW N \in Nat, N \in S PROVE N + 1 \in S
  <2>1. PICK d : IsLoop(d, N)
    BY <1>2
  <2> DEFINE e == [n \in 0..(N + 1) |-> IF n = 0 THEN Start(t) ELSE Detach(d[n - 1], m[n], o[n])]
  <2>2. \A n \in 0..N : e[n] = d[n]
    <3> HIDE DEF S
    <3> QED
      BY <2>1
  <2>3. \A n \in 0..(N + 1) : n # 0 => e[n - 1] = d[n - 1]
    <3>1. \A n \in 0..(N + 1) : n # 0 => n - 1 \in 0..N
      OBVIOUS
    <3> HIDE DEF e
    <3> QED
      BY <2>2, <3>1
  <2>4. IsLoop(e, N + 1)
    BY <2>3
  <2>5. \E x : IsLoop(x, N + 1)
    <3> HIDE DEF e
    <3> QED
      BY <2>4
  <2> HIDE DEF IsLoop
  <2> QED
    BY <2>5
<1> HIDE DEF S
<1>3. Len(m) \in Nat /\ Len(m) \in S
  BY <1>1, <1>2, Induction, LenProperties
<1>4. \E d : IsLoop(d, Len(m))
  BY <1>3 DEF S
<1>5. IsLoop(Detached(m, o, t), Len(m))
  BY <1>4 DEF Detached
<1> QED
  BY <1>3, <1>5

-----------------------------------------------------------------------------
(* Positions of a kind, up to one of them.                                 *)

UpTo(P, n) == {j \in 1..n : j \in P}

LEMMA UpToCount ==
  ASSUME NEW P, NEW n \in Nat
  PROVE  /\ Cardinality(UpTo(P, 0)) = 0 /\ Cardinality(UpTo(P, n)) \in Nat
         /\ \A i \in UpTo(P, n) : Cardinality(UpTo(P, i)) \in 1..Cardinality(UpTo(P, n))
         /\ n + 1 \in P => /\ UpTo(P, n + 1) = UpTo(P, n) \union {n + 1}
                           /\ Cardinality(UpTo(P, n + 1)) = Cardinality(UpTo(P, n)) + 1
         /\ n + 1 \notin P => UpTo(P, n + 1) = UpTo(P, n)
<1>1. \A k \in Nat : IsFiniteSet(UpTo(P, k)) /\ Cardinality(UpTo(P, k)) \in Nat
  <2> SUFFICES ASSUME NEW k \in Nat PROVE IsFiniteSet(UpTo(P, k)) /\ Cardinality(UpTo(P, k)) \in Nat
    OBVIOUS
  <2>1. IsFiniteSet(1..k) /\ UpTo(P, k) \subseteq 1..k
    BY FS_Interval DEF UpTo
  <2> QED
    BY <2>1, FS_Subset, FS_CardinalityType
<1>2. UpTo(P, 0) = {}
  BY DEF UpTo
<1>3. Cardinality(UpTo(P, 0)) = 0
  BY <1>2, FS_EmptySet
<1>4. ASSUME NEW i \in UpTo(P, n) PROVE Cardinality(UpTo(P, i)) \in 1..Cardinality(UpTo(P, n))
  <2>1. i \in Nat /\ UpTo(P, i) \subseteq UpTo(P, n) /\ UpTo(P, i) # {}
    BY DEF UpTo
  <2>2. Cardinality(UpTo(P, i)) # 0
    BY <1>1, <2>1, FS_EmptySet
  <2>3. Cardinality(UpTo(P, i)) <= Cardinality(UpTo(P, n))
    BY <1>1, <2>1, FS_Subset
  <2> QED
    BY <1>1, <2>1, <2>2, <2>3
<1>5. n + 1 \in P => UpTo(P, n + 1) = UpTo(P, n) \union {n + 1}
  BY DEF UpTo
<1>6. n + 1 \in P => Cardinality(UpTo(P, n + 1)) = Cardinality(UpTo(P, n)) + 1
  <2>1. n + 1 \notin UpTo(P, n)
    BY DEF UpTo
  <2> QED
    BY <1>1, <1>5, <2>1, FS_AddElement
<1>7. n + 1 \notin P => UpTo(P, n + 1) = UpTo(P, n)
  BY DEF UpTo
<1> QED
  BY <1>1, <1>3, <1>4, <1>5, <1>6, <1>7

\* A list with one entry for each of the positions gets the next one.
LEMMA NextPlace ==
  ASSUME NEW P, NEW n \in Nat, n + 1 \in P,
         NEW S, NEW s \in Seq(S), NEW x \in S, Len(s) = Cardinality(UpTo(P, n))
  PROVE  /\ Append(s, x) \in Seq(S) /\ Len(Append(s, x)) = Cardinality(UpTo(P, n + 1))
         /\ \A i \in UpTo(P, n) :
              /\ Cardinality(UpTo(P, i)) \in 1..Len(s)
              /\ Append(s, x)[Cardinality(UpTo(P, i))] = s[Cardinality(UpTo(P, i))]
         /\ Append(s, x)[Cardinality(UpTo(P, n + 1))] = x
         /\ UpTo(P, n + 1) = UpTo(P, n) \union {n + 1}
<1>1. /\ Append(s, x) \in Seq(S) /\ Len(Append(s, x)) = Len(s) + 1
      /\ \A i \in 1..Len(s) : Append(s, x)[i] = s[i]
      /\ Append(s, x)[Len(s) + 1] = x
  BY AppendProperties
<1>2. /\ \A i \in UpTo(P, n) : Cardinality(UpTo(P, i)) \in 1..Cardinality(UpTo(P, n))
      /\ UpTo(P, n + 1) = UpTo(P, n) \union {n + 1}
      /\ Cardinality(UpTo(P, n + 1)) = Cardinality(UpTo(P, n)) + 1
  BY UpToCount
<1> QED
  BY <1>1, <1>2

-----------------------------------------------------------------------------

\* t goes on as u.
GoesOn(t, u) == Len(t) <= Len(u) /\ \A i \in 1..Len(t) : u[i] = t[i]

LEMMA GoesOnAfter ==
  ASSUME NEW S, NEW t \in Seq(S), NEW x \in S
  PROVE  GoesOn(t, t) /\ GoesOn(t, Append(t, x))
<1>1. Len(t) \in Nat
  BY LenProperties
<1>2. Len(Append(t, x)) = Len(t) + 1 /\ \A i \in 1..Len(t) : Append(t, x)[i] = t[i]
  BY AppendProperties
<1> QED
  BY <1>1, <1>2 DEF GoesOn

LEMMA GoesOnFurther ==
  ASSUME NEW S, NEW t \in Seq(S), NEW u \in Seq(S), NEW v \in Seq(S), GoesOn(t, u), GoesOn(u, v)
  PROVE  GoesOn(t, v)
<1>1. Len(t) \in Nat /\ Len(u) \in Nat /\ Len(v) \in Nat
  BY LenProperties
<1> QED
  BY <1>1 DEF GoesOn

-----------------------------------------------------------------------------
(* The request for a message.                                              *)

TextPlaces(m) == {j \in Nat : m[j] \in Texts}
ImagePlaces(m, o) == {j \in Nat : m[j] \in Images /\ o[j] = "saved"}

\* The first n pieces of the message m are in the text b and in the files f, some
\* of the temporary files u.
Kept(m, o, n, b, f, u) ==
  /\ Len(b) = Cardinality(UpTo(TextPlaces(m), n))
  /\ \A i \in UpTo(TextPlaces(m), n) : b[Cardinality(UpTo(TextPlaces(m), i))] = m[i]
  /\ Len(f) = Cardinality(UpTo(ImagePlaces(m, o), n))
  /\ \A i \in UpTo(ImagePlaces(m, o), n) : u[f[Cardinality(UpTo(ImagePlaces(m, o), i))]] = m[i]

Found(f, u) == \A n \in 1..Len(f) : f[n] \in 1..Len(u)

Files == Seq(Images \union {None})

LEMMA KeptLater ==
  ASSUME NEW m, NEW o, NEW n \in Nat, NEW b, NEW f \in Seq(Nat), NEW t \in Files, NEW u \in Files,
         Kept(m, o, n, b, f, t), Found(f, t), GoesOn(t, u)
  PROVE  Kept(m, o, n, b, f, u) /\ Found(f, u)
<1>1. Len(t) \in Nat /\ Len(u) \in Nat /\ Len(f) \in Nat
  BY LenProperties DEF Files
<1>2. \A k \in 1..Len(f) : f[k] \in 1..Len(u) /\ u[f[k]] = t[f[k]]
  BY <1>1 DEF Found, GoesOn
<1>3. ASSUME NEW i \in UpTo(ImagePlaces(m, o), n)
      PROVE  u[f[Cardinality(UpTo(ImagePlaces(m, o), i))]] = m[i]
  <2>1. Cardinality(UpTo(ImagePlaces(m, o), i)) \in 1..Len(f)
    BY UpToCount DEF Kept
  <2>2. t[f[Cardinality(UpTo(ImagePlaces(m, o), i))]] = m[i]
    BY DEF Kept
  <2> QED
    BY <1>2, <2>1, <2>2
<1> QED
  BY <1>2, <1>3 DEF Kept, Found

\* One more piece.
LEMMA DetachStep ==
  ASSUME NEW m, NEW o, NEW n \in Nat, m[n + 1] \in Pieces,
         m[n + 1] \in Images => o[n + 1] \in {"saved", "uncreated", "unwritten"},
         NEW b \in Seq(Texts), NEW f \in Seq(Nat), NEW u \in Files,
         Kept(m, o, n, b, f, u), Found(f, u)
  PROVE  \E c \in Seq(Texts), g \in Seq(Nat), v \in Files :
           /\ Detach([body |-> b, files |-> f, tmp |-> u], m[n + 1], o[n + 1])
                = [body |-> c, files |-> g, tmp |-> v]
           /\ Kept(m, o, n + 1, c, g, v) /\ Found(g, v) /\ GoesOn(u, v)
<1> DEFINE piece == m[n + 1]
           d == [body |-> b, files |-> f, tmp |-> u]
           e == Detach(d, piece, o[n + 1])
           T == TextPlaces(m)
           I == ImagePlaces(m, o)
<1>0. /\ Len(b) \in Nat /\ Len(f) \in Nat /\ Len(u) \in Nat /\ n + 1 \in Nat
      /\ u \in Seq(Images \union {None})
  BY LenProperties DEF Files
<1>1. n + 1 \in T <=> piece \in Texts
  BY <1>0 DEF TextPlaces
<1>2. n + 1 \in I <=> piece \in Images /\ o[n + 1] = "saved"
  BY <1>0 DEF ImagePlaces
<1>3. GoesOn(u, u)
  BY GoesOnAfter DEF Files
<1>4. CASE piece \in Texts
  <2>1. e = [body |-> Append(b, piece), files |-> f, tmp |-> u]
    BY <1>4 DEF Detach
  <2>2. n + 1 \in T /\ n + 1 \notin I
    BY <1>1, <1>2, <1>4, AttachmentNames
  <2>3. Append(b, piece) \in Seq(Texts)
    BY <1>4, AppendProperties
  <2>4. Kept(m, o, n + 1, Append(b, piece), f, u)
    <3> HIDE DEF piece, T, I
    <3>1. /\ Len(Append(b, piece)) = Cardinality(UpTo(T, n + 1))
          /\ \A i \in UpTo(T, n) : Append(b, piece)[Cardinality(UpTo(T, i))] = b[Cardinality(UpTo(T, i))]
          /\ Append(b, piece)[Cardinality(UpTo(T, n + 1))] = piece
          /\ UpTo(T, n + 1) = UpTo(T, n) \union {n + 1}
      <4>1. Len(b) = Cardinality(UpTo(T, n))
        BY DEF Kept, T
      <4> QED
        BY <1>4, <2>2, <4>1, NextPlace
    <3>2. UpTo(I, n + 1) = UpTo(I, n)
      BY <2>2, UpToCount
    <3> QED
      BY <3>1, <3>2 DEF Kept, T, I, piece
  <2> HIDE DEF e
  <2> QED
    BY <1>3, <2>1, <2>3, <2>4 DEF e
<1>5. CASE piece \notin Texts /\ ~(piece \in Images /\ o[n + 1] = "saved")
  <2>1. UpTo(T, n + 1) = UpTo(T, n) /\ UpTo(I, n + 1) = UpTo(I, n)
    BY <1>1, <1>2, <1>5, UpToCount
  <2>2. ASSUME NEW v \in Files, GoesOn(u, v), e = [body |-> b, files |-> f, tmp |-> v]
        PROVE  Kept(m, o, n + 1, b, f, v) /\ Found(f, v)
    <3>1. Kept(m, o, n, b, f, v) /\ Found(f, v)
      BY <2>2, KeptLater
    <3> QED
      BY <2>1, <3>1 DEF Kept
  <2>3. CASE piece \in Images /\ o[n + 1] = "unwritten"
    <3>1. e = [body |-> b, files |-> f, tmp |-> Append(u, None)]
      BY <1>5, <2>3 DEF Detach, SaveImage
    <3>2. Append(u, None) \in Files /\ GoesOn(u, Append(u, None))
      BY <1>0, GoesOnAfter, AppendProperties DEF Files
    <3> HIDE DEF e
    <3> QED
      BY <2>2, <3>1, <3>2 DEF e
  <2>4. CASE ~(piece \in Images /\ o[n + 1] = "unwritten")
    <3>1. e = [body |-> b, files |-> f, tmp |-> u]
      BY <1>5, <2>4 DEF Detach, SaveImage
    <3> HIDE DEF e
    <3> QED
      BY <1>3, <2>2, <3>1 DEF e
  <2> QED
    BY <2>3, <2>4
<1>6. CASE piece \notin Texts /\ piece \in Images /\ o[n + 1] = "saved"
  <2> DEFINE v == Append(u, piece)
             g == Append(f, Len(u) + 1)
  <2>1. e = [body |-> b, files |-> g, tmp |-> v]
    BY <1>6 DEF Detach, SaveImage
  <2>2. n + 1 \notin T /\ n + 1 \in I
    BY <1>1, <1>2, <1>6
  <2>3. v \in Files /\ GoesOn(u, v) /\ Len(v) = Len(u) + 1 /\ v[Len(u) + 1] = piece
    BY <1>0, <1>6, GoesOnAfter, AppendProperties DEF Files
  <2>4. Kept(m, o, n, b, f, v) /\ Found(f, v)
    BY <2>3, KeptLater
  <2>5. /\ g \in Seq(Nat) /\ Len(g) = Len(f) + 1
        /\ \A i \in 1..Len(f) : g[i] = f[i]
        /\ g[Len(f) + 1] = Len(u) + 1
    BY <1>0, AppendProperties
  <2>6. Found(g, v)
    <3> HIDE DEF g, v
    <3>1. ASSUME NEW k \in 1..Len(g) PROVE g[k] \in 1..Len(v)
      <4>1. CASE k = Len(f) + 1
        BY <1>0, <2>3, <2>5, <4>1
      <4>2. CASE k # Len(f) + 1
        <5>1. k \in 1..Len(f)
          BY <1>0, <2>5, <4>2
        <5> QED
          BY <2>4, <2>5, <5>1 DEF Found
      <4> QED
        BY <4>1, <4>2
    <3> QED
      BY <3>1 DEF Found
  <2>7. Kept(m, o, n + 1, b, g, v)
    <3> HIDE DEF piece, T, I, v
    <3>1. /\ Len(g) = Cardinality(UpTo(I, n + 1))
          /\ \A i \in UpTo(I, n) : g[Cardinality(UpTo(I, i))] = f[Cardinality(UpTo(I, i))]
          /\ g[Cardinality(UpTo(I, n + 1))] = Len(u) + 1
          /\ UpTo(I, n + 1) = UpTo(I, n) \union {n + 1}
      <4> DEFINE x == Len(u) + 1
      <4>1. Len(f) = Cardinality(UpTo(I, n))
        BY <2>4 DEF Kept, I
      <4>2. x \in Nat
        BY <1>0
      <4>3. g = Append(f, x)
        OBVIOUS
      <4> HIDE DEF x, g
      <4>4. /\ Len(Append(f, x)) = Cardinality(UpTo(I, n + 1))
            /\ \A i \in UpTo(I, n) : Append(f, x)[Cardinality(UpTo(I, i))] = f[Cardinality(UpTo(I, i))]
            /\ Append(f, x)[Cardinality(UpTo(I, n + 1))] = x
            /\ UpTo(I, n + 1) = UpTo(I, n) \union {n + 1}
        <5> DEFINE S == Nat
        <5>1. f \in Seq(S) /\ x \in S
          BY <4>2
        <5> HIDE DEF S
        <5> QED
          BY <2>2, <4>1, <5>1, NextPlace
      <4> QED
        BY <4>3, <4>4 DEF x
    <3>2. UpTo(T, n + 1) = UpTo(T, n)
      BY <2>2, UpToCount
    <3> HIDE DEF g
    <3>3. \A i \in UpTo(I, n + 1) : v[g[Cardinality(UpTo(I, i))]] = m[i]
      <4>1. \A i \in UpTo(I, n) : v[f[Cardinality(UpTo(I, i))]] = m[i]
        BY <2>4 DEF Kept, I
      <4> QED
        BY <2>3, <3>1, <4>1 DEF piece
    <3> QED
      BY <2>4, <3>1, <3>2, <3>3 DEF Kept, T, I
  <2> HIDE DEF e, v, g
  <2> QED
    BY <2>1, <2>3, <2>5, <2>6, <2>7 DEF e
<1> QED
  BY <1>4, <1>5, <1>6

\* signald_detach_images gets to the end of the message with everything in place.
LEMMA DetachedKeeps ==
  ASSUME NEW m \in Seq(Pieces), NEW o \in Outcomes(m), NEW t \in Files
  PROVE  \E b \in Seq(Texts), f \in Seq(Nat), u \in Files :
           /\ DetachImages(m, o, t) = [body |-> b, files |-> f, tmp |-> u]
           /\ Kept(m, o, Len(m), b, f, u) /\ Found(f, u) /\ GoesOn(t, u)
<1> DEFINE d == Detached(m, o, t)
           So(n, b, f, u) ==
             /\ d[n] = [body |-> b, files |-> f, tmp |-> u]
             /\ Kept(m, o, n, b, f, u) /\ Found(f, u) /\ GoesOn(t, u)
           S == {n \in Nat : n <= Len(m) => \E b \in Seq(Texts), f \in Seq(Nat), u \in Files : So(n, b, f, u)}
<1>0. Len(m) \in Nat /\ \A n \in 1..Len(m) : m[n] \in Pieces
  BY LenProperties, ElementOfSeq
<1>1. \A n \in 1..Len(m) : o[n] \in {"saved", "uncreated", "unwritten"}
  <2>1. DOMAIN m = 1..Len(m)
    BY LenProperties
  <2> QED
    BY <2>1 DEF Outcomes
<1>2. d[0] = Start(t) /\ \A n \in 1..Len(m) : d[n] = Detach(d[n - 1], m[n], o[n])
  BY DetachedDef
<1> HIDE DEF d
<1>3. 0 \in S
  <2>1. <<>> \in Seq(Texts) /\ <<>> \in Seq(Nat) /\ Len(<<>>) = 0
    BY EmptySeq
  <2>2. Kept(m, o, 0, <<>>, <<>>, t)
    <3>1. ASSUME NEW P PROVE UpTo(P, 0) = {} /\ Cardinality(UpTo(P, 0)) = 0
      <4>1. UpTo(P, 0) = {}
        BY DEF UpTo
      <4> QED
        BY <4>1, FS_EmptySet
    <3> QED
      BY <2>1, <3>1 DEF Kept
  <2>3. Found(<<>>, t)
    BY <2>1 DEF Found
  <2>4. GoesOn(t, t)
    BY GoesOnAfter DEF Files
  <2>5. So(0, <<>>, <<>>, t)
    BY <1>2, <2>2, <2>3, <2>4 DEF Start
  <2> HIDE DEF So
  <2> QED
    BY <2>1, <2>5
<1>4. ASSUME NEW n \in Nat, n \in S PROVE n + 1 \in S
  <2> HIDE DEF So
  <2> SUFFICES ASSUME n + 1 <= Len(m)
               PROVE  \E b \in Seq(Texts), f \in Seq(Nat), u \in Files : So(n + 1, b, f, u)
    OBVIOUS
  <2>1. n <= Len(m) /\ n + 1 \in 1..Len(m) /\ (n + 1) - 1 = n
    BY <1>0
  <2>2. PICK b \in Seq(Texts), f \in Seq(Nat), u \in Files : So(n, b, f, u)
    BY <1>4, <2>1
  <2>3. m[n + 1] \in Pieces /\ o[n + 1] \in {"saved", "uncreated", "unwritten"}
    BY <1>0, <1>1, <2>1
  <2>4. PICK c \in Seq(Texts), g \in Seq(Nat), v \in Files :
           /\ Detach([body |-> b, files |-> f, tmp |-> u], m[n + 1], o[n + 1])
                = [body |-> c, files |-> g, tmp |-> v]
           /\ Kept(m, o, n + 1, c, g, v) /\ Found(g, v) /\ GoesOn(u, v)
    BY <2>2, <2>3, DetachStep DEF So
  <2>5. d[n + 1] = [body |-> c, files |-> g, tmp |-> v]
    <3>1. d[n + 1] = Detach(d[n], m[n + 1], o[n + 1])
      BY <1>2, <2>1
    <3> QED
      BY <2>2, <2>4, <3>1 DEF So
  <2>6. GoesOn(t, v)
    BY <2>2, <2>4, GoesOnFurther DEF Files, So
  <2>7. So(n + 1, c, g, v)
    BY <2>4, <2>5, <2>6 DEF So
  <2> QED
    BY <2>7
<1> HIDE DEF S
<1>5. Len(m) \in S
  BY <1>0, <1>3, <1>4, Induction
<1> HIDE DEF So
<1>6. \E b \in Seq(Texts), f \in Seq(Nat), u \in Files : So(Len(m), b, f, u)
  BY <1>0, <1>5 DEF S
<1> QED
  BY <1>6 DEF So, DetachImages, d

RequestKept(r, t) ==
  /\ r.kind \in Kinds /\ r.files \in Seq(Nat) /\ Found(r.files, t)
  /\ r.kind = "send" => /\ r.message \in Seq(Pieces)
                        /\ Kept(r.message, r.saved, Len(r.message), r.body, r.files, t)

\* Temporary files only come to those there are, so that what a request refers to
\* stays what it was.
RequestsKept == tmp \in Files /\ \A k \in 1..Len(requests) : RequestKept(requests[k], tmp)

LEMMA RequestKeptLater ==
  ASSUME NEW r, NEW t \in Files, NEW u \in Files, RequestKept(r, t), GoesOn(t, u)
  PROVE  RequestKept(r, u)
<1>1. Found(r.files, u)
  <2>1. Len(t) \in Nat /\ Len(u) \in Nat
    BY LenProperties DEF Files
  <2> QED
    BY <2>1 DEF RequestKept, Found, GoesOn
<1>2. ASSUME r.kind = "send"
      PROVE  /\ r.message \in Seq(Pieces)
             /\ Kept(r.message, r.saved, Len(r.message), r.body, r.files, u)
  <2>1. /\ r.message \in Seq(Pieces) /\ r.files \in Seq(Nat) /\ Found(r.files, t)
        /\ Kept(r.message, r.saved, Len(r.message), r.body, r.files, t)
    BY <1>2 DEF RequestKept
  <2>2. Len(r.message) \in Nat
    BY <2>1, LenProperties
  <2> QED
    BY <2>1, <2>2, KeptLater
<1> QED
  BY <1>1, <1>2 DEF RequestKept

LEMMA RequestsKeptWith ==
  ASSUME Typing, RequestsKept, NEW r, requests' = Append(requests, r),
         tmp' \in Files, GoesOn(tmp, tmp'), RequestKept(r, tmp')
  PROVE  RequestsKept'
<1>1. PICK S : requests \in Seq(S)
  BY DEF Typing
<1>2. /\ Len(requests) \in Nat /\ Len(requests') = Len(requests) + 1
      /\ \A k \in 1..Len(requests) : requests'[k] = requests[k]
      /\ requests'[Len(requests) + 1] = r
  <2>1. requests \in Seq(S \union {r}) /\ r \in S \union {r}
    BY <1>1, SeqMonotonic
  <2> QED
    BY <2>1, LenProperties, AppendProperties
<1>3. \A k \in 1..Len(requests) : RequestKept(requests[k], tmp')
  BY RequestKeptLater DEF RequestsKept
<1>4. ASSUME NEW k \in 1..Len(requests') PROVE RequestKept(requests'[k], tmp')
  <2>1. CASE k = Len(requests) + 1
    BY <1>2, <2>1
  <2>2. CASE k # Len(requests) + 1
    <3>1. k \in 1..Len(requests)
      BY <1>2, <2>2
    <3> QED
      BY <1>2, <1>3, <3>1
  <2> QED
    BY <2>1, <2>2
<1> QED
  BY <1>4 DEF RequestsKept

LEMMA RequestsKeptStep ==
  ASSUME Typing, RequestsKept, [Next]_vars
  PROVE  RequestsKept'
<1>0. tmp \in Files /\ GoesOn(tmp, tmp)
  BY GoesOnAfter DEF RequestsKept, Files
<1>1. CASE UNCHANGED <<tmp, requests>>
  BY <1>1 DEF RequestsKept
<1>2. ASSUME NEW kind \in {"mark_read", "other", "unsubscribe"}, tmp' = tmp,
             Request([kind |-> kind, files |-> <<>>])
      PROVE  RequestsKept'
  <2> DEFINE r == [kind |-> kind, files |-> <<>>]
  <2>1. requests' = Append(requests, r)
    BY <1>2 DEF Request
  <2>2. r.kind = kind /\ r.files = <<>> /\ kind \in Kinds /\ kind # "send"
    BY DEF Kinds
  <2> HIDE DEF r
  <2>3. r.files \in Seq(Nat) /\ Len(r.files) = 0
    BY <2>2, EmptySeq
  <2>4. RequestKept(r, tmp')
    BY <2>2, <2>3 DEF RequestKept, Found
  <2> QED
    BY <1>0, <1>2, <2>1, <2>4, RequestsKeptWith
<1>3. CASE SendMessage
  <2>0. PICK m \in Messages :
          \E o \in Outcomes(m) :
            LET d == DetachImages(m, o, tmp) IN
            /\ Request([kind |-> "send", message |-> m, saved |-> o, body |-> d.body, files |-> d.files])
            /\ tmp' = d.tmp
    BY <1>3 DEF SendMessage
  <2>1. PICK o \in Outcomes(m) :
          LET d == DetachImages(m, o, tmp) IN
          /\ Request([kind |-> "send", message |-> m, saved |-> o, body |-> d.body, files |-> d.files])
          /\ tmp' = d.tmp
    BY <2>0
  <2>2. m \in Seq(Pieces)
    BY MessagesAssumption DEF Pieces
  <2>3. PICK b \in Seq(Texts), f \in Seq(Nat), u \in Files :
          /\ DetachImages(m, o, tmp) = [body |-> b, files |-> f, tmp |-> u]
          /\ Kept(m, o, Len(m), b, f, u) /\ Found(f, u) /\ GoesOn(tmp, u)
    BY <1>0, <2>2, DetachedKeeps
  <2> DEFINE r == [kind |-> "send", message |-> m, saved |-> o, body |-> b, files |-> f]
  <2>4. requests' = Append(requests, r) /\ tmp' = u
    BY <2>1, <2>3 DEF Request
  <2>5. r.kind = "send" /\ r.message = m /\ r.saved = o /\ r.body = b /\ r.files = f
    OBVIOUS
  <2> HIDE DEF r
  <2>6. RequestKept(r, tmp')
    BY <2>2, <2>3, <2>4, <2>5 DEF RequestKept, Kinds
  <2> QED
    BY <2>3, <2>4, <2>6, RequestsKeptWith
<1>4. CASE Ask("mark_read") \/ Ask("other")
  BY <1>2, <1>4 DEF Ask, attachmentVars
<1>5. CASE Close
  BY <1>1, <1>2, <1>5 DEF Close, attachmentVars
<1>6. CASE ~(SendMessage \/ Ask("mark_read") \/ Ask("other") \/ Close)
  <2>1. UNCHANGED <<tmp, requests>>
    BY <1>6 DEF Next, vars, attachmentVars, WriteJson, WriteNewline, DaemonRead, DaemonHangup, Receive,
                ParseAttachment, Terminated
  <2> QED
    BY <1>1, <2>1
<1> QED
  BY <1>3, <1>4, <1>5, <1>6

LEMMA RequestsKeptInit == Init => RequestsKept
<1> SUFFICES ASSUME Init PROVE RequestsKept
  OBVIOUS
<1>1. tmp \in Files /\ Len(requests) = 0
  BY EmptySeq DEF Init, AttachmentsInit, Files
<1> QED
  BY <1>1 DEF RequestsKept

LEMMA KeptIsKeeping ==
  ASSUME Typing, RequestsKept
  PROVE  RequestsKeepMessage
<1> SUFFICES ASSUME NEW k \in DOMAIN requests, requests[k].kind = "send" PROVE KeepsMessage(requests[k])
  BY DEF RequestsKeepMessage
<1> DEFINE r == requests[k]
<1>1. k \in 1..Len(requests)
  BY LenProperties DEF Typing
<1>2. r.message \in Seq(Pieces) /\ Kept(r.message, r.saved, Len(r.message), r.body, r.files, tmp)
  BY <1>1 DEF RequestsKept, RequestKept
<1> HIDE DEF r
<1>3. \A i : /\ TextsUpTo(r, i) = UpTo(TextPlaces(r.message), i)
             /\ SavedUpTo(r, i) = UpTo(ImagePlaces(r.message, r.saved), i)
  <2> SUFFICES ASSUME NEW i
               PROVE  /\ TextsUpTo(r, i) = UpTo(TextPlaces(r.message), i)
                      /\ SavedUpTo(r, i) = UpTo(ImagePlaces(r.message, r.saved), i)
    OBVIOUS
  <2>1. \A j \in 1..i : j \in Nat
    OBVIOUS
  <2> QED
    BY <2>1 DEF TextsUpTo, SavedUpTo, UpTo, TextPlaces, ImagePlaces
<1>4. KeepsMessage(r)
  BY <1>2, <1>3 DEF Kept, KeepsMessage
<1> QED
  BY <1>4 DEF r

\* What signald_send_message (message.c) asks signald to send has the texts and the
\* saved images of the message (attachments.c), in order, and stays that way.
THEOREM MessagesKept == Spec => []RequestsKeepMessage
BY TypingInit, TypingStep, RequestsKeptInit, RequestsKeptStep, KeptIsKeeping, PTL DEF Spec

LEMMA LinksTypingStep ==
  ASSUME LinksTyping, [Next]_vars
  PROVE  LinksTyping'
<1>1. CASE UNCHANGED <<served, links>>
  BY <1>1 DEF LinksTyping
<1>2. ASSUME NEW p \in Paths, NEW target \in Targets, LinkAttachment(p, target) \/ CopyFails(target)
      PROVE  LinksTyping'
  BY <1>2 DEF LinksTyping, LinkAttachment, CopyFails
<1>3. CASE Receive
  <2>1. PICK p \in Paths, t \in Types, s \in Settings, readable \in BOOLEAN : ParseAttachment(p, t, s, readable)
    BY <1>3 DEF Receive
  <2>2. Target(p, t) \in Targets
    BY TargetType
  <2> QED
    BY <1>1, <1>2, <2>1, <2>2 DEF ParseAttachment, WriteExternalAttachment
<1>4. [Next]_vars => Receive \/ UNCHANGED <<served, links>>
  BY DEF Next, vars, attachmentVars, SendMessage, Ask, Close, WriteJson, WriteNewline, DaemonRead,
         DaemonHangup, Terminated
<1> QED
  BY <1>1, <1>3, <1>4

-----------------------------------------------------------------------------
(* Types.                                                                  *)

Flags ==
  /\ error \in BOOLEAN /\ received \in 0..MaxTransfers
  /\ phase \in {"open", "closing", "closed"}
  /\ phase = "closing" => writing # "nothing"

LEMMA FlagsStep ==
  ASSUME Typing, Flags, [Next]_vars
  PROVE  Flags'
<1>0. Len(requests) \in Nat
  BY LenProperties DEF Typing
<1>1. CASE SendMessage \/ Ask("mark_read") \/ Ask("other")
  BY <1>1 DEF Flags, SendMessage, Ask, Request
<1>2. CASE Close
  BY <1>2 DEF Flags, Close, Request
<1>3. ASSUME NEW result, Return(result), received' = received PROVE Flags'
  BY <1>3 DEF Flags, Return
<1>4. CASE WriteJson
  <2>1. received' = received /\ ((\E result : Return(result)) \/ (writing' = "newline" /\ UNCHANGED <<error, phase>>))
    BY <1>4 DEF WriteJson
  <2> QED
    BY <1>3, <2>1 DEF Flags
<1>5. CASE WriteNewline
  BY <1>3, <1>5 DEF WriteNewline
<1>6. CASE Receive
  <2>1. Len(requests) + received < MaxTransfers /\ received' = received + 1 /\ UNCHANGED <<writing, error, phase>>
    BY <1>6 DEF Receive
  <2> QED
    BY <1>0, <2>1, MaxTransfersAssumption DEF Flags
<1>7. CASE DaemonRead \/ DaemonHangup \/ Terminated \/ UNCHANGED vars
  BY <1>7 DEF DaemonRead, DaemonHangup, Terminated, vars, Flags
<1> QED
  BY <1>1, <1>2, <1>4, <1>5, <1>6, <1>7 DEF Next

LEMMA TypesAreOK ==
  ASSUME Typing, Flags, RequestsKept, LinksTyping
  PROVE  TypeOK
<1>1. /\ DOMAIN requests = 1..Len(requests) /\ Len(requests) \in Nat
      /\ DOMAIN outcome = 1..Len(requests)
  BY LenProperties DEF Typing
<1>2. tmp \in Seq(Images \union {None}) /\ DOMAIN tmp = 1..Len(tmp)
  BY LenProperties DEF RequestsKept, Files
<1>3. ASSUME NEW k \in DOMAIN requests
      PROVE  requests[k].kind \in Kinds /\ requests[k].files \in Seq(DOMAIN tmp)
  <2> DEFINE f == requests[k].files
             D == DOMAIN tmp
  <2>1. requests[k].kind \in Kinds /\ f \in Seq(Nat) /\ \A n \in 1..Len(f) : f[n] \in D
    BY <1>1, <1>2 DEF RequestsKept, RequestKept, Found
  <2> HIDE DEF f, D
  <2>2. Len(f) \in Nat /\ f \in [1..Len(f) -> Nat]
    BY <2>1, LenProperties
  <2>3. f \in [1..Len(f) -> D]
    BY <2>1, <2>2
  <2>4. f \in Seq(D)
    BY <2>2, <2>3, SeqDef
  <2> QED
    BY <2>1, <2>4 DEF f, D
<1>4. writing = "nothing" <=> \A k \in DOMAIN outcome : outcome[k] # "pending"
  <2>1. CASE writing = "nothing"
    BY <1>1, <2>1 DEF Typing
  <2>2. CASE writing # "nothing"
    <3>1. Len(outcome) \in DOMAIN outcome /\ Len(outcome) \in 1..Len(outcome)
      <4>1. Len(outcome) > 0 /\ Len(outcome) = Len(requests)
        BY <2>2 DEF Typing
      <4> QED
        BY <1>1, <4>1
    <3>2. outcome[Len(outcome)] = "pending"
      BY <2>2, <3>1 DEF Typing
    <3> QED
      BY <2>2, <3>1, <3>2
  <2> QED
    BY <2>1, <2>2
<1>5. \A k \in DOMAIN outcome : outcome[k] \in {"pending", "written", "failed"}
  BY <1>1, ElementOfSeq DEF Typing
<1> QED
  BY <1>1, <1>2, <1>3, <1>4, <1>5 DEF TypeOK, Typing, Flags, LinksTyping

\* The types of SignaldTransfer; above all, that a file a request refers to is there, and
\* that a request is pending exactly while signald_send_json (comms.c) writes one.
THEOREM TypeCorrect == Spec => []TypeOK
<1>1. Init => Flags /\ LinksTyping
  <2> SUFFICES ASSUME Init PROVE Flags /\ LinksTyping
    OBVIOUS
  <2>1. error = FALSE /\ received = 0 /\ phase = "open"
    BY DEF Init
  <2>2. Flags
    <3>1. received \in 0..MaxTransfers
      BY <2>1, MaxTransfersAssumption
    <3>2. error \in BOOLEAN
      BY <2>1
    <3> QED
      BY <2>1, <3>1, <3>2 DEF Flags
  <2>3. LinksTyping
    BY DEF Init, AttachmentsInit, LinksTyping
  <2> QED
    BY <2>2, <2>3
<1> QED
  BY <1>1, TypingInit, TypingStep, RequestsKeptInit, RequestsKeptStep, FlagsStep, LinksTypingStep, TypesAreOK, PTL
  DEF Spec
=============================================================================
