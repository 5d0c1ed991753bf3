------------------------ MODULE SignaldMessages_Proofs ------------------------
(***************************************************************************)
(* Proofs about SignaldMessages, for any contacts and groups, any number   *)
(* of messages and any capacities of the reply cache.                      *)
(*                                                                         *)
(* Whatever is shown gets a number that was not shown before: that of a    *)
(* message just sent, of the message in the slot, or of one that has just  *)
(* been taken from the socket.  LogInv, SlotInv and InboxInv say so; the   *)
(* rest follows from the growth of log by one entry at a time.             *)
(***************************************************************************)
EXTENDS SignaldMessages, SequenceTheorems, FiniteSetTheorems, WellFoundedInduction, TLAPS

\* The messages there have been so far.
Past == (1..sent) \union ((MaxSent + 1)..(MaxSent + received))

ShownIds == {log[i].id : i \in 1..Len(log)}

LogInv ==
  /\ ShownIds \subseteq Past
  /\ \A i, j \in 1..Len(log) : log[i].id = log[j].id => i = j
  /\ \A i \in 1..Len(log) : IsOwn(log[i].id) => log[i].conv = sentTo[log[i].id]

\* The message in the slot has not been shown, and its conversation is known.
SlotInv ==
  last_message # 0 => last_message \notin ShownIds /\ last_conversation = sentTo[last_message]

\* What is in the socket is news: no message received was shown, and no
\* acknowledgement is for a message that was acknowledged, or not answered yet.
InboxInv ==
  /\ \A i \in 1..Len(inbox) : inbox[i].type = "IncomingMessage" =>
       inbox[i].id \in ((MaxSent + 1)..(MaxSent + received)) \ ShownIds
  /\ \A i \in 1..Len(inbox) : inbox[i].type = "send" =>
       inbox[i].id \in (1..sent) \ (asked \union acked)
  /\ \A i, j \in 1..Len(inbox) :
       inbox[i].type # "unsubscribe" /\ inbox[i].type = inbox[j].type /\ inbox[i].id = inbox[j].id
         => i = j

AckInv == asked \intersect acked = {} /\ Cardinality(Echoed) <= Cardinality(acked)

\* What can be replied to and is newer than a message in the cache is in the
\* cache, before it.
CacheInv ==
  /\ Released => replycache = <<>>
  /\ \A i \in 1..Len(replycache) :
       NewerThan(replycache[i]) \intersect Quotable \subseteq {replycache[j] : j \in 1..(i - 1)}

\* Receipts are noted for what was shown.
ReceiptsInv == (\A r \in noted : r[2] \in ShownIds) /\ ReceiptsAccounted

\* What may be in the socket.
Items ==
  {Acknowledgement(m, d) : m \in 1..sent, d \in BOOLEAN}
    \union {Incoming(m, c) : m \in Numbers, c \in Convs}
    \union (IF phase = "live" THEN {} ELSE {Unsubscribed})

Typing == TypeOK /\ inbox \in Seq(Items)

IInv ==
  Typing /\ LogInv /\ SlotInv /\ InboxInv /\ AckInv /\ CacheInv /\ ReceiptsInv /\ RepliesToNewest

-----------------------------------------------------------------------------
(* Types.                                                                  *)

LEMMA LeastNat ==
  ASSUME NEW S \in SUBSET Nat, S # {}
  PROVE  \E i \in S : \A j \in S : i <= j
<1>1. PICK i \in S : \A j \in S : ~(<<j, i>> \in OpToRel(<, Nat))
  BY NatLessThanWellFounded, WFMin, Zenon
<1>2. \A j \in S : ~(j < i)
  BY <1>1 DEF OpToRel
<1> QED
  BY <1>2

LEMMA InboxTyping ==
  ASSUME inbox \in Seq(Items)
  PROVE  \A i \in 1..Len(inbox) :
           \/ inbox[i] \in {Acknowledgement(m, d) : m \in 1..sent, d \in BOOLEAN}
           \/ inbox[i] \in {Incoming(m, c) : m \in Numbers, c \in Convs}
           \/ inbox[i] = Unsubscribed /\ phase # "live"
BY DEF Items

\* What the socket may hold does not get less, and a message is taken off or added.
LEMMA ItemsStay ==
  ASSUME sent \in Nat, sent' \in Nat, sent <= sent', phase = "live" \/ phase' # "live"
  PROVE  Items \subseteq Items'
<1>1. \A m \in 1..sent : m \in 1..sent'
  OBVIOUS
<1> QED
  BY <1>1 DEF Items, Acknowledgement, Incoming, Unsubscribed, Numbers, Convs

LEMMA InboxStep ==
  ASSUME inbox \in Seq(Items), Items \subseteq Items',
         \/ inbox' = inbox
         \/ inbox # <<>> /\ inbox' = Tail(inbox)
         \/ \E m \in Items' : inbox' = Append(inbox, m)
  PROVE  inbox' \in Seq(Items')
<1>1. inbox \in Seq(Items')
  BY SeqMonotonic
<1> QED
  BY <1>1, HeadTailProperties, AppendProperties

\* A number is shown or sent, and put into the cache or the table.
LEMMA NumbersTyping ==
  ASSUME Typing
  PROVE  /\ 1..MaxSent \subseteq Numbers /\ \A m \in 1..sent : m \in 1..MaxSent
         /\ \A p \in People : outgoing_receipts[p] \subseteq Numbers
         /\ Len(log) \in Nat /\ Len(replycache) \in Nat /\ Len(inbox) \in Nat
         /\ sent \in Nat /\ received \in Nat
         /\ \A c \in Convs : Readers(c) \subseteq People /\ c # NoConv
         /\ \A c \in Convs, m \in Numbers, b \in BOOLEAN : [conv |-> c, id |-> m, quotable |-> b] \in Shown
BY BoundsAssumption, NamesAssumption, LenProperties DEF Typing, TypeOK, Numbers, Readers, People, Convs, Shown

LEMMA CachedTyping ==
  ASSUME replycache \in Seq(Numbers), NEW m \in Numbers, NEW capacity \in Capacities
  PROVE  Cached(m, capacity) \in Seq(Numbers)
<1>1. capacity \in Nat
  BY OptionsAssumption
<1> DEFINE s == IF capacity > 0 THEN <<m>> \o replycache ELSE replycache
<1>2. s \in Seq(Numbers)
  BY ConcatProperties
<1> HIDE DEF s
<1>3. Newest(s, capacity) \in Seq(Numbers)
  BY <1>1, <1>2, SubSeqProperties, LenProperties DEF Newest
<1> QED
  BY <1>3 DEF Cached, s

LEMMA ShowTyping ==
  ASSUME Typing, NEW c \in Convs, NEW m \in Numbers, NEW body \in BOOLEAN, Show(c, m, body)
  PROVE  log' \in Seq(Shown) /\ replycache' \in Seq(Numbers)
<1>1. [conv |-> c, id |-> m, quotable |-> body] \in Shown
  BY NumbersTyping
<1>2. log' \in Seq(Shown)
  BY <1>1, ConcatProperties DEF Show, Typing, TypeOK
<1>3. replycache' \in Seq(Numbers)
  BY CachedTyping DEF Show, Typing, TypeOK
<1> QED
  BY <1>2, <1>3

LEMMA TypingStep ==
  ASSUME Typing, [Next]_vars
  PROVE  Typing'
<1>0. /\ sent \in Nat /\ received \in Nat /\ MaxSent \in Nat /\ MaxReceived \in Nat
      /\ inbox \in Seq(Items) /\ TypeOK
  BY NumbersTyping, BoundsAssumption DEF Typing
\* What TypeOK says of the messages in the socket follows from the rest.
<1> DEFINE Rest ==
      /\ last_message \in 0..sent /\ last_conversation \in Convs \union {NoConv}
      /\ last_message # 0 => last_conversation # NoConv
      /\ replycache \in Seq(Numbers)
      /\ outgoing_receipts \in [People -> SUBSET Numbers]
      /\ phase \in {"live", "blocked", "reading", "closed"}
      /\ sent \in 0..MaxSent /\ received \in 0..MaxReceived
      /\ asked \subseteq 1..sent
      /\ hungup \in BOOLEAN
      /\ sentTo \in [1..MaxSent -> Convs \union {NoConv}]
      /\ log \in Seq(Shown)
      /\ acked \subseteq 1..sent
      /\ noted \subseteq People \X Numbers /\ marked \subseteq noted /\ lost \subseteq noted
      /\ skipped \in BOOLEAN /\ misused \in BOOLEAN
<1>2. ASSUME Rest', inbox' = inbox \/ (inbox # <<>> /\ inbox' = Tail(inbox)) \/ (\E m \in Items' : inbox' = Append(inbox, m)),
             sent <= sent', phase = "live" \/ phase' # "live"
      PROVE  Typing'
  <2>1. sent' \in Nat
    BY <1>2, BoundsAssumption
  <2>2. inbox' \in Seq(Items')
    BY <1>0, <1>2, <2>1, ItemsStay, InboxStep
  <2>3. \A i \in 1..Len(inbox') :
           \/ inbox'[i] \in {Acknowledgement(m, d) : m \in 1..sent', d \in BOOLEAN}
           \/ inbox'[i] \in {Incoming(m, c) : m \in Numbers, c \in Convs}
           \/ inbox'[i] = Unsubscribed /\ phase' # "live"
    BY <2>2 DEF Items
  <2> QED
    BY <1>2, <2>2, <2>3 DEF Typing, TypeOK
<1>3. Rest
  BY <1>0 DEF TypeOK
<1>4. ASSUME inbox # <<>> PROVE Head(inbox) \in Items /\ Head(inbox) = inbox[1] /\ Len(inbox) > 0
  BY <1>0, <1>4, HeadTailProperties, EmptySeq
<1>5. CASE User
  <2> SUFFICES ASSUME NEW c \in Convs, NEW matching \in SUBSET Quotable, NEW wait \in WaitOptions, NEW result \in Results,
                      SendMessage(c, matching, wait, result)
               PROVE  Typing'
    BY <1>5 DEF User
  <2>1. sent' \in 1..MaxSent /\ sent' = sent + 1 /\ c # NoConv
    BY <1>0, <1>3, NumbersTyping DEF SendMessage
  <2>2. [conv |-> c, id |-> sent', quotable |-> FALSE] \in Shown
    BY <2>1, NumbersTyping
  <2>3. log' \in Seq(Shown)
    BY <1>3, <2>2, ConcatProperties DEF SendMessage
  <2>4. sentTo' \in [1..MaxSent -> Convs \union {NoConv}] /\ asked' \subseteq 1..sent' /\ acked' \subseteq 1..sent'
    BY <1>0, <1>3, <2>1 DEF SendMessage
  <2>5. last_message' \in 0..sent' /\ last_conversation' \in Convs \union {NoConv}
        /\ (last_message' # 0 => last_conversation' # NoConv)
    BY <1>0, <1>3, <2>1 DEF SendMessage, Remember
  <2>6. skipped' \in BOOLEAN
    BY <1>3 DEF SendMessage
  <2>7. Rest'
    BY <1>0, <1>3, <2>1, <2>3, <2>4, <2>5, <2>6 DEF SendMessage, receiptVars
  <2> QED
    BY <1>0, <1>2, <2>1, <2>7 DEF SendMessage
<1>6. CASE OnSend
  <2>1. inbox # <<>> /\ Head(inbox).type = "send" /\ inbox' = Tail(inbox)
    BY <1>6 DEF OnSend, Handle
  <2>2. \E m \in 1..sent, d \in BOOLEAN : Head(inbox) = Acknowledgement(m, d)
    BY <1>4, <2>1 DEF Items, Acknowledgement, Incoming, Unsubscribed
  <2>7. Head(inbox).id \in 1..sent
    BY <2>2 DEF Acknowledgement
  <2>3. acked' \subseteq 1..sent
    BY <1>3, <1>6, <2>7 DEF OnSend
  <2>4. /\ log' \in Seq(Shown) /\ replycache' \in Seq(Numbers) /\ last_message' \in 0..sent
        /\ last_message' # 0 => last_conversation # NoConv
    <3>1. CASE Echoes(Head(inbox).delivered)
      <4>1. Show(last_conversation, last_message, TRUE) /\ last_message' = 0
        BY <1>6, <3>1 DEF OnSend, Echo
      <4>2. last_conversation \in Convs /\ last_message \in Numbers
        BY <1>3, <3>1, NumbersTyping DEF Echoes
      <4>3. log' \in Seq(Shown) /\ replycache' \in Seq(Numbers)
        BY <4>1, <4>2, ShowTyping
      <4> QED
        BY <1>0, <4>1, <4>3
    <3>2. CASE ~Echoes(Head(inbox).delivered)
      BY <1>3, <1>6, <3>2 DEF OnSend, cacheVars
    <3> QED
      BY <3>1, <3>2
  <2>5. misused' \in BOOLEAN
    BY <1>3, <1>6 DEF OnSend, Released
  <2>6. Rest'
    BY <1>3, <1>6, <2>3, <2>4, <2>5 DEF OnSend, receiptVars, daemonVars
  <2> QED
    BY <1>0, <1>2, <1>6, <2>1, <2>6 DEF OnSend, daemonVars
<1>7. CASE OnIncoming
  <2>1. inbox # <<>> /\ Head(inbox).type = "IncomingMessage" /\ inbox' = Tail(inbox)
    BY <1>7 DEF OnIncoming, Handle
  <2>2. Head(inbox).id \in Numbers /\ Head(inbox).conv \in Convs
    BY <1>4, <2>1 DEF Items, Acknowledgement, Incoming, Unsubscribed
  <2>3. PICK body \in BOOLEAN, readers \in {{}, Readers(Head(inbox).conv)} :
          /\ Show(Head(inbox).conv, Head(inbox).id, body)
          /\ IF Released THEN UNCHANGED outgoing_receipts ELSE MarkRead(readers, Head(inbox).id)
          /\ noted' = noted \union (readers \X {Head(inbox).id})
          /\ misused' = (misused \/ (Released /\ (body \/ readers # {})))
    BY <1>7 DEF OnIncoming
  <2>4. log' \in Seq(Shown) /\ replycache' \in Seq(Numbers)
    BY <1>0, <2>2, <2>3, ShowTyping DEF Typing
  <2>5. readers \subseteq People
    BY <2>2, NumbersTyping
  <2>6. outgoing_receipts' \in [People -> SUBSET Numbers]
    BY <1>3, <2>2, <2>3 DEF MarkRead
  <2>7. /\ noted' \subseteq People \X Numbers /\ marked' \subseteq noted' /\ lost' \subseteq noted'
        /\ misused' \in BOOLEAN
    BY <1>3, <1>7, <2>2, <2>3, <2>5 DEF OnIncoming, Released
  <2>8. Rest'
    BY <1>3, <1>7, <2>4, <2>6, <2>7 DEF OnIncoming, sendVars, daemonVars
  <2> QED
    BY <1>0, <1>2, <1>7, <2>1, <2>8 DEF OnIncoming, daemonVars
<1>8. CASE OnNothing
  <2>1. inbox # <<>> /\ inbox' = Tail(inbox)
    BY <1>8 DEF OnNothing, Handle
  <2>2. Rest' /\ sent' = sent /\ phase' = phase
    BY <1>3, <1>8 DEF OnNothing, sendVars, cacheVars, receiptVars, daemonVars
  <2> QED
    BY <1>0, <1>2, <2>1, <2>2
<1>9. CASE ReceiptsTimer
  <2>1. Rest' /\ sent' = sent /\ phase' = phase /\ inbox' = inbox
    BY <1>3, <1>9 DEF ReceiptsTimer, SendReceipts, Waiting, sendVars, cacheVars, daemonVars
  <2> QED
    BY <1>0, <1>2, <2>1
<1>10. CASE Close
  <2>1. Rest' /\ sent' = sent /\ phase = "live" /\ inbox' = inbox
    BY <1>3, <1>10, EmptySeq DEF Close, sendVars, daemonVars
  <2> QED
    BY <1>0, <1>2, <2>1
<1>11. CASE CloseRead \/ CloseEnd \/ Hangup \/ Terminated \/ UNCHANGED vars
  <2>1. Rest' /\ sent' = sent /\ (phase = "live" \/ phase' # "live") /\ inbox' = inbox
    BY <1>3, <1>11 DEF CloseRead, CloseEnd, Hangup, Terminated, vars, sendVars, cacheVars, receiptVars, daemonVars
  <2> QED
    BY <1>0, <1>2, <2>1
<1>12. CASE \E m \in 1..MaxSent : AnswerSend(m)
  <2> SUFFICES ASSUME NEW m \in 1..MaxSent, AnswerSend(m) PROVE Typing'
    BY <1>12
  <2>1. Rest' /\ sent' = sent /\ phase' = phase
    BY <1>3 DEF AnswerSend, Write, sendVars, cacheVars, receiptVars
  <2>2. \E d \in BOOLEAN : inbox' = Append(inbox, Acknowledgement(m, d))
    BY DEF AnswerSend, Write
  <2>3. m \in 1..sent
    BY <1>3 DEF AnswerSend
  <2>4. \A d \in BOOLEAN : Acknowledgement(m, d) \in Items'
    BY <2>1, <2>3 DEF Items
  <2> QED
    BY <1>0, <1>2, <2>1, <2>2, <2>4
<1>13. CASE \E c \in Convs : Forward(c)
  <2> SUFFICES ASSUME NEW c \in Convs, Forward(c) PROVE Typing'
    BY <1>13
  <2>1. received' = received + 1 /\ received' \in 0..MaxReceived
    BY <1>0 DEF Forward
  <2>2. Rest' /\ sent' = sent /\ phase' = phase
    BY <1>3, <2>1 DEF Forward, Write, sendVars, cacheVars, receiptVars
  <2>3. MaxSent + received' \in Numbers
    BY <1>0, <2>1 DEF Numbers
  <2>4. Incoming(MaxSent + received', c) \in Items'
    BY <2>3 DEF Items
  <2>5. inbox' = Append(inbox, Incoming(MaxSent + received', c))
    BY DEF Forward, Write
  <2> QED
    BY <1>0, <1>2, <2>2, <2>4, <2>5
<1>14. CASE AnswerUnsubscribe
  <2>1. Rest' /\ sent' = sent /\ phase' = phase /\ phase # "live"
    BY <1>3, <1>14 DEF AnswerUnsubscribe, Write, sendVars, cacheVars, receiptVars
  <2>2. inbox' = Append(inbox, Unsubscribed) /\ Unsubscribed \in Items'
    BY <1>14, <2>1 DEF AnswerUnsubscribe, Write, Items
  <2> QED
    BY <1>0, <1>2, <2>1, <2>2
<1> QED
  BY <1>5, <1>6, <1>7, <1>8, <1>9, <1>10, <1>11, <1>12, <1>13, <1>14 DEF Next, Signald

-----------------------------------------------------------------------------
(* The log grows.                                                          *)

\* Entry e is shown.
Shows(e) == e \in Shown /\ log' = <<e>> \o log

LEMMA LogGrows ==
  ASSUME log \in Seq(Shown), NEW e, Shows(e)
  PROVE  /\ Len(log) \in Nat /\ Len(log') = Len(log) + 1 /\ log'[1] = e
         /\ \A i \in 1..Len(log) : i + 1 \in 1..Len(log') /\ log'[i + 1] = log[i]
         /\ \A i \in 1..Len(log') : i = 1 \/ (i - 1 \in 1..Len(log) /\ log'[i] = log[i - 1])
         /\ 1 \in 1..Len(log')
<1>1. <<e>> \in Seq(Shown) /\ Len(<<e>>) = 1 /\ <<e>>[1] = e /\ Len(log) \in Nat
  BY LenProperties DEF Shows
<1>2. /\ Len(log') = Len(log) + 1
      /\ \A i \in 1..(Len(log) + 1) : log'[i] = IF i <= 1 THEN <<e>>[i] ELSE log[i - 1]
  BY <1>1, ConcatProperties DEF Shows
<1> QED
  BY <1>1, <1>2

\* A set of numbers in the log grows by the number of the new entry, if at all.
LEMMA SetsGrow ==
  ASSUME log \in Seq(Shown), NEW e, Shows(e)
  PROVE  /\ ShownIds' = ShownIds \union {e.id}
         /\ Quotable' = Quotable \union (IF e.quotable THEN {e.id} ELSE {})
         /\ Echoed' = Echoed \union (IF IsOwn(e.id) /\ e.quotable THEN {e.id} ELSE {})
<1>0. /\ Len(log) \in Nat /\ Len(log') = Len(log) + 1 /\ log'[1] = e
      /\ \A i \in 1..Len(log) : i + 1 \in 1..Len(log') /\ log'[i + 1] = log[i]
      /\ \A i \in 1..Len(log') : i = 1 \/ (i - 1 \in 1..Len(log) /\ log'[i] = log[i - 1])
      /\ 1 \in 1..Len(log')
  BY LogGrows
<1>1. ShownIds' = ShownIds \union {e.id}
  <2>1. ASSUME NEW i \in 1..Len(log') PROVE log'[i].id \in ShownIds \union {e.id}
    <3>1. CASE i = 1
      BY <3>1, <1>0
    <3>2. CASE i - 1 \in 1..Len(log) /\ log'[i] = log[i - 1]
      BY <3>2 DEF ShownIds
    <3> QED
      BY <3>1, <3>2, <1>0
  <2>2. ShownIds \subseteq ShownIds' /\ e.id \in ShownIds'
    BY <1>0 DEF ShownIds
  <2> QED
    BY <2>1, <2>2 DEF ShownIds
<1>2. Quotable' = Quotable \union (IF e.quotable THEN {e.id} ELSE {})
  <2>1. ASSUME NEW i \in 1..Len(log'), log'[i].quotable
        PROVE  log'[i].id \in Quotable \union (IF e.quotable THEN {e.id} ELSE {})
    <3>1. CASE i = 1
      BY <2>1, <3>1, <1>0
    <3>2. CASE i - 1 \in 1..Len(log) /\ log'[i] = log[i - 1]
      BY <2>1, <3>2 DEF Quotable
    <3> QED
      BY <3>1, <3>2, <1>0
  <2>2. Quotable \subseteq Quotable' /\ (e.quotable => e.id \in Quotable')
    BY <1>0 DEF Quotable
  <2> QED
    BY <2>1, <2>2 DEF Quotable
<1>3. Echoed' = Echoed \union (IF IsOwn(e.id) /\ e.quotable THEN {e.id} ELSE {})
  <2>1. ASSUME NEW i \in 1..Len(log'), log'[i].id <= MaxSent, log'[i].quotable
        PROVE  log'[i].id \in Echoed \union (IF IsOwn(e.id) /\ e.quotable THEN {e.id} ELSE {})
    <3>1. CASE i = 1
      BY <2>1, <3>1, <1>0 DEF IsOwn
    <3>2. CASE i - 1 \in 1..Len(log) /\ log'[i] = log[i - 1]
      BY <2>1, <3>2 DEF Echoed, IsOwn
    <3> QED
      BY <3>1, <3>2, <1>0
  <2>2. Echoed \subseteq Echoed' /\ (IsOwn(e.id) /\ e.quotable => e.id \in Echoed')
    BY <1>0 DEF Echoed, IsOwn
  <2> QED
    BY <2>1, <2>2 DEF Echoed, IsOwn
<1> QED
  BY <1>1, <1>2, <1>3

LEMMA NewerGrows ==
  ASSUME log \in Seq(Shown), NEW e, Shows(e), NEW m
  PROVE  \A i \in 1..Len(log') : (\A k \in 1..i : log'[k].id # m) =>
           log'[i].id \in NewerThan(m) \union {e.id} /\ e.id # m
<1>1. ASSUME NEW i \in 1..Len(log'), \A k \in 1..i : log'[k].id # m
      PROVE  log'[i].id \in NewerThan(m) \union {e.id} /\ e.id # m
  <2>1. e.id # m
    BY <1>1, LogGrows
  <2>2. CASE i = 1
    BY <2>1, <2>2, LogGrows
  <2>3. CASE i # 1
    <3>1. i - 1 \in 1..Len(log) /\ log'[i] = log[i - 1]
      BY <2>3, LogGrows
    <3>2. \A k \in 1..(i - 1) : k + 1 \in 1..i /\ k \in 1..Len(log)
      BY <3>1, LogGrows
    <3>3. \A k \in 1..(i - 1) : log[k].id # m
      BY <1>1, <3>2, LogGrows
    <3> QED
      BY <2>1, <3>1, <3>3 DEF NewerThan
  <2> QED
    BY <2>2, <2>3
<1> QED
  BY <1>1

LEMMA LogInvGrows ==
  ASSUME log \in Seq(Shown), LogInv, NEW e, Shows(e), e.id \notin ShownIds,
         Past \subseteq Past', e.id \in Past',
         IsOwn(e.id) => e.conv = sentTo'[e.id],
         \A m \in ShownIds : IsOwn(m) => sentTo'[m] = sentTo[m]
  PROVE  LogInv'
<1>1. ShownIds' \subseteq Past'
  <2>1. ShownIds' = ShownIds \union {e.id}
    BY SetsGrow
  <2> QED
    BY <2>1 DEF LogInv
<1>2. \A i \in 1..Len(log) : log[i].id \in ShownIds
  BY DEF ShownIds
<1>3. \A i, j \in 1..Len(log') : log'[i].id = log'[j].id => i = j
  <2> SUFFICES ASSUME NEW i \in 1..Len(log'), NEW j \in 1..Len(log'), log'[i].id = log'[j].id PROVE i = j
    OBVIOUS
  <2>1. (i = 1 /\ log'[i] = e) \/ (i - 1 \in 1..Len(log) /\ log'[i] = log[i - 1])
    BY LogGrows
  <2>2. (j = 1 /\ log'[j] = e) \/ (j - 1 \in 1..Len(log) /\ log'[j] = log[j - 1])
    BY LogGrows
  <2>3. ~(i = 1 /\ log'[i] = e /\ j - 1 \in 1..Len(log) /\ log'[j] = log[j - 1])
    BY <1>2
  <2>4. ~(j = 1 /\ log'[j] = e /\ i - 1 \in 1..Len(log) /\ log'[i] = log[i - 1])
    BY <1>2
  <2>5. ASSUME i - 1 \in 1..Len(log), j - 1 \in 1..Len(log), log'[i] = log[i - 1], log'[j] = log[j - 1]
        PROVE  i - 1 = j - 1
    BY <2>5 DEF LogInv
  <2> QED
    BY <2>1, <2>2, <2>3, <2>4, <2>5, LogGrows
<1>4. ASSUME NEW i \in 1..Len(log'), IsOwn(log'[i].id) PROVE log'[i].conv = sentTo'[log'[i].id]
  <2>1. CASE i = 1
    BY <1>4, <2>1, LogGrows
  <2>2. CASE i - 1 \in 1..Len(log) /\ log'[i] = log[i - 1]
    BY <1>2, <1>4, <2>2 DEF LogInv
  <2> QED
    BY <2>1, <2>2, LogGrows
<1> QED
  BY <1>1, <1>3, <1>4 DEF LogInv, IsOwn

\* What cannot be replied to does not matter to the cache.
LEMMA CacheStays ==
  ASSUME Typing, CacheInv, NEW e, Shows(e), ~e.quotable, e.id \notin ShownIds,
         UNCHANGED <<replycache, phase>>
  PROVE  CacheInv'
<1>1. log \in Seq(Shown) /\ e.id \notin Quotable
  BY DEF Typing, TypeOK, Quotable, ShownIds
<1>2. Quotable' = Quotable
  BY <1>1, SetsGrow
<1>3. \A r : \A l \in 1..Len(log') : (\A k \in 1..l : log'[k].id # r) => log'[l].id \in NewerThan(r) \union {e.id}
  BY <1>1, NewerGrows
<1>4. ASSUME NEW i \in 1..Len(replycache'), NEW l \in 1..Len(log'),
             \A k \in 1..l : log'[k].id # replycache'[i], log'[l].id \in Quotable'
      PROVE  \E j \in 1..(i - 1) : log'[l].id = replycache'[j]
  <2>1. log'[l].id \in NewerThan(replycache[i]) /\ log'[l].id \in Quotable
    BY <1>1, <1>2, <1>3, <1>4
  <2> QED
    BY <1>4, <2>1 DEF CacheInv
<1> QED
  BY <1>4 DEF CacheInv, NewerThan, Released

\* After a message was shown, it is the first in the cache, or the cache is empty,
\* or it cannot be replied to.
LEMMA CacheInvGrows ==
  ASSUME Typing, CacheInv, NEW c \in Convs, NEW m \in Numbers, NEW body \in BOOLEAN,
         Show(c, m, body), phase' = phase, m \notin ShownIds
  PROVE  CacheInv'
<1> DEFINE e == [conv |-> c, id |-> m, quotable |-> body]
<1>1. Shows(e) /\ e.id = m /\ e.quotable = body
  BY NumbersTyping DEF Shows, Show
<1> HIDE DEF e
<1>2. log \in Seq(Shown) /\ replycache \in Seq(Numbers) /\ Len(replycache) \in Nat
  BY NumbersTyping DEF Typing, TypeOK
<1>3. Quotable' = Quotable \union (IF body THEN {m} ELSE {})
  BY <1>1, <1>2, SetsGrow
<1>4. \A r : \A l \in 1..Len(log') : (\A k \in 1..l : log'[k].id # r) => log'[l].id \in NewerThan(r) \union {m} /\ r # m
  BY <1>1, <1>2, NewerGrows
<1>5. m \notin Quotable
  BY DEF Quotable, ShownIds
<1>6. Released' <=> Released
  BY DEF Released
<1>7. CASE ~body
  <2>1. replycache' = replycache
    BY <1>7 DEF Show
  <2> QED
    BY <1>1, <1>7, <2>1, CacheStays
<1>8. CASE body /\ Released
  <2>1. replycache' = <<>> /\ Len(replycache') = 0
    BY <1>8, EmptySeq DEF Show, CacheInv
  <2> QED
    BY <2>1 DEF CacheInv
<1>9. CASE body /\ ~Released
  <2>1. PICK capacity \in Capacities : replycache' = Cached(m, capacity)
    BY <1>9 DEF Show
  <2>2. capacity \in Nat
    BY OptionsAssumption
  <2> DEFINE s == <<m>> \o replycache
  <2>3. /\ s \in Seq(Numbers) /\ Len(s) = Len(replycache) + 1 /\ s[1] = m
        /\ \A i \in 2..Len(s) : s[i] = replycache[i - 1]
    <3>1. <<m>> \in Seq(Numbers) /\ Len(<<m>>) = 1 /\ <<m>>[1] = m
      OBVIOUS
    <3> QED
      BY <1>2, <3>1, ConcatProperties
  <2> HIDE DEF s
  <2>4. \/ Len(replycache') = 0
        \/ Len(replycache') \in 1..Len(s) /\ \A i \in 1..Len(replycache') : replycache'[i] = s[i]
    <3>1. CASE capacity = 0
      <4>1. replycache' = IF Len(replycache) > 0 THEN SubSeq(replycache, 1, 0) ELSE replycache
        BY <2>1, <3>1 DEF Cached, Newest
      <4>2. Len(SubSeq(replycache, 1, 0)) = 0
        BY SubSeqEmpty, EmptySeq
      <4> QED
        BY <1>2, <4>1, <4>2
    <3>2. CASE capacity > 0
      <4>1. replycache' = IF Len(s) > capacity THEN SubSeq(s, 1, capacity) ELSE s
        BY <2>1, <3>2 DEF Cached, Newest, s
      <4>2. CASE Len(s) > capacity
        <5>1. \A i \in 1..capacity : s[i] \in Numbers
          BY <1>2, <2>2, <2>3, <4>2, ElementOfSeq
        <5>2. Len(SubSeq(s, 1, capacity)) = capacity /\ \A i \in 1..capacity : SubSeq(s, 1, capacity)[i] = s[i]
          BY <2>2, <3>2, <5>1, SubSeqProperties
        <5> QED
          BY <1>2, <2>2, <2>3, <3>2, <4>1, <4>2, <5>2
      <4>3. CASE ~(Len(s) > capacity)
        BY <1>2, <2>3, <4>1, <4>3
      <4> QED
        BY <4>2, <4>3
    <3> QED
      BY <2>2, <3>1, <3>2
  <2>5. ASSUME NEW i \in 1..Len(replycache'), NEW l \in 1..Len(log'),
               \A k \in 1..l : log'[k].id # replycache'[i], log'[l].id \in Quotable'
        PROVE  \E j \in 1..(i - 1) : log'[l].id = replycache'[j]
    <3> DEFINE q == log'[l].id
    <3>1. Len(replycache') \in 1..Len(s) /\ \A k \in 1..Len(replycache') : replycache'[k] = s[k]
      BY <2>4, <2>5
    <3>2. replycache'[i] # m
      BY <1>4, <2>5
    <3>3. i # 1
      BY <2>3, <3>1, <3>2
    <3>4. i - 1 \in 1..Len(replycache) /\ replycache'[i] = replycache[i - 1] /\ 1 \in 1..(i - 1) /\ replycache'[1] = m
      <4>1. i \in Nat /\ i >= 2 /\ i <= Len(s)
        BY <1>2, <2>3, <3>1, <3>3
      <4>2. replycache'[i] = s[i] /\ s[i] = replycache[i - 1] /\ replycache'[1] = s[1]
        BY <1>2, <2>3, <3>1, <4>1
      <4> QED
        BY <1>2, <2>3, <4>1, <4>2
    <3>5. CASE q = m
      BY <3>4, <3>5
    <3>6. CASE q # m
      <4>1. \A k \in 1..l : log'[k].id # replycache[i - 1]
        BY <2>5, <3>4
      <4>2. q \in NewerThan(replycache[i - 1]) /\ q \in Quotable
        BY <1>3, <1>4, <2>5, <3>6, <4>1
      <4>3. PICK j \in 1..(i - 1 - 1) : q = replycache[j]
        BY <3>4, <4>2 DEF CacheInv
      <4>4. j + 1 \in 1..(i - 1) /\ j + 1 \in 2..Len(s) /\ j + 1 \in 1..Len(replycache')
        <5>1. /\ Len(s) \in Nat /\ Len(replycache') \in Nat /\ Len(replycache') <= Len(s)
              /\ i \in Nat /\ i <= Len(replycache')
          BY <1>2, <2>3, <3>1
        <5>2. j \in Nat /\ 1 <= j /\ j + 1 <= i - 1
          BY <5>1, <4>3
        <5> QED
          BY <5>1, <5>2
      <4>5. replycache'[j + 1] = s[j + 1] /\ s[j + 1] = replycache[j + 1 - 1] /\ j + 1 - 1 = j
        BY <2>3, <3>1, <4>4
      <4> QED
        BY <4>3, <4>4, <4>5
    <3> QED
      BY <3>5, <3>6
  <2> QED
    BY <1>6, <1>9, <2>5 DEF CacheInv, NewerThan
<1> QED
  BY <1>7, <1>8, <1>9

-----------------------------------------------------------------------------
(* The socket.                                                             *)

LEMMA InboxStays ==
  ASSUME Typing, InboxInv, inbox' = inbox, sent' \in Nat, sent <= sent', received' = received,
         ShownIds' \subseteq ShownIds \union (1..MaxSent),
         asked' \union acked' \subseteq asked \union acked \union {sent + 1}
  PROVE  InboxInv'
<1>1. sent \in Nat /\ received \in Nat /\ MaxSent \in Nat
  BY NumbersTyping, BoundsAssumption
<1>2. ASSUME NEW i \in 1..Len(inbox'), inbox'[i].type = "IncomingMessage"
      PROVE  inbox'[i].id \in ((MaxSent + 1)..(MaxSent + received')) \ ShownIds'
  BY <1>1, <1>2 DEF InboxInv
<1>3. ASSUME NEW i \in 1..Len(inbox'), inbox'[i].type = "send"
      PROVE  inbox'[i].id \in (1..sent') \ (asked' \union acked')
  BY <1>1, <1>3 DEF InboxInv
<1> QED
  BY <1>2, <1>3 DEF InboxInv

\* A message is taken off the socket.
LEMMA InboxTakes ==
  ASSUME Typing, InboxInv, inbox # <<>>, inbox' = Tail(inbox), UNCHANGED <<sent, received>>,
         \A m \in ShownIds' \ ShownIds : m <= MaxSent \/ (Head(inbox).type = "IncomingMessage" /\ m = Head(inbox).id),
         \A m \in (asked' \union acked') \ (asked \union acked) : Head(inbox).type = "send" /\ m = Head(inbox).id
  PROVE  InboxInv'
<1>1. sent \in Nat /\ received \in Nat /\ MaxSent \in Nat /\ inbox \in Seq(Items) /\ Len(inbox) \in Nat
  BY NumbersTyping, BoundsAssumption DEF Typing
<1>2. /\ Len(inbox') = Len(inbox) - 1 /\ Head(inbox) = inbox[1] /\ 1 \in 1..Len(inbox)
      /\ \A i \in 1..Len(inbox') : inbox'[i] = inbox[i + 1] /\ i + 1 \in 1..Len(inbox) /\ i + 1 # 1
  BY <1>1, HeadTailProperties, EmptySeq
<1>3. ASSUME NEW i \in 1..Len(inbox'), inbox'[i].type = "IncomingMessage"
      PROVE  inbox'[i].id \in ((MaxSent + 1)..(MaxSent + received')) \ ShownIds'
  <2>1. inbox[i + 1].id \in ((MaxSent + 1)..(MaxSent + received)) \ ShownIds
    BY <1>2, <1>3 DEF InboxInv
  <2>2. inbox[1].type = "IncomingMessage" => inbox[1].id # inbox[i + 1].id
    BY <1>2, <1>3 DEF InboxInv
  <2> QED
    BY <1>1, <1>2, <2>1, <2>2
<1>4. ASSUME NEW i \in 1..Len(inbox'), inbox'[i].type = "send"
      PROVE  inbox'[i].id \in (1..sent') \ (asked' \union acked')
  <2>1. inbox[i + 1].id \in (1..sent) \ (asked \union acked)
    BY <1>2, <1>4 DEF InboxInv
  <2>2. inbox[1].type = "send" => inbox[1].id # inbox[i + 1].id
    BY <1>2, <1>4 DEF InboxInv
  <2> QED
    BY <1>2, <2>1, <2>2
<1>5. ASSUME NEW i \in 1..Len(inbox'), NEW j \in 1..Len(inbox'),
             inbox'[i].type # "unsubscribe", inbox'[i].type = inbox'[j].type, inbox'[i].id = inbox'[j].id
      PROVE  i = j
  <2>1. i + 1 = j + 1
    BY <1>2, <1>5 DEF InboxInv
  <2> QED
    BY <2>1
<1> QED
  BY <1>3, <1>4, <1>5 DEF InboxInv

\* A message is written to the socket.
LEMMA InboxGets ==
  ASSUME Typing, InboxInv, NEW m \in Items', inbox' = Append(inbox, m), UNCHANGED <<sent, log, acked>>,
         received' \in Nat, received <= received', asked' \subseteq asked,
         m.type = "IncomingMessage" => m.id \in ((MaxSent + received + 1)..(MaxSent + received')) \ ShownIds,
         m.type = "send" => m.id \in asked \ asked' /\ m.id \in (1..sent) \ acked
  PROVE  InboxInv'
<1>1. sent \in Nat /\ received \in Nat /\ MaxSent \in Nat /\ inbox \in Seq(Items) /\ Len(inbox) \in Nat
  BY NumbersTyping, BoundsAssumption DEF Typing
<1>2. inbox \in Seq(Items \union {m})
  BY <1>1, SeqMonotonic
<1>3. /\ Len(inbox') = Len(inbox) + 1
      /\ \A i \in 1..Len(inbox') : (i = Len(inbox) + 1 /\ inbox'[i] = m) \/ (i \in 1..Len(inbox) /\ inbox'[i] = inbox[i])
  BY <1>1, <1>2, AppendProperties
<1>4. ShownIds' = ShownIds
  BY DEF ShownIds
<1>5. ASSUME NEW i \in 1..Len(inbox'), inbox'[i].type = "IncomingMessage"
      PROVE  inbox'[i].id \in ((MaxSent + 1)..(MaxSent + received')) \ ShownIds'
  <2>1. CASE inbox'[i] = m
    BY <1>1, <1>4, <1>5, <2>1
  <2>2. CASE i \in 1..Len(inbox) /\ inbox'[i] = inbox[i]
    BY <1>1, <1>4, <1>5, <2>2 DEF InboxInv
  <2> QED
    BY <1>3, <2>1, <2>2
<1>6. ASSUME NEW i \in 1..Len(inbox'), inbox'[i].type = "send"
      PROVE  inbox'[i].id \in (1..sent') \ (asked' \union acked')
  <2>1. CASE inbox'[i] = m
    BY <1>6, <2>1
  <2>2. CASE i \in 1..Len(inbox) /\ inbox'[i] = inbox[i]
    BY <1>6, <2>2 DEF InboxInv
  <2> QED
    BY <1>3, <2>1, <2>2
<1>7. ASSUME NEW i \in 1..Len(inbox'), NEW j \in 1..Len(inbox'),
             inbox'[i].type # "unsubscribe", inbox'[i].type = inbox'[j].type, inbox'[i].id = inbox'[j].id
      PROVE  i = j
  <2>1. m.type \in {"IncomingMessage", "send", "unsubscribe"}
    <3>1. \/ m \in {Acknowledgement(k, d) : k \in 1..sent', d \in BOOLEAN}
          \/ m \in {Incoming(k, c) : k \in Numbers, c \in Convs}
          \/ m = Unsubscribed
      BY DEF Items
    <3> QED
      BY <3>1 DEF Acknowledgement, Incoming, Unsubscribed
  <2>2. \A k \in 1..Len(inbox) : m.type # "unsubscribe" => ~(inbox[k].type = m.type /\ inbox[k].id = m.id)
    <3> SUFFICES ASSUME NEW k \in 1..Len(inbox), inbox[k].type = m.type, m.type # "unsubscribe"
                 PROVE  inbox[k].id # m.id
      OBVIOUS
    <3>1. CASE m.type = "IncomingMessage"
      <4>1. inbox[k].id \in (MaxSent + 1)..(MaxSent + received)
        BY <3>1 DEF InboxInv
      <4>2. m.id \in (MaxSent + received + 1)..(MaxSent + received')
        BY <3>1
      <4> QED
        BY <1>1, <4>1, <4>2
    <3>2. CASE m.type = "send"
      BY <3>2 DEF InboxInv
    <3> QED
      BY <2>1, <3>1, <3>2
  <2>3. ASSUME i \in 1..Len(inbox), j \in 1..Len(inbox), inbox'[i] = inbox[i], inbox'[j] = inbox[j] PROVE i = j
    BY <1>7, <2>3 DEF InboxInv
  <2> QED
    BY <1>3, <1>7, <2>2, <2>3
<1> QED
  BY <1>5, <1>6, <1>7 DEF InboxInv

-----------------------------------------------------------------------------
(* The steps.                                                              *)

\* What a step keeps of the invariant that shows nothing and acknowledges nothing.
Quiet == UNCHANGED <<log, acked, sentTo, noted, skipped>>

LEMMA QuietKeeps ==
  ASSUME IInv, Quiet, sent' = sent, received' \in Nat, received <= received'
  PROVE  LogInv' /\ RepliesToNewest' /\ ShownIds' = ShownIds /\ Cardinality(Echoed') <= Cardinality(acked')
<1>1. Past \subseteq Past'
  BY NumbersTyping, BoundsAssumption DEF IInv, Past
<1> QED
  BY <1>1 DEF IInv, Quiet, LogInv, AckInv, RepliesToNewest, ShownIds, Echoed, IsOwn

LEMMA CacheKept ==
  ASSUME CacheInv, UNCHANGED <<log, replycache>>, phase' = phase \/ replycache = <<>>
  PROVE  CacheInv'
<1>1. CASE replycache = <<>>
  BY <1>1, EmptySeq DEF CacheInv
<1>2. CASE phase' = phase
  <2>1. \A i \in 1..Len(replycache) : NewerThan(replycache[i])' = NewerThan(replycache[i])
    BY DEF NewerThan
  <2>2. Quotable' = Quotable
    BY DEF Quotable
  <2> QED
    BY <1>2, <2>1, <2>2 DEF CacheInv, Released
<1> QED
  BY <1>1, <1>2

LEMMA SlotKept ==
  ASSUME SlotInv, UNCHANGED <<log, sendVars>>
  PROVE  SlotInv'
BY DEF SlotInv, ShownIds, sendVars

LEMMA ReceiptsKept ==
  ASSUME ReceiptsInv, UNCHANGED receiptVars, ShownIds \subseteq ShownIds',
         hungup => hungup', phase' = phase \/ phase' # "live"
  PROVE  ReceiptsInv'
BY DEF ReceiptsInv, ReceiptsAccounted, Waiting, receiptVars

\* What is shown after a step of sending: another message.
LEMMA SendStep ==
  ASSUME IInv, Typing', NEW c \in Convs, NEW matching \in SUBSET Quotable, NEW wait \in WaitOptions, NEW result \in Results,
         SendMessage(c, matching, wait, result)
  PROVE  IInv'
<1> DEFINE e == [conv |-> c, id |-> sent', quotable |-> FALSE]
<1>0. /\ Typing /\ log \in Seq(Shown) /\ sent \in Nat /\ received \in Nat /\ MaxSent \in Nat
      /\ sent' = sent + 1 /\ sent' \in 1..MaxSent /\ sentTo \in [1..MaxSent -> Convs \union {NoConv}]
  <2>1. /\ Typing /\ log \in Seq(Shown) /\ sent \in Nat /\ received \in Nat /\ MaxSent \in Nat
        /\ sentTo \in [1..MaxSent -> Convs \union {NoConv}]
    <3>1. Typing
      BY DEF IInv
    <3> QED
      BY <3>1, NumbersTyping, BoundsAssumption DEF Typing, TypeOK
  <2>2. sent' = sent + 1 /\ sent < MaxSent
    BY DEF SendMessage
  <2> QED
    BY <2>1, <2>2
<1>1. e \in Shown /\ e.id = sent' /\ e.conv = c /\ ~e.quotable
  BY <1>0, NumbersTyping
<1> HIDE DEF e
<1>2. log' = log \/ Shows(e)
  BY <1>1 DEF SendMessage, Shows, e
<1>3. sent' \notin Past /\ Past' = Past \union {sent'}
  BY <1>0 DEF Past, SendMessage
<1>4. ShownIds \subseteq Past /\ sent' \notin ShownIds
  BY <1>3 DEF IInv, LogInv
<1>5. ShownIds' \in {ShownIds, ShownIds \union {sent'}}
  BY <1>0, <1>1, <1>2, SetsGrow DEF ShownIds
<1>6. sentTo'[sent'] = c /\ \A m \in 1..MaxSent : m # sent' => sentTo'[m] = sentTo[m]
  BY <1>0 DEF SendMessage
<1>7. \A m \in Past : IsOwn(m) => m \in 1..MaxSent /\ m # sent'
  BY <1>0, <1>3 DEF Past, IsOwn
<1>8. LogInv'
  <2>1. CASE log' = log
    <3>1. ShownIds' = ShownIds /\ \A i \in 1..Len(log) : log[i].id \in ShownIds
      BY <2>1 DEF ShownIds
    <3>2. \A i \in 1..Len(log') : IsOwn(log'[i].id) => log'[i].conv = sentTo'[log'[i].id]
      BY <1>4, <1>6, <1>7, <2>1, <3>1 DEF IInv, LogInv
    <3> QED
      BY <1>3, <2>1, <3>1, <3>2 DEF IInv, LogInv, IsOwn
  <2>2. CASE Shows(e)
    <3>1. \A m \in ShownIds : IsOwn(m) => sentTo'[m] = sentTo[m]
      BY <1>4, <1>6, <1>7
    <3> QED
      BY <1>0, <1>1, <1>3, <1>4, <1>6, <2>2, <3>1, LogInvGrows DEF IInv
  <2> QED
    BY <1>2, <2>1, <2>2
<1>9. SlotInv'
  <2>1. CASE EchoedLater(wait, result)
    <3>1. log' = log /\ last_message' = sent' /\ last_conversation' = c
      BY <2>1 DEF SendMessage, Remember, EchoedLater, Results
    <3> QED
      BY <1>4, <1>6, <3>1 DEF SlotInv, ShownIds
  <2>2. CASE ~EchoedLater(wait, result)
    <3>1. UNCHANGED <<last_message, last_conversation>>
      BY <2>2 DEF SendMessage
    <3>2. last_message # 0 => last_message \in 1..MaxSent /\ last_message # sent'
      BY <1>0 DEF Typing, TypeOK
    <3> QED
      BY <1>5, <1>6, <3>1, <3>2 DEF IInv, SlotInv
  <2> QED
    BY <2>1, <2>2
<1>10. InboxInv'
  <2>1. ShownIds' \subseteq ShownIds \union (1..MaxSent)
    BY <1>0, <1>5
  <2>2. asked' \union acked' \subseteq asked \union acked \union {sent + 1}
    BY <1>0 DEF SendMessage
  <2> QED
    BY <1>0, <2>1, <2>2, InboxStays DEF IInv, SendMessage
<1>11. AckInv'
  <2>1. Echoed' = Echoed
    <3>1. CASE log' = log
      BY <3>1 DEF Echoed, IsOwn
    <3>2. CASE Shows(e)
      BY <1>0, <1>1, <3>2, SetsGrow
    <3> QED
      BY <1>2, <3>1, <3>2
  <2>2. sent' \notin acked
    BY <1>0 DEF Typing, TypeOK
  <2> QED
    BY <2>1, <2>2 DEF IInv, AckInv, SendMessage
<1>12. CacheInv'
  <2>1. UNCHANGED <<replycache, phase>>
    BY DEF SendMessage
  <2>2. CASE log' = log
    BY <2>1, <2>2, CacheKept DEF IInv
  <2>3. CASE Shows(e)
    BY <1>0, <1>1, <1>4, <2>1, <2>3, CacheStays DEF IInv
  <2> QED
    BY <1>2, <2>2, <2>3
<1>13. ReceiptsInv'
  BY <1>5, ReceiptsKept DEF IInv, SendMessage
<1>14. RepliesToNewest'
  <2> DEFINE found == {i \in 1..Len(replycache) : replycache[i] \in matching}
  <2>1. CASE found = {}
    <3>1. CheckCache(matching) = 0
      BY <2>1 DEF CheckCache
    <3> QED
      BY <3>1 DEF SendMessage, IInv, RepliesToNewest
  <2>2. CASE found # {}
    <3>1. \E i \in found : \A j \in found : i <= j
      <4>1. found \subseteq Nat
        BY NumbersTyping DEF IInv
      <4> HIDE DEF found
      <4> QED
        BY <2>2, <4>1, LeastNat
    <3>2. CheckCache(matching) \in found /\ \A j \in found : CheckCache(matching) <= j
      BY <2>2, <3>1 DEF CheckCache
    <3>3. \A q \in NewerThan(replycache[CheckCache(matching)]) \intersect matching :
            \E j \in 1..(CheckCache(matching) - 1) : q = replycache[j]
      BY <3>2 DEF IInv, CacheInv
    <3>4. \A j \in 1..(CheckCache(matching) - 1) : replycache[j] \notin matching
      BY <3>2, NumbersTyping DEF IInv
    <3>5. NewerThan(replycache[CheckCache(matching)]) \intersect matching = {}
      BY <3>3, <3>4
    <3> QED
      BY <3>5 DEF SendMessage, IInv, RepliesToNewest
  <2> QED
    BY <2>1, <2>2
<1> QED
  BY <1>8, <1>9, <1>10, <1>11, <1>12, <1>13, <1>14 DEF IInv

LEMMA OwnAreFinite ==
  ASSUME Typing
  PROVE  IsFiniteSet(acked) /\ IsFiniteSet(Echoed)
<1>1. IsFiniteSet(1..MaxSent)
  BY FS_Interval, BoundsAssumption
<1>2. acked \subseteq 1..MaxSent
  BY NumbersTyping DEF Typing, TypeOK
<1>3. Echoed \subseteq 1..MaxSent
  <2>1. \A i \in 1..Len(log) : log[i] \in Shown
    BY ElementOfSeq DEF Typing, TypeOK
  <2>2. \A i \in 1..Len(log) : log[i].id \in Nat /\ log[i].id >= 1
    BY <2>1, BoundsAssumption DEF Shown, Numbers
  <2> QED
    BY <2>2, BoundsAssumption DEF Echoed, IsOwn
<1> QED
  BY <1>1, <1>2, <1>3, FS_Subset

\* An acknowledgement is taken from the socket; the message in the slot is shown.
LEMMA AcknowledgedStep ==
  ASSUME IInv, Typing', OnSend
  PROVE  IInv'
<1> DEFINE m == Head(inbox).id
           e == [conv |-> last_conversation, id |-> last_message, quotable |-> TRUE]
<1>0. /\ Typing /\ log \in Seq(Shown) /\ sent \in Nat /\ received \in Nat /\ MaxSent \in Nat
      /\ inbox # <<>> /\ inbox' = Tail(inbox) /\ Head(inbox).type = "send" /\ sent \in 0..MaxSent
      /\ UNCHANGED <<last_conversation, sentTo, receiptVars, phase, daemonVars, skipped>>
  <2>1. Typing
    BY DEF IInv
  <2> QED
    BY <2>1, NumbersTyping, BoundsAssumption DEF Typing, TypeOK, OnSend, Handle
<1>1. m \in (1..sent) \ (asked \union acked)
  <2>1. inbox \in Seq(Items) /\ 1 \in 1..Len(inbox) /\ Head(inbox) = inbox[1]
    BY <1>0, EmptySeq DEF Typing
  <2> QED
    BY <1>0, <2>1 DEF IInv, InboxInv
<1>2. acked' \in {acked, acked \union {m}} /\ (Head(inbox).delivered => acked' = acked \union {m})
  BY DEF OnSend
<1>3. asked' = asked /\ sent' = sent /\ received' = received /\ Past' = Past
  BY <1>0 DEF daemonVars, Past
<1>4. CASE ~Echoes(Head(inbox).delivered)
  <2>1. UNCHANGED <<last_message, cacheVars>>
    BY <1>4 DEF OnSend
  <2>2. ShownIds' = ShownIds /\ Echoed' = Echoed
    BY <2>1 DEF ShownIds, Echoed, IsOwn, cacheVars
  <2>3. LogInv'
    BY <1>0, <1>3, <2>1, <2>2 DEF IInv, LogInv, cacheVars, IsOwn
  <2>4. SlotInv'
    BY <1>0, <2>1, SlotKept DEF IInv, sendVars, cacheVars
  <2>5. InboxInv'
    BY <1>0, <1>2, <1>3, <2>2, InboxTakes DEF IInv
  <2>6. AckInv'
    <3>1. IsFiniteSet(acked) /\ IsFiniteSet(Echoed) /\ IsFiniteSet(acked') /\ acked \subseteq acked'
      <4>1. IsFiniteSet(acked \union {m})
        BY <1>0, OwnAreFinite, FS_AddElement
      <4> QED
        BY <1>0, <1>2, <4>1, OwnAreFinite
    <3>2. /\ Cardinality(acked) <= Cardinality(acked') /\ Cardinality(acked) \in Nat
          /\ Cardinality(acked') \in Nat /\ Cardinality(Echoed) \in Nat
      BY <3>1, FS_Subset, FS_CardinalityType
    <3> QED
      BY <1>1, <1>2, <1>3, <2>2, <3>2 DEF IInv, AckInv
  <2>7. CacheInv'
    BY <1>0, <2>1, CacheKept DEF IInv, cacheVars
  <2>8. ReceiptsInv'
    BY <1>0, <2>2, ReceiptsKept DEF IInv, daemonVars
  <2>9. RepliesToNewest'
    BY <1>0 DEF IInv, RepliesToNewest
  <2> QED
    BY <2>3, <2>4, <2>5, <2>6, <2>7, <2>8, <2>9 DEF IInv
<1>5. CASE Echoes(Head(inbox).delivered)
  <2>1. Show(last_conversation, last_message, TRUE) /\ last_message' = 0 /\ acked' = acked \union {m}
    BY <1>2, <1>5 DEF OnSend, Echo, Echoes
  <2>2. /\ last_conversation \in Convs /\ last_message \in Numbers /\ last_message \in 1..sent
        /\ last_message \notin ShownIds /\ last_conversation = sentTo[last_message]
    BY <1>0, <1>5, NumbersTyping DEF IInv, SlotInv, Echoes, Typing, TypeOK
  <2>3. Shows(e) /\ e.id = last_message /\ e.conv = last_conversation /\ e.quotable
    BY <1>0, <2>1, <2>2, NumbersTyping DEF Shows, Show
  <2> HIDE DEF e
  <2>4. /\ ShownIds' = ShownIds \union {last_message}
        /\ Echoed' = Echoed \union {last_message} /\ last_message \notin Echoed
    <3>1. IsOwn(last_message)
      BY <1>0, <2>2 DEF IsOwn
    <3>2. last_message \notin Echoed
      BY <2>2 DEF Echoed, ShownIds
    <3> QED
      BY <1>0, <2>3, <3>1, <3>2, SetsGrow
  <2>5. LogInv'
    <3>1. last_message \in Past'
      BY <1>3, <2>2 DEF Past
    <3> QED
      BY <1>0, <1>3, <2>2, <2>3, <3>1, LogInvGrows DEF IInv
  <2>6. SlotInv'
    BY <2>1 DEF SlotInv
  <2>7. InboxInv'
    <3>1. \A k \in ShownIds' \ ShownIds : k <= MaxSent
      BY <1>0, <2>2, <2>4
    <3> QED
      BY <1>0, <1>2, <1>3, <3>1, InboxTakes DEF IInv
  <2>8. AckInv'
    <3>1. IsFiniteSet(acked) /\ IsFiniteSet(Echoed) /\ m \notin acked
      BY <1>0, <1>1, OwnAreFinite
    <3>2. Cardinality(acked') = Cardinality(acked) + 1 /\ Cardinality(acked) \in Nat
      BY <2>1, <3>1, FS_AddElement, FS_CardinalityType
    <3>3. Cardinality(Echoed') = Cardinality(Echoed) + 1 /\ Cardinality(Echoed) \in Nat
      BY <2>4, <3>1, FS_AddElement, FS_CardinalityType
    <3> QED
      BY <1>1, <1>2, <1>3, <3>2, <3>3 DEF IInv, AckInv
  <2>9. CacheInv'
    BY <1>0, <2>1, <2>2, CacheInvGrows DEF IInv
  <2>10. ReceiptsInv'
    BY <1>0, <2>4, ReceiptsKept DEF IInv, daemonVars
  <2>11. RepliesToNewest'
    BY <1>0 DEF IInv, RepliesToNewest
  <2> QED
    BY <2>5, <2>6, <2>7, <2>8, <2>9, <2>10, <2>11 DEF IInv
<1> QED
  BY <1>4, <1>5

\* A message received is shown, and noted in the table of receipts.
LEMMA ReceivedStep ==
  ASSUME IInv, Typing', OnIncoming
  PROVE  IInv'
<1> DEFINE m == Head(inbox).id
           c == Head(inbox).conv
<1>0. /\ Typing /\ log \in Seq(Shown) /\ sent \in Nat /\ received \in Nat /\ MaxSent \in Nat
      /\ inbox # <<>> /\ inbox' = Tail(inbox) /\ Head(inbox).type = "IncomingMessage"
      /\ sent \in 0..MaxSent /\ noted \subseteq People \X Numbers
      /\ marked \subseteq noted /\ lost \subseteq noted
      /\ outgoing_receipts \in [People -> SUBSET Numbers]
      /\ UNCHANGED <<sendVars, marked, lost, phase, daemonVars, acked, skipped>>
  <2>1. Typing
    BY DEF IInv
  <2> QED
    BY <2>1, NumbersTyping, BoundsAssumption DEF Typing, TypeOK, OnIncoming, Handle
<1>1. m \in ((MaxSent + 1)..(MaxSent + received)) \ ShownIds /\ m \in Numbers /\ c \in Convs
  <2>1. inbox \in Seq(Items) /\ 1 \in 1..Len(inbox) /\ Head(inbox) = inbox[1]
    BY <1>0, EmptySeq DEF Typing
  <2>2. m \in ((MaxSent + 1)..(MaxSent + received)) \ ShownIds
    BY <1>0, <2>1 DEF IInv, InboxInv
  <2>3. \E k \in Numbers, d \in Convs : Head(inbox) = Incoming(k, d)
    BY <1>0, <2>1, InboxTyping DEF Acknowledgement, Incoming, Unsubscribed
  <2> QED
    BY <2>2, <2>3 DEF Incoming
<1>2. PICK body \in BOOLEAN, readers \in {{}, Readers(c)} :
        /\ Show(c, m, body)
        /\ IF Released THEN UNCHANGED outgoing_receipts ELSE MarkRead(readers, m)
        /\ noted' = noted \union (readers \X {m})
  BY DEF OnIncoming
<1> DEFINE e == [conv |-> c, id |-> m, quotable |-> body]
<1>3. asked' = asked /\ sent' = sent /\ received' = received /\ Past' = Past /\ sentTo' = sentTo /\ hungup' = hungup
  BY <1>0 DEF daemonVars, sendVars, Past
<1> HIDE DEF m, c
<1>4. Shows(e) /\ e.id = m
  BY <1>0, <1>1, <1>2, NumbersTyping DEF Shows, Show
<1> HIDE DEF e
<1>5. ~IsOwn(m)
  BY <1>0, <1>1 DEF IsOwn
<1>6. ShownIds' = ShownIds \union {m} /\ Echoed' = Echoed
  BY <1>0, <1>4, <1>5, SetsGrow
<1>7. LogInv'
  <2>1. m \in Past'
    BY <1>1, <1>3 DEF Past
  <2> QED
    BY <1>0, <1>1, <1>3, <1>4, <1>5, <2>1, LogInvGrows DEF IInv
<1>8. SlotInv'
  <2>1. last_message # m /\ UNCHANGED <<last_message, last_conversation>>
    BY <1>0, <1>1 DEF Typing, TypeOK, sendVars
  <2> QED
    BY <1>3, <1>6, <2>1 DEF IInv, SlotInv
<1>9. InboxInv'
  BY <1>0, <1>3, <1>6, InboxTakes DEF IInv, m
<1>10. AckInv'
  BY <1>0, <1>3, <1>6 DEF IInv, AckInv
<1>11. CacheInv'
  BY <1>0, <1>1, <1>2, CacheInvGrows DEF IInv
<1>12. ReceiptsInv'
  <2>1. readers \subseteq People
    BY <1>0, <1>1, NumbersTyping
  <2>2. \A r \in noted : r[2] # m /\ r[2] \in ShownIds' /\ r[1] \in People
    BY <1>0, <1>1, <1>6 DEF IInv, ReceiptsInv
  <2>3. \A r \in noted' : r \in noted \/ (r[1] \in readers /\ r[2] = m)
    BY <1>2
  <2>4. \A r \in noted' : r[2] \in ShownIds'
    BY <1>6, <2>2, <2>3
  <2>5. \A r \in noted : r[2] \in outgoing_receipts'[r[1]] <=> r[2] \in outgoing_receipts[r[1]]
    BY <1>2, <2>2 DEF MarkRead
  <2>6. Waiting' \intersect (marked' \union lost') = {} /\ marked' \intersect lost' = {}
    BY <1>0, <2>5 DEF IInv, ReceiptsInv, ReceiptsAccounted, Waiting
  <2>7. ~Released => \A r \in noted' \ noted : r[2] \in outgoing_receipts'[r[1]]
    BY <1>2, <2>1, <2>3 DEF MarkRead
  <2>8. phase' = "live" => noted' \subseteq Waiting' \union marked' \union lost'
    BY <1>0, <1>2, <1>3, <2>5, <2>7 DEF IInv, ReceiptsInv, ReceiptsAccounted, Waiting, Released
  <2> QED
    BY <2>4, <2>6, <2>8 DEF ReceiptsInv, ReceiptsAccounted
<1>13. RepliesToNewest'
  BY <1>0 DEF IInv, RepliesToNewest
<1> QED
  BY <1>7, <1>8, <1>9, <1>10, <1>11, <1>12, <1>13 DEF IInv

\* Nothing is shown, noted or acknowledged: the socket, the account and the table.
LEMMA QuietStep ==
  ASSUME IInv, Typing', Quiet, UNCHANGED <<last_message, last_conversation, sent>>,
         received' \in Nat, received <= received',
         asked' \subseteq asked, InboxInv', ReceiptsInv',
         (replycache' = replycache /\ (phase' = phase \/ phase # "live")) \/ replycache' = <<>>
  PROVE  IInv'
<1>1. LogInv' /\ RepliesToNewest' /\ Cardinality(Echoed') <= Cardinality(acked')
  BY QuietKeeps
<1>2. SlotInv'
  BY SlotKept DEF IInv, Quiet, sendVars
<1>3. AckInv'
  BY <1>1 DEF IInv, AckInv, Quiet
<1>4. CacheInv'
  <2>1. CASE replycache' = <<>>
    BY <2>1, EmptySeq DEF CacheInv
  <2>2. CASE replycache' = replycache /\ (phase' = phase \/ phase # "live")
    <3>1. phase' = phase \/ replycache = <<>>
      BY <2>2 DEF IInv, CacheInv, Released
    <3> QED
      BY <2>2, <3>1, CacheKept DEF IInv, Quiet
  <2> QED
    BY <2>1, <2>2
<1> QED
  BY <1>1, <1>2, <1>3, <1>4 DEF IInv

LEMMA StepInvariant ==
  ASSUME IInv, [Next]_vars
  PROVE  IInv'
<1>0. Typing /\ Typing' /\ sent \in Nat /\ received \in Nat /\ MaxSent \in Nat
  <2>1. Typing
    BY DEF IInv
  <2> QED
    BY <2>1, TypingStep, NumbersTyping, BoundsAssumption
<1>1. CASE User
  BY <1>0, <1>1, SendStep DEF User
<1>2. CASE OnSend
  BY <1>0, <1>2, AcknowledgedStep
<1>3. CASE OnIncoming
  BY <1>0, <1>3, ReceivedStep
<1>4. CASE OnNothing
  <2>1. /\ Quiet /\ UNCHANGED <<last_message, last_conversation, sent, received, asked, phase, replycache>>
        /\ UNCHANGED receiptVars /\ hungup' = hungup /\ inbox # <<>> /\ inbox' = Tail(inbox)
    BY <1>4 DEF OnNothing, Handle, Quiet, sendVars, cacheVars, receiptVars, daemonVars
  <2>2. ShownIds' = ShownIds /\ acked' = acked
    BY <2>1 DEF Quiet, ShownIds
  <2>3. InboxInv'
    BY <1>0, <2>1, <2>2, InboxTakes DEF IInv
  <2>4. ReceiptsInv'
    BY <2>1, <2>2, ReceiptsKept DEF IInv
  <2> QED
    BY <1>0, <2>1, <2>3, <2>4, QuietStep
<1>5. CASE ReceiptsTimer
  <2>1. /\ Quiet /\ UNCHANGED <<last_message, last_conversation, sent, received, asked, phase, replycache, inbox>>
        /\ hungup' = hungup /\ noted' = noted /\ outgoing_receipts' = [p \in People |-> {}]
        /\ \E now \in SUBSET Waiting : marked' = marked \union now /\ lost' = lost \union (Waiting \ now)
    <3>1. /\ UNCHANGED <<last_message, last_conversation, sent, received, asked, phase, replycache, inbox>>
          /\ Quiet /\ hungup' = hungup /\ noted' = noted /\ outgoing_receipts' = [p \in People |-> {}]
      BY <1>5 DEF ReceiptsTimer, SendReceipts, Quiet, sendVars, cacheVars, daemonVars
    <3>2. PICK failing \in SUBSET {r[1] : r \in Waiting} :
            /\ hungup => failing = {r[1] : r \in Waiting}
            /\ lost' = lost \union {r \in Waiting : r[1] \in failing}
            /\ marked' = marked \union {r \in Waiting : r[1] \notin failing}
      BY <1>5 DEF ReceiptsTimer
    <3> DEFINE now == {r \in Waiting : r[1] \notin failing}
    <3>3. now \in SUBSET Waiting /\ {r \in Waiting : r[1] \in failing} = Waiting \ now
      OBVIOUS
    <3>4. marked' = marked \union now /\ lost' = lost \union (Waiting \ now)
      BY <3>2, <3>3
    <3> QED
      BY <3>1, <3>3, <3>4
  <2>2. ShownIds' = ShownIds /\ acked' = acked
    BY <2>1 DEF Quiet, ShownIds
  <2>3. InboxInv'
    BY <1>0, <2>1, <2>2, InboxStays DEF IInv
  <2>4. ReceiptsInv'
    <3>1. Waiting' = {}
      <4>1. \A r \in noted : r[1] \in People
        BY <1>0 DEF Typing, TypeOK
      <4> QED
        BY <2>1, <4>1 DEF Waiting
    <3> QED
      BY <2>1, <2>2, <3>1 DEF IInv, ReceiptsInv, ReceiptsAccounted
  <2> QED
    BY <1>0, <2>1, <2>3, <2>4, QuietStep
<1>6. CASE Close
  <2>1. /\ Quiet /\ UNCHANGED <<last_message, last_conversation, sent, received, asked, inbox, marked, lost>>
        /\ replycache' = <<>> /\ phase' # "live" /\ outgoing_receipts' = [p \in People |-> {}]
    BY <1>6 DEF Close, Quiet, sendVars, daemonVars
  <2>2. ShownIds' = ShownIds /\ acked' = acked
    BY <2>1 DEF Quiet, ShownIds
  <2>3. InboxInv'
    BY <1>0, <2>1, <2>2, InboxStays DEF IInv
  <2>4. ReceiptsInv'
    <3>1. Waiting' = {}
      <4>1. \A r \in noted : r[1] \in People
        BY <1>0 DEF Typing, TypeOK
      <4> QED
        BY <2>1, <4>1 DEF Waiting, Quiet
    <3> QED
      BY <2>1, <2>2, <3>1 DEF IInv, ReceiptsInv, ReceiptsAccounted, Quiet
  <2> QED
    BY <1>0, <2>1, <2>3, <2>4, QuietStep
<1>7. CASE CloseRead \/ CloseEnd \/ Hangup \/ Terminated \/ UNCHANGED vars
  <2>1. /\ Quiet /\ UNCHANGED <<last_message, last_conversation, sent, received, asked, inbox, replycache>>
        /\ UNCHANGED receiptVars /\ (hungup => hungup') /\ (phase' = phase \/ (phase # "live" /\ phase' # "live"))
    BY <1>7 DEF CloseRead, CloseEnd, Hangup, Terminated, Quiet, vars, sendVars, cacheVars, receiptVars, daemonVars
  <2>2. ShownIds' = ShownIds /\ acked' = acked
    BY <2>1 DEF Quiet, ShownIds
  <2>3. InboxInv'
    BY <1>0, <2>1, <2>2, InboxStays DEF IInv
  <2>4. ReceiptsInv'
    BY <2>1, <2>2, ReceiptsKept DEF IInv
  <2> QED
    BY <1>0, <2>1, <2>3, <2>4, QuietStep
<1>8. ASSUME NEW m \in Items', Write(m), received' \in Nat, received <= received', asked' \subseteq asked,
             m.type = "IncomingMessage" => m.id \in ((MaxSent + received + 1)..(MaxSent + received')) \ ShownIds,
             m.type = "send" => m.id \in asked \ asked' /\ m.id \in (1..sent) \ acked
      PROVE  IInv'
  <2>1. /\ Quiet /\ UNCHANGED <<last_message, last_conversation, sent, phase, replycache>>
        /\ UNCHANGED receiptVars /\ hungup' = hungup /\ inbox' = Append(inbox, m)
    BY <1>8 DEF Write, Quiet, sendVars, cacheVars, receiptVars
  <2>2. UNCHANGED <<sent, log, acked>> /\ ShownIds' = ShownIds
    BY <2>1 DEF Quiet, ShownIds
  <2>3. InboxInv'
    BY <1>0, <1>8, <2>1, <2>2, InboxGets DEF IInv
  <2>4. ReceiptsInv'
    BY <2>1, <2>2, ReceiptsKept DEF IInv
  <2> QED
    BY <1>0, <1>8, <2>1, <2>3, <2>4, QuietStep
<1>9. CASE \E m \in 1..MaxSent : AnswerSend(m)
  <2>1. PICK m \in 1..MaxSent, d \in BOOLEAN :
          m \in asked /\ asked' = asked \ {m} /\ Write(Acknowledgement(m, d)) /\ received' = received
    BY <1>9 DEF AnswerSend
  <2>2. m \in (1..sent) \ acked /\ sent' = sent
    BY <1>0, <2>1 DEF Write, IInv, AckInv, Typing, TypeOK
  <2>3. Acknowledgement(m, d) \in Items'
    BY <2>2 DEF Items
  <2>4. Acknowledgement(m, d).type = "send" /\ Acknowledgement(m, d).id = m
    BY DEF Acknowledgement
  <2> QED
    BY <1>0, <1>8, <2>1, <2>2, <2>3, <2>4
<1>10. CASE \E c \in Convs : Forward(c)
  <2>1. PICK c \in Convs : received < MaxReceived /\ received' = received + 1
                           /\ Write(Incoming(MaxSent + received', c)) /\ asked' = asked
    BY <1>10 DEF Forward
  <2>2. MaxSent + received' \notin ShownIds /\ MaxSent + received' \in Numbers
    BY <1>0, <2>1, BoundsAssumption DEF IInv, LogInv, Past, Numbers, Typing, TypeOK
  <2>3. Incoming(MaxSent + received', c) \in Items'
    BY <2>2 DEF Items
  <2>4. Incoming(MaxSent + received', c).type = "IncomingMessage" /\ Incoming(MaxSent + received', c).id = MaxSent + received'
    BY DEF Incoming
  <2>5. MaxSent + received' \in ((MaxSent + received + 1)..(MaxSent + received')) \ ShownIds
    BY <1>0, <2>1, <2>2
  <2> QED
    BY <1>0, <1>8, <2>1, <2>3, <2>4, <2>5
<1>11. CASE AnswerUnsubscribe
  <2>1. Write(Unsubscribed) /\ received' = received /\ asked' = asked /\ phase' # "live"
    BY <1>11 DEF AnswerUnsubscribe, Write
  <2>2. Unsubscribed \in Items' /\ Unsubscribed.type = "unsubscribe"
    BY <2>1 DEF Items, Unsubscribed
  <2> QED
    BY <1>0, <1>8, <2>1, <2>2
<1> QED
  BY <1>1, <1>2, <1>3, <1>4, <1>5, <1>6, <1>7, <1>9, <1>10, <1>11 DEF Next, Signald

-----------------------------------------------------------------------------

THEOREM Invariant == Spec => []IInv
<1>1. Init => IInv
  <2> SUFFICES ASSUME Init PROVE IInv
    OBVIOUS
  <2>1. /\ Len(log) = 0 /\ Len(inbox) = 0 /\ Len(replycache) = 0 /\ log \in Seq(Shown)
        /\ inbox \in Seq(Items) /\ replycache \in Seq(Numbers)
    BY EmptySeq DEF Init
  <2>2. Typing
    <3>1. 0 \in 0..MaxSent /\ 0 \in 0..MaxReceived /\ outgoing_receipts \in [People -> SUBSET Numbers]
      BY BoundsAssumption DEF Init
    <3>2. sentTo \in [1..MaxSent -> Convs \union {NoConv}]
      BY DEF Init
    <3>3. /\ last_message \in 0..sent /\ sent \in 0..MaxSent /\ received \in 0..MaxReceived
          /\ last_message = 0 /\ last_conversation \in Convs \union {NoConv}
      BY <3>1 DEF Init
    <3>4. /\ asked \subseteq 1..sent /\ acked \subseteq 1..sent /\ noted \subseteq People \X Numbers
          /\ marked \subseteq noted /\ lost \subseteq noted
      BY DEF Init
    <3>5. /\ phase \in {"live", "blocked", "reading", "closed"} /\ hungup \in BOOLEAN
          /\ skipped \in BOOLEAN /\ misused \in BOOLEAN
      BY DEF Init
    <3> QED
      BY <2>1, <3>1, <3>2, <3>3, <3>4, <3>5 DEF Typing, TypeOK
  <2>3. ShownIds = {} /\ Echoed = {}
    BY <2>1 DEF ShownIds, Echoed
  <2>4. LogInv /\ SlotInv /\ InboxInv /\ CacheInv /\ RepliesToNewest
    BY <2>1, <2>3 DEF Init, LogInv, SlotInv, InboxInv, CacheInv, RepliesToNewest
  <2>5. AckInv
    BY <2>3, FS_EmptySet DEF Init, AckInv
  <2>6. ReceiptsInv
    BY DEF Init, ReceiptsInv, ReceiptsAccounted, Waiting
  <2> QED
    BY <2>2, <2>4, <2>5, <2>6 DEF IInv
<1>2. IInv /\ [Next]_vars => IInv'
  BY StepInvariant
<1> QED
  BY <1>1, <1>2, PTL DEF Spec

\* The types of the slot, the cache and the table (message.c, reply.c, receipt.c).
THEOREM TypeCorrect == Spec => []TypeOK
<1>1. IInv => TypeOK
  BY DEF IInv, Typing
<1> QED
  BY <1>1, Invariant, PTL

\* signald_send_acknowledged (message.c:331) shows a message at most once, and
\* where it was sent to, for any number of messages and order of acknowledgements.
THEOREM EchoesAreInPlace == Spec => []EchoedOnceInPlace
<1>1. IInv => EchoedOnceInPlace
  BY DEF IInv, LogInv, AckInv, EchoedOnceInPlace
<1> QED
  BY <1>1, Invariant, PTL

\* signald_replycache_check (reply.c:41) finds the newest message that matches,
\* whatever the capacity is and has been.
THEOREM NewestIsRepliedTo == Spec => []RepliesToNewest
<1>1. IInv => RepliesToNewest
  BY DEF IInv
<1> QED
  BY <1>1, Invariant, PTL

\* The table of receipt.c (lines 10 to 31) drops no receipt before one attempt to write
\* it, and none is written twice or after a failed attempt: what is neither waiting nor
\* written was lost by a write that failed.
THEOREM ReceiptsGoOut == Spec => []ReceiptsAccounted
<1>1. IInv => ReceiptsAccounted
  BY DEF IInv, ReceiptsInv
<1> QED
  BY <1>1, Invariant, PTL

-----------------------------------------------------------------------------
(* The outbox.                                                             *)

\* A line is added for each own message that is shown; the lines there are stay.
LEMMA OwnLinesGrow ==
  ASSUME log \in Seq(Shown), NEW e, Shows(e)
  PROVE  /\ Len(log') = Len(log) + 1
         /\ IsOwn(e.id) => OwnLines' = OwnLines \union
              {[line |-> Len(log) + 1, id |-> e.id, conv |-> e.conv, echo |-> e.quotable]}
         /\ ~IsOwn(e.id) => OwnLines' = OwnLines
<1> DEFINE Line(s, i) == [line |-> Len(s) + 1 - i, id |-> s[i].id, conv |-> s[i].conv, echo |-> s[i].quotable]
           new == [line |-> Len(log) + 1, id |-> e.id, conv |-> e.conv, echo |-> e.quotable]
<1>0. /\ Len(log) \in Nat /\ Len(log') = Len(log) + 1 /\ log'[1] = e
      /\ \A i \in 1..Len(log) : i + 1 \in 1..Len(log') /\ log'[i + 1] = log[i]
      /\ \A i \in 1..Len(log') : i = 1 \/ (i - 1 \in 1..Len(log) /\ log'[i] = log[i - 1])
      /\ 1 \in 1..Len(log')
  BY LogGrows
<1>1. Line(log', 1) = new
  BY <1>0
<1>2. \A i \in 1..Len(log) : Line(log', i + 1) = Line(log, i)
  BY <1>0
<1>3. \A i \in 1..Len(log') : i = 1 \/ Line(log', i) = Line(log, i - 1)
  BY <1>0
<1>4. /\ OwnLines = {Line(log, i) : i \in {j \in 1..Len(log) : IsOwn(log[j].id)}}
      /\ OwnLines' = {Line(log', i) : i \in {j \in 1..Len(log') : IsOwn(log'[j].id)}}
  BY DEF OwnLines, IsOwn
<1> HIDE DEF Line, new
<1>5. OwnLines \subseteq OwnLines'
  <2> SUFFICES ASSUME NEW i \in 1..Len(log), IsOwn(log[i].id) PROVE Line(log, i) \in OwnLines'
    BY <1>4
  <2>1. i + 1 \in 1..Len(log') /\ IsOwn(log'[i + 1].id)
    BY <1>0
  <2> QED
    BY <1>2, <1>4, <2>1
<1>6. IsOwn(e.id) => new \in OwnLines'
  BY <1>0, <1>1, <1>4
<1>7. \A x \in OwnLines' : x \in OwnLines \/ (IsOwn(e.id) /\ x = new)
  <2> SUFFICES ASSUME NEW i \in 1..Len(log'), IsOwn(log'[i].id), ~(IsOwn(e.id) /\ Line(log', i) = new)
               PROVE  Line(log', i) \in OwnLines
    BY <1>4
  <2>1. i # 1
    BY <1>0, <1>1
  <2>2. i - 1 \in 1..Len(log) /\ IsOwn(log[i - 1].id)
    BY <1>0, <2>1
  <2> QED
    BY <1>3, <1>4, <2>1, <2>2
<1>8. /\ IsOwn(e.id) => OwnLines' = OwnLines \union {new}
      /\ ~IsOwn(e.id) => OwnLines' = OwnLines
  BY <1>5, <1>6, <1>7
<1> QED
  BY <1>0, <1>8 DEF new

\* What is not in the log is not among its lines, and an echo is one of Echoed.
LEMMA LinesOfLog ==
  /\ \A x \in OwnLines : x.id \in ShownIds
  /\ \A x \in OwnLines : x.echo => x.id \in Echoed
BY DEF OwnLines, ShownIds, Echoed

\* The message in the slot was sent after all those that were echoed.
EchoOrder == last_message # 0 => \A m \in Echoed : m < last_message

LEMMA EchoedStays ==
  ASSUME log' = log
  PROVE  Echoed' = Echoed /\ OwnLines' = OwnLines
BY DEF Echoed, OwnLines, IsOwn

\* What was sent is shown by the step that sends it, but not as an echo.
LEMMA SendShows ==
  ASSUME IInv, NEW c \in Convs, NEW matching, NEW wait \in WaitOptions, NEW result \in Results, SendMessage(c, matching, wait, result)
  PROVE  LET e == [conv |-> c, id |-> sent', quotable |-> FALSE]
         IN /\ sent' = sent + 1 /\ sent \in Nat /\ sent' \in 1..MaxSent /\ log \in Seq(Shown)
            /\ log' = log \/ Shows(e)
            /\ Echoed' = Echoed /\ IsOwn(sent') /\ sent' \notin ShownIds
            /\ \A m \in Echoed : m \in Nat /\ m < sent'
<1> DEFINE e == [conv |-> c, id |-> sent', quotable |-> FALSE]
<1>1. /\ Typing /\ log \in Seq(Shown) /\ sent \in Nat /\ MaxSent \in Nat
      /\ sent' = sent + 1 /\ sent' \in 1..MaxSent
  <2>1. Typing
    BY DEF IInv
  <2>2. sent' = sent + 1 /\ sent < MaxSent
    BY DEF SendMessage
  <2> QED
    BY <2>1, <2>2, NumbersTyping, BoundsAssumption DEF Typing, TypeOK
<1>2. e \in Shown /\ e.id = sent' /\ ~e.quotable
  BY <1>1, NumbersTyping
<1> HIDE DEF e
<1>3. log' = log \/ Shows(e)
  BY <1>2 DEF SendMessage, Shows, e
<1>4. Echoed' = Echoed
  BY <1>1, <1>2, <1>3, SetsGrow, EchoedStays
<1>5. \A m \in ShownIds : IsOwn(m) => m \in Nat /\ m < sent'
  BY <1>1 DEF IInv, LogInv, Past, IsOwn
<1>6. IsOwn(sent') /\ sent' \notin ShownIds
  BY <1>1, <1>5 DEF IsOwn
<1>7. \A m \in Echoed : m \in ShownIds /\ IsOwn(m)
  BY DEF Echoed, ShownIds
<1> QED
  BY <1>1, <1>3, <1>4, <1>5, <1>6, <1>7 DEF e

\* What an acknowledgement shows is the message in the slot.
LEMMA AcknowledgedShows ==
  ASSUME IInv, OnSend
  PROVE  LET e == [conv |-> last_conversation, id |-> last_message, quotable |-> TRUE]
         IN /\ log \in Seq(Shown) /\ Head(inbox).id \in (1..sent) \ acked
            /\ UNCHANGED <<sent, sentTo>>
            /\ ~Head(inbox).delivered => log' = log /\ UNCHANGED <<acked, last_message>>
            /\ Head(inbox).delivered => acked' = acked \union {Head(inbox).id}
            /\ \/ UNCHANGED <<log, last_message>>
               \/ /\ Shows(e) /\ last_message' = 0 /\ last_message \in 1..sent /\ IsOwn(last_message)
                  /\ last_message \notin ShownIds /\ last_conversation = sentTo[last_message]
<1> DEFINE e == [conv |-> last_conversation, id |-> last_message, quotable |-> TRUE]
<1>0. /\ Typing /\ log \in Seq(Shown) /\ sent \in Nat /\ MaxSent \in Nat /\ sent \in 0..MaxSent
      /\ inbox # <<>> /\ Head(inbox).type = "send" /\ UNCHANGED <<sent, sentTo>>
  <2>1. Typing
    BY DEF IInv
  <2> QED
    BY <2>1, NumbersTyping, BoundsAssumption DEF Typing, TypeOK, OnSend, Handle, daemonVars
<1>1. Head(inbox).id \in (1..sent) \ acked
  <2>1. 1 \in 1..Len(inbox) /\ Head(inbox) = inbox[1]
    BY <1>0, EmptySeq DEF Typing
  <2> QED
    BY <1>0, <2>1 DEF IInv, InboxInv
<1>2. CASE ~Echoes(Head(inbox).delivered)
  BY <1>0, <1>1, <1>2 DEF OnSend, cacheVars
<1>3. CASE Echoes(Head(inbox).delivered)
  <2>1. Show(last_conversation, last_message, TRUE) /\ last_message' = 0 /\ Head(inbox).delivered
    BY <1>3 DEF OnSend, Echo, Echoes
  <2>2. /\ last_conversation \in Convs /\ last_message \in Numbers /\ last_message \in 1..sent
        /\ last_message \notin ShownIds /\ last_conversation = sentTo[last_message]
    BY <1>0, <1>3, NumbersTyping DEF IInv, SlotInv, Echoes, Typing, TypeOK
  <2>5. e \in Shown
    BY <1>0, <2>2, NumbersTyping
  <2>6. log' = <<e>> \o log
    BY <2>1 DEF Show
  <2>3. Shows(e) /\ IsOwn(last_message)
    BY <1>0, <2>2, <2>5, <2>6 DEF Shows, IsOwn
  <2>4. acked' = acked \union {Head(inbox).id}
    BY <2>1 DEF OnSend
  <2> QED
    BY <1>0, <1>1, <2>1, <2>2, <2>3, <2>4
<1> QED
  BY <1>2, <1>3

\* What is received is shown, and not an own message.
LEMMA ReceivedShows ==
  ASSUME IInv, OnIncoming
  PROVE  /\ log \in Seq(Shown) /\ UNCHANGED <<sent, sentTo, acked, last_message>>
         /\ \E e \in Shown : Shows(e) /\ ~IsOwn(e.id)
<1>0. /\ Typing /\ log \in Seq(Shown) /\ received \in Nat /\ MaxSent \in Nat
      /\ inbox # <<>> /\ Head(inbox).type = "IncomingMessage"
      /\ UNCHANGED <<sent, sentTo, acked, last_message>>
  <2>1. Typing
    BY DEF IInv
  <2> QED
    BY <2>1, NumbersTyping, BoundsAssumption DEF Typing, TypeOK, OnIncoming, Handle, daemonVars, sendVars
<1>1. 1 \in 1..Len(inbox) /\ Head(inbox) = inbox[1] /\ inbox \in Seq(Items)
  BY <1>0, EmptySeq DEF Typing
<1>2. Head(inbox).id \in (MaxSent + 1)..(MaxSent + received)
  BY <1>0, <1>1 DEF IInv, InboxInv
<1>3. \E k \in Numbers, d \in Convs : Head(inbox) = Incoming(k, d)
  BY <1>0, <1>1, InboxTyping DEF Acknowledgement, Incoming, Unsubscribed
<1>4. PICK body \in BOOLEAN : Show(Head(inbox).conv, Head(inbox).id, body)
  BY DEF OnIncoming
<1> DEFINE e == [conv |-> Head(inbox).conv, id |-> Head(inbox).id, quotable |-> body]
<1>5. e \in Shown /\ e.id = Head(inbox).id
  BY <1>0, <1>3, NumbersTyping DEF Incoming
<1>6. Shows(e) /\ ~IsOwn(e.id)
  BY <1>0, <1>2, <1>4, <1>5 DEF Shows, Show, IsOwn
<1> QED
  BY <1>0, <1>5, <1>6

\* All other steps neither show nor send, and know of no acknowledgement.
LEMMA OthersShowNothing ==
  ASSUME [Next]_vars, ~User, ~OnSend, ~OnIncoming
  PROVE  UNCHANGED <<log, sent, sentTo, acked, last_message>>
BY DEF Next, Signald, OnNothing, ReceiptsTimer, Close, CloseRead, CloseEnd, AnswerSend, Forward, Write,
       AnswerUnsubscribe, Hangup, Terminated, vars, sendVars, cacheVars, daemonVars

LEMMA EchoOrderStep ==
  ASSUME IInv, EchoOrder, [Next]_vars
  PROVE  EchoOrder'
<1>1. CASE User
  <2>1. PICK c \in Convs, matching \in SUBSET Quotable, wait \in WaitOptions, result \in Results :
          SendMessage(c, matching, wait, result)
    BY <1>1 DEF User
  <2>2. Echoed' = Echoed /\ \A m \in Echoed : m < sent'
    BY <2>1, SendShows
  <2>3. last_message' \in {last_message, sent'}
    BY <2>1 DEF SendMessage, Remember
  <2> QED
    BY <2>2, <2>3 DEF EchoOrder
<1>2. CASE OnSend
  <2>1. UNCHANGED <<log, last_message>> \/ last_message' = 0
    BY <1>2, AcknowledgedShows
  <2> QED
    BY <2>1, EchoedStays DEF EchoOrder
<1>3. CASE OnIncoming
  <2>1. Echoed' = Echoed /\ last_message' = last_message
    BY <1>3, ReceivedShows, SetsGrow
  <2> QED
    BY <2>1 DEF EchoOrder
<1>4. CASE ~User /\ ~OnSend /\ ~OnIncoming
  BY <1>4, OthersShowNothing, EchoedStays DEF EchoOrder
<1> QED
  BY <1>1, <1>2, <1>3, <1>4

\* Every step is a step of the outbox, or one it does not see.
LEMMA OutboxStep ==
  ASSUME IInv, EchoOrder, [Next]_vars
  PROVE  [Sending!Next]_(Sending!vars)
<1>0. sent \in Nat /\ Typing
  <2>1. Typing
    BY DEF IInv
  <2> QED
    BY <2>1, NumbersTyping
<1>1. DOMAIN SentSoFar = 1..sent /\ Len(SentSoFar) = sent
      /\ \A m \in 1..sent : SentSoFar[m] = sentTo[m]
  BY <1>0 DEF SentSoFar
<1>2. CASE User
  <2>1. PICK c \in Convs, matching \in SUBSET Quotable, wait \in WaitOptions, result \in Results :
          SendMessage(c, matching, wait, result)
    BY <1>2 DEF User
  <2> DEFINE e == [conv |-> c, id |-> sent', quotable |-> FALSE]
  <2>2. /\ sent' = sent + 1 /\ sent' \in 1..MaxSent /\ log \in Seq(Shown)
        /\ log' = log \/ Shows(e)
        /\ IsOwn(sent') /\ sent' \notin ShownIds
    BY <2>1, SendShows
  <2> HIDE DEF e
  <2>3. SentSoFar' = Append(SentSoFar, c)
    <3>1. sentTo \in [1..MaxSent -> Convs \union {NoConv}] /\ sentTo' = [sentTo EXCEPT ![sent'] = c]
      BY <1>0, <2>1 DEF Typing, TypeOK, SendMessage
    <3>2. \A m \in 1..(sent + 1) : m \in 1..MaxSent
      BY <1>0, <2>2, BoundsAssumption
    <3>3. \A m \in 1..(sent + 1) : sentTo'[m] = IF m = sent + 1 THEN c ELSE sentTo[m]
      BY <2>2, <3>1, <3>2
    <3>4. SentSoFar \in Seq(Convs \union {NoConv}) /\ SentSoFar' \in Seq(Convs \union {NoConv})
      BY <1>0, <2>2, <3>1, <3>2, <3>3 DEF SentSoFar
    <3>5. Len(SentSoFar') = sent + 1 /\ \A m \in 1..(sent + 1) : SentSoFar'[m] = IF m = sent + 1 THEN c ELSE SentSoFar[m]
      BY <1>0, <1>1, <2>2, <3>3 DEF SentSoFar
    <3>6. /\ Append(SentSoFar, c) \in Seq(Convs \union {NoConv})
          /\ Len(Append(SentSoFar, c)) = sent + 1
          /\ \A m \in 1..(sent + 1) : Append(SentSoFar, c)[m] = IF m = sent + 1 THEN c ELSE SentSoFar[m]
      BY <1>0, <1>1, <3>4, AppendProperties
    <3> QED
      BY <3>4, <3>5, <3>6, SeqEqual
  <2>4. acked' = acked
    BY <2>1 DEF SendMessage
  <2>5. CASE log' = log
    <3>1. Len(log') = Len(log) /\ OwnLines' = OwnLines
      BY <2>5, EchoedStays
    <3>2. Sending!Send(c)
      BY <2>3, <2>4, <3>1 DEF Sending!Send
    <3> QED
      BY <3>2 DEF Sending!Next
  <2>6. CASE Shows(e)
    <3>1. e.id = sent' /\ e.conv = c /\ e.quotable = FALSE
      BY DEF e
    <3>2. /\ Len(log') = Len(log) + 1
          /\ OwnLines' = OwnLines \union {[line |-> Len(log) + 1, id |-> sent', conv |-> c, echo |-> FALSE]}
      BY <2>2, <2>6, <3>1, OwnLinesGrow
    <3>3. \A s \in OwnLines : s.id # sent'
      BY <2>2, LinesOfLog
    <3>4. Sending!Show(Len(SentSoFar) + 1, c, FALSE)
      BY <1>1, <2>2, <3>2, <3>3 DEF Sending!Show
    <3>5. Sending!Send(c)
      BY <2>3, <2>4, <3>4 DEF Sending!Send
    <3> QED
      BY <3>5 DEF Sending!Next
  <2> QED
    BY <2>2, <2>5, <2>6
<1>3. CASE OnSend
  <2> DEFINE id == Head(inbox).id
             e == [conv |-> last_conversation, id |-> last_message, quotable |-> TRUE]
  <2>1. /\ log \in Seq(Shown) /\ id \in (1..sent) \ acked /\ UNCHANGED <<sent, sentTo>>
        /\ ~Head(inbox).delivered => log' = log /\ acked' = acked
        /\ Head(inbox).delivered => acked' = acked \union {id}
        /\ \/ log' = log
           \/ /\ Shows(e) /\ last_message \in 1..sent /\ IsOwn(last_message)
              /\ last_message \notin ShownIds /\ last_conversation = sentTo[last_message]
    BY <1>3, AcknowledgedShows
  <2> HIDE DEF id
  <2>2. SentSoFar' = SentSoFar
    BY <2>1 DEF SentSoFar
  <2>3. CASE ~Head(inbox).delivered
    BY <2>1, <2>2, <2>3, EchoedStays DEF Sending!vars
  <2>4. CASE Head(inbox).delivered /\ log' = log
    <3>1. Len(log') = Len(log) /\ OwnLines' = OwnLines
      BY <2>4, EchoedStays
    <3>2. Sending!Acknowledge(id)
      BY <2>1, <2>2, <2>4, <3>1 DEF Sending!Acknowledge
    <3> QED
      BY <1>1, <2>1, <3>2 DEF Sending!Next
  <2>5. CASE /\ Head(inbox).delivered
             /\ Shows(e) /\ last_message \in 1..sent /\ IsOwn(last_message)
             /\ last_message \notin ShownIds /\ last_conversation = sentTo[last_message]
    <3>1. e.id = last_message /\ e.conv = SentSoFar[last_message] /\ e.quotable = TRUE
      BY <1>1, <2>5
    <3> HIDE DEF e
    <3>2. /\ Len(log') = Len(log) + 1
          /\ OwnLines' = OwnLines \union {[line |-> Len(log) + 1, id |-> last_message,
                                           conv |-> SentSoFar[last_message], echo |-> TRUE]}
      BY <2>1, <2>5, <3>1, OwnLinesGrow
    <3>3. \A s \in OwnLines : s.id # last_message
      BY <2>5, LinesOfLog
    <3>4. \A s \in OwnLines : s.echo => s.id < last_message
      BY <2>5, LinesOfLog DEF EchoOrder
    <3>5. Sending!Echo(last_message)
      BY <3>2, <3>3, <3>4 DEF Sending!Echo, Sending!Show
    <3>6. Sending!Acknowledge(id)
      BY <1>1, <2>1, <2>2, <2>5, <3>5 DEF Sending!Acknowledge
    <3> QED
      BY <1>1, <2>1, <3>6 DEF Sending!Next
  <2> QED
    BY <2>1, <2>3, <2>4, <2>5
<1>4. CASE OnIncoming
  <2>1. PICK e \in Shown : Shows(e) /\ ~IsOwn(e.id)
    BY <1>4, ReceivedShows
  <2>2. log \in Seq(Shown) /\ UNCHANGED <<sent, sentTo, acked>>
    BY <1>4, ReceivedShows
  <2>3. Len(log') = Len(log) + 1 /\ OwnLines' = OwnLines
    BY <2>1, <2>2, OwnLinesGrow
  <2>4. SentSoFar' = SentSoFar
    BY <2>2 DEF SentSoFar
  <2> QED
    BY <2>2, <2>3, <2>4 DEF Sending!Next, Sending!ShowOther
<1>5. CASE ~User /\ ~OnSend /\ ~OnIncoming
  <2>1. UNCHANGED <<log, sent, sentTo, acked>>
    BY <1>5, OthersShowNothing
  <2>2. SentSoFar' = SentSoFar
    BY <2>1 DEF SentSoFar
  <2> QED
    BY <2>1, <2>2, EchoedStays DEF Sending!vars
<1> QED
  BY <1>2, <1>3, <1>4, <1>5

\* signald_send_message and signald_send_acknowledged (message.c) implement the
\* outbox, for any number of messages and order of acknowledgements: an echo never
\* without a further acknowledgement, and never out of the order of sending.
THEOREM OutboxImplemented == Spec => SentLikeOutbox
<1>1. Init => Sending!Init /\ EchoOrder
  <2> SUFFICES ASSUME Init PROVE Sending!Init /\ EchoOrder
    OBVIOUS
  <2>1. Len(log) = 0 /\ sent = 0 /\ acked = {} /\ last_message = 0
    BY EmptySeq DEF Init
  <2>2. SentSoFar = <<>> /\ OwnLines = {}
    BY <2>1 DEF SentSoFar, OwnLines
  <2> QED
    BY <2>1, <2>2 DEF Sending!Init, EchoOrder
<1>2. IInv /\ EchoOrder /\ [Next]_vars => EchoOrder'
  BY EchoOrderStep
<1>3. IInv /\ EchoOrder /\ [Next]_vars => [Sending!Next]_(Sending!vars)
  BY OutboxStep
<1> QED
  BY <1>1, <1>2, <1>3, Invariant, PTL DEF Spec, SentLikeOutbox, Sending!Spec
=============================================================================
