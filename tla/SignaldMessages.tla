---------------------------- MODULE SignaldMessages ----------------------------
(***************************************************************************)
(* Messages of a connected account: sending, its acknowledgement and the   *)
(* delayed echo (src/src/message.c), the cache of messages that can be     *)
(* replied to (reply.c) and the table of read receipts (receipt.c), from   *)
(* the end of the login to the last read of signald_close (login.c).       *)
(*                                                                         *)
(* A message is known by its number, its text is not modelled.  Messages   *)
(* sent are numbered from 1, messages received from MaxSent + 1.           *)
(***************************************************************************)
EXTENDS Naturals, Sequences, FiniteSets

CONSTANTS Contacts,      \* each with a conversation of its own
          Groups,        \* group conversations; all contacts are members
          Self, NoConv,  \* the account itself; no conversation
          WaitOptions,   \* values of the account option "wait-send-acknowledgement"
          Capacities,    \* values of the account option "reply-cache-capacity"
          MaxSent,       \* bound: messages sent
          MaxReceived,   \* bound: messages received
          MaxMessages,   \* bound: messages sent and received together
          MaxInbox       \* bound: messages signald writes ahead of the plugin

Convs == Contacts \union Groups
People == Contacts \union {Self}

ASSUME NamesAssumption ==
  Contacts \intersect Groups = {} /\ NoConv \notin Convs /\ Self \notin Convs
ASSUME OptionsAssumption == WaitOptions \subseteq BOOLEAN /\ Capacities \subseteq Nat
ASSUME BoundsAssumption ==
  MaxSent \in Nat /\ MaxReceived \in Nat /\ MaxMessages \in Nat /\ MaxInbox \in Nat

VARIABLES
  \* The plugin.
  last_message,       \* the message waiting for its acknowledgement, or 0
  last_conversation,  \* the conversation it is relevant to
  replycache,         \* numbers of the cached messages, the newest first
  outgoing_receipts,  \* for each person the messages to be marked as read
  phase,              \* "live"; in signald_close "blocked" in recv, "reading"; "closed"
  \* signald and the socket.
  sent, received,     \* used up of MaxSent and MaxReceived
  asked,              \* sent messages signald has not answered yet
  inbox,              \* messages not read yet
  hungup,             \* has signald closed the socket?
  \* History.
  sentTo,             \* the conversation each message was sent to
  log,                \* messages shown by the plugin, the newest first
  acked,              \* the messages acknowledged as delivered
  noted, marked,      \* receipts noted, receipts written to signald
  lost,               \* receipts that could not be written
  skipped,            \* a reply was made although a newer message matched
  misused             \* the receipts table or the reply cache was used after its release

sendVars == <<last_message, last_conversation, sentTo>>
cacheVars == <<replycache, log>>
receiptVars == <<outgoing_receipts, noted, marked, lost>>
daemonVars == <<sent, received, asked, hungup>>
vars == <<sendVars, cacheVars, receiptVars, phase, daemonVars, inbox, acked,
          skipped, misused>>

Numbers == 1..(MaxSent + MaxReceived)
Shown == [conv : Convs, id : Numbers, quotable : BOOLEAN]

Acknowledgement(m, d) == [type |-> "send", id |-> m, delivered |-> d]
Incoming(m, c) == [type |-> "IncomingMessage", id |-> m, conv |-> c]
Unsubscribed == [type |-> "unsubscribe"]

TypeOK ==
  /\ last_message \in 0..sent /\ last_conversation \in Convs \union {NoConv}
  /\ last_message # 0 => last_conversation # NoConv
  /\ replycache \in Seq(Numbers)
  /\ outgoing_receipts \in [People -> SUBSET Numbers]
  /\ phase \in {"live", "blocked", "reading", "closed"}
  /\ sent \in 0..MaxSent /\ received \in 0..MaxReceived
  /\ asked \subseteq 1..sent
  /\ \A i \in 1..Len(inbox) :
       \/ inbox[i] \in {Acknowledgement(m, d) : m \in 1..sent, d \in BOOLEAN}
       \/ inbox[i] \in {Incoming(m, c) : m \in Numbers, c \in Convs}
       \/ inbox[i] = Unsubscribed /\ phase # "live"
  /\ hungup \in BOOLEAN
  /\ sentTo \in [1..MaxSent -> Convs \union {NoConv}]
  /\ log \in Seq(Shown)
  /\ acked \subseteq 1..sent
  /\ noted \subseteq People \X Numbers /\ marked \subseteq noted /\ lost \subseteq noted
  /\ skipped \in BOOLEAN /\ misused \in BOOLEAN

Init ==
  /\ last_message = 0 /\ last_conversation = NoConv /\ replycache = <<>>
  /\ outgoing_receipts = [p \in People |-> {}]
  /\ phase = "live"
  /\ sent = 0 /\ received = 0 /\ asked = {} /\ inbox = <<>> /\ hungup = FALSE
  /\ sentTo = [m \in 1..MaxSent |-> NoConv]
  /\ log = <<>> /\ acked = {} /\ noted = {} /\ marked = {} /\ lost = {}
  /\ skipped = FALSE /\ misused = FALSE

-----------------------------------------------------------------------------
(* The reply cache.  Its capacity is an option of the account and read each  *)
(* time a message is added: the user may change it in between.               *)

Newest(s, n) == IF Len(s) > n THEN SubSeq(s, 1, n) ELSE s

\* A mutant of Cached: the newest message is dropped instead of the oldest.
CachedDropsNewest(m, capacity) ==
  LET s == IF capacity > 0 THEN <<m>> \o replycache ELSE replycache
  IN IF Len(s) > capacity THEN SubSeq(s, Len(s) - capacity + 1, Len(s)) ELSE s

\* A mutant of Cached: the new message is put behind the others.
CachedAtTail(m, capacity) ==
  Newest(IF capacity > 0 THEN Append(replycache, m) ELSE replycache, capacity)

\* signald_replycache_add_message: the cache with message m added to it.
Cached(m, capacity) ==
  Newest(IF capacity > 0 THEN <<m>> \o replycache ELSE replycache, capacity)

\* In signald_close, the table and the cache have been released.
Released == phase # "live"

\* Message m is written to conversation c; it is cached if it has a body.
Show(c, m, body) ==
  /\ log' = <<[conv |-> c, id |-> m, quotable |-> body]>> \o log
  /\ IF body /\ ~Released
     THEN \E capacity \in Capacities : replycache' = Cached(m, capacity)
     ELSE UNCHANGED replycache

\* signald_replycache_check: the index of the newest cached message among those
\* that contain the needle, 0 if there is none.  The needle is copied without a
\* terminator: one that is empty or fills its block to the last byte is not
\* followed.
CheckCache(matching) ==
  LET found == {i \in 1..Len(replycache) : replycache[i] \in matching}
  IN IF found = {} THEN 0 ELSE CHOOSE i \in found : \A j \in found : i <= j

\* The messages shown after message m.
NewerThan(m) == {log[i].id : i \in {j \in 1..Len(log) : \A k \in 1..j : log[k].id # m}}

-----------------------------------------------------------------------------
(* The user.                                                               *)

\* A mutant of Remember: the conversation is looked up among those with contacts
\* only.
RememberContacts(c, m) ==
  /\ last_message' = m
  /\ last_conversation' = IF c \in Contacts THEN c ELSE NoConv

\* A mutant of Remember: the conversation of an earlier message is kept.
RememberKeeps(c, m) ==
  /\ last_message' = m
  /\ last_conversation' = IF last_conversation = NoConv THEN c ELSE last_conversation

\* The message is kept for its echo, and the conversation with it.  A message
\* that was waiting is forgotten.
Remember(c, m) ==
  /\ last_message' = m
  /\ last_conversation' = c

\* signald_send_json, the socket being open or not: a write that is cut short may leave
\* errno as it was, 0 say.  (A line that follows one cut short cannot be read by
\* signald, which then does not answer it.)
Results == {"written", "failed", "cut short"}
Writable(result) == hungup => result = "failed"

\* signald_send_message returns 0: the message is shown when it is acknowledged.
EchoedLater(wait, result) == (wait /\ result = "written") \/ result = "cut short"

\* signald_send_message, for a text that starts with "@needle:" if some of the
\* messages shown are to match.  The option is read for each message: unless it is
\* set, the client or signald_send_chat shows the message at once.  If the write
\* fails with an errno, the user is told.
SendMessage(c, matching, wait, result) ==
  LET quote == CheckCache(matching)
      newer == NewerThan(replycache[quote])
  IN /\ phase = "live" /\ sent < MaxSent /\ sent + received < MaxMessages
     /\ Writable(result)
     /\ sent' = sent + 1
     /\ sentTo' = [sentTo EXCEPT ![sent'] = c]
     /\ skipped' = (skipped \/ (quote # 0 /\ newer \intersect matching # {}))
     /\ asked' = IF result = "written" THEN asked \union {sent'} ELSE asked
     /\ IF EchoedLater(wait, result)
        THEN Remember(c, sent')
        ELSE UNCHANGED <<last_message, last_conversation>>
     /\ log' = IF wait \/ result # "written" THEN log
               ELSE <<[conv |-> c, id |-> sent', quotable |-> FALSE]>> \o log
     /\ UNCHANGED <<replycache, receiptVars, phase, received, hungup, inbox,
                    acked, misused>>

Quotable == {log[i].id : i \in {j \in 1..Len(log) : log[j].quotable}}

User ==
  \E c \in Convs, matching \in SUBSET Quotable, wait \in WaitOptions, result \in Results :
    SendMessage(c, matching, wait, result)

-----------------------------------------------------------------------------
(* Messages from signald, while the account is live and in the last read.  *)

Handle(type) ==
  /\ phase \in {"live", "reading"} /\ inbox # <<>>
  /\ Head(inbox).type = type
  /\ inbox' = Tail(inbox)

\* A mutant of Echoes: the result is not looked at.
EchoesUndelivered(delivered) == last_conversation # NoConv /\ last_message # 0

\* Is there a message that waits for this acknowledgement?
Echoes(delivered) == last_conversation # NoConv /\ last_message # 0 /\ delivered

\* A mutant of Echo: the message is not forgotten when it is shown.
EchoKeepsMessage ==
  /\ Show(last_conversation, last_message, TRUE)
  /\ UNCHANGED last_message

\* The message last sent is shown, whichever message was acknowledged.
Echo ==
  /\ Show(last_conversation, last_message, TRUE)
  /\ last_message' = 0

\* signald_send_acknowledged.  That a message reached no device, or not all who it
\* was for, is only told to the user.
OnSend ==
  /\ Handle("send")
  /\ acked' = IF Head(inbox).delivered THEN acked \union {Head(inbox).id} ELSE acked
  /\ IF Echoes(Head(inbox).delivered)
     THEN Echo /\ misused' = (misused \/ Released)
     ELSE UNCHANGED <<last_message, cacheVars, misused>>
  /\ UNCHANGED <<last_conversation, sentTo, receiptVars, phase, daemonVars, skipped>>

\* Those who are told that a message shown in c was read: the contact, also if
\* the message was sent by another device of the account, or all the
\* participants of a group.
Readers(c) == IF c \in Contacts THEN {c} ELSE People

\* A mutant of MarkRead: a new list replaces the one in the table.
MarkReadReplaces(readers, m) ==
  outgoing_receipts' =
    [p \in People |-> IF p \in readers THEN {m} ELSE outgoing_receipts[p]]

\* signald_mark_read and signald_mark_read_chat.
MarkRead(readers, m) ==
  outgoing_receipts' =
    [p \in People |-> outgoing_receipts[p] \union IF p \in readers THEN {m} ELSE {}]

\* signald_process_message and signald_display_message.  Receipts are noted if
\* the option is set and the status is "online".
OnIncoming ==
  /\ Handle("IncomingMessage")
  /\ LET m == Head(inbox).id  c == Head(inbox).conv
     IN \E body \in BOOLEAN, readers \in {{}, Readers(c)} :
          /\ Show(c, m, body)
          /\ IF Released THEN UNCHANGED outgoing_receipts ELSE MarkRead(readers, m)
          /\ noted' = noted \union (readers \X {m})
          /\ misused' = (misused \/ (Released /\ (body \/ readers # {})))
  /\ UNCHANGED <<sendVars, marked, lost, phase, daemonVars, acked, skipped>>

\* Answers and messages without effect: the acknowledgement of unsubscribe, and
\* what signald_process_message finds nothing to display in.
OnNothing ==
  /\ Handle("unsubscribe") \/ Handle("IncomingMessage")
  /\ UNCHANGED <<sendVars, cacheVars, receiptVars, phase, daemonVars, acked, skipped,
                 misused>>

-----------------------------------------------------------------------------
(* The timer of receipt.c, and signald_close.                              *)

\* A mutant of SendReceipts: the table is not emptied.
SendReceiptsAgain == UNCHANGED outgoing_receipts

\* Every entry of the table is written and removed, be it written or not.
SendReceipts == outgoing_receipts' = [p \in People |-> {}]

\* The receipts that wait in the table.
Waiting == {r \in noted : r[2] \in outgoing_receipts[r[1]]}

\* signald_send_receipts: one request for each person in the table.  Any of the
\* writes may fail, also while the connection lasts; that is only logged.
ReceiptsTimer ==
  /\ phase = "live" /\ Waiting # {}
  /\ SendReceipts
  /\ \E failing \in SUBSET {r[1] : r \in Waiting} :
       /\ hungup => failing = {r[1] : r \in Waiting}
       /\ lost' = lost \union {r \in Waiting : r[1] \in failing}
       /\ marked' = marked \union {r \in Waiting : r[1] \notin failing}
  /\ UNCHANGED <<sendVars, cacheVars, noted, phase, daemonVars, inbox, acked,
                 skipped, misused>>

\* The table and the cache are released first.  A connected account is
\* unsubscribed and reads a last time.
Close ==
  /\ phase = "live"
  /\ outgoing_receipts' = [p \in People |-> {}] /\ replycache' = <<>>
  /\ \/ phase' = "blocked" /\ ~hungup
     \/ phase' = "closed"
  /\ UNCHANGED <<sendVars, log, noted, marked, lost, daemonVars, inbox, acked,
                 skipped, misused>>

CloseRead ==
  /\ phase = "blocked" /\ (inbox # <<>> \/ hungup)
  /\ phase' = "reading"
  /\ UNCHANGED <<sendVars, cacheVars, receiptVars, daemonVars, inbox, acked, skipped,
                 misused>>

CloseEnd ==
  /\ phase = "reading"
  /\ phase' = "closed"
  /\ UNCHANGED <<sendVars, cacheVars, receiptVars, daemonVars, inbox, acked, skipped,
                 misused>>

Terminated == phase = "closed" /\ UNCHANGED vars

-----------------------------------------------------------------------------
(* signald.                                                                *)

Write(m) ==
  /\ ~hungup /\ phase # "closed" /\ Len(inbox) < MaxInbox
  /\ inbox' = Append(inbox, m)
  /\ UNCHANGED <<sendVars, cacheVars, receiptVars, phase, sent, hungup, acked, skipped,
                 misused>>

\* Messages are acknowledged in any order.  An error instead of an answer makes
\* the account disconnect and changes nothing else (SignaldSession!OnError).
AnswerSend(m) ==
  /\ m \in asked /\ asked' = asked \ {m}
  /\ \E delivered \in BOOLEAN : Write(Acknowledgement(m, delivered))
  /\ UNCHANGED received

Forward(c) ==
  /\ received < MaxReceived /\ sent + received < MaxMessages
  /\ received' = received + 1
  /\ Write(Incoming(MaxSent + received', c))
  /\ UNCHANGED asked

AnswerUnsubscribe ==
  /\ phase = "blocked" /\ Write(Unsubscribed)
  /\ UNCHANGED <<received, asked>>

Hangup ==
  /\ ~hungup /\ phase # "closed"
  /\ hungup' = TRUE
  /\ UNCHANGED <<sendVars, cacheVars, receiptVars, phase, sent, received, asked, inbox,
                 acked, skipped, misused>>

Signald ==
  \/ \E m \in 1..MaxSent : AnswerSend(m)
  \/ \E c \in Convs : Forward(c)
  \/ AnswerUnsubscribe
  \/ Hangup

-----------------------------------------------------------------------------
Next ==
  \/ User
  \/ OnSend \/ OnIncoming \/ OnNothing
  \/ ReceiptsTimer
  \/ Close \/ CloseRead \/ CloseEnd
  \/ Signald
  \/ Terminated

Spec == Init /\ [][Next]_vars

-----------------------------------------------------------------------------
(* Properties.                                                             *)

IsOwn(m) == m <= MaxSent

\* The messages of the user that were shown by Echo.
Echoed == {log[i].id : i \in {j \in 1..Len(log) : IsOwn(log[j].id) /\ log[j].quotable}}

\* A message that was sent is shown at most once, and only in the conversation
\* it was sent to, though acknowledgements come in any order, repeat the slot's
\* use and do not say which message they are for.  Of those that wait for it, none
\* is shown before signald has acknowledged at least as many.
EchoedOnceInPlace ==
  /\ \A i \in 1..Len(log) : IsOwn(log[i].id) =>
       /\ log[i].conv = sentTo[log[i].id]
       /\ \A j \in 1..Len(log) : log[j].id = log[i].id => j = i
  /\ Cardinality(Echoed) <= Cardinality(acked)

\* The outbox, and which lines of the log show what is in it, and how.
SentSoFar == [m \in 1..sent |-> sentTo[m]]
OwnLines == {[line |-> Len(log) + 1 - i, id |-> log[i].id, conv |-> log[i].conv,
              echo |-> log[i].quotable] : i \in {j \in 1..Len(log) : IsOwn(log[j].id)}}

\* Step by step, the user is shown what was sent as the outbox promises: an echo
\* never without a further acknowledgement, never out of the order of sending; and
\* what was shown is neither taken back nor moved.
Sending == INSTANCE Outbox WITH to <- SentSoFar, lines <- Len(log), shown <- OwnLines
SentLikeOutbox == Sending!Spec

\* "The most recent cached message containing the needle will be replied to."
\* (README.md:30): no message with a body that was received or echoed later contains
\* it.  (What is shown at once, without waiting for the acknowledgement, is not cached.)
RepliesToNewest == ~skipped

\* Until the account is closed, a receipt that was noted waits in the table, has been
\* written, or was lost by the one attempt to write it: none is dropped without an
\* attempt, none is written twice or after a failed attempt, though receipts are noted
\* and the timer runs in any order.
ReceiptsAccounted ==
  /\ phase = "live" => noted \subseteq Waiting \union marked \union lost
  /\ Waiting \intersect (marked \union lost) = {}
  /\ marked \intersect lost = {}

\* "read one last time for acknowledgement of unsubscription" (login.c:243): the
\* last read does not touch what signald_close has released before it.
ReleasedNotUsed == ~misused
=============================================================================
