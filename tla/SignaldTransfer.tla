--------------------------- MODULE SignaldTransfer ---------------------------
(***************************************************************************)
(* The write side of src/src/comms.c with those who call it: a request is  *)
(* written in two steps, the JSON and the newline, to a socket which may   *)
(* take less of it or be gone.  The bytes that were taken stay in the      *)
(* stream.  Messages of the user carry images as files (attachments.c).    *)
(*                                                                         *)
(* The bytes of the k-th request are <<k, 1>>, ..., <<k, JsonLen>>.        *)
(***************************************************************************)
EXTENDS SignaldAttachments, FiniteSets

CONSTANTS Messages,     \* of the user: sequences of texts and tags
          JsonLen,      \* length of a request
          MaxTransfers  \* bound: requests and received attachments together

ASSUME MessagesAssumption == Messages \subseteq Seq(Texts \union Images \union {BrokenTag})
ASSUME JsonLenAssumption == JsonLen \in Nat \ {0}
ASSUME MaxTransfersAssumption == MaxTransfers \in Nat

Newline == <<0, 0>>

VARIABLES
  requests,  \* what the plugin has asked signald to do so far (history)
  writing,   \* the part of the last one to be written: "json", "newline" or "nothing"
  outcome,   \* per request: "pending", or what signald_send_json returned (history)
  error,     \* purple_connection_error was called: a disconnect is scheduled
  phase,     \* of the account: "open", "closing" (unsubscribing) or "closed"
  gone,      \* has signald gone away?
  wire,      \* bytes in the socket
  lines,     \* the lines signald has read
  received   \* number of attachments received

socketVars == <<gone, wire, lines>>
vars == <<attachmentVars, requests, writing, outcome, error, phase, socketVars, received>>

\* "other": what is sent with signald_send_json_or_display_error.
Kinds == {"send", "mark_read", "unsubscribe", "other"}

TypeOK ==
  /\ tmp \in Seq(Images \union {None})
  /\ served \in [Targets -> Paths \union {None, "partial"}]
  /\ links \subseteq Targets \X Paths
  /\ \A k \in DOMAIN requests :
       /\ requests[k].kind \in Kinds
       /\ requests[k].files \in Seq(DOMAIN tmp)
  /\ writing \in {"json", "newline", "nothing"}
  /\ DOMAIN outcome = DOMAIN requests
  /\ \A k \in DOMAIN outcome : outcome[k] \in {"pending", "written", "failed"}
  /\ writing = "nothing" <=> \A k \in DOMAIN outcome : outcome[k] # "pending"
  /\ error \in BOOLEAN /\ gone \in BOOLEAN
  /\ phase \in {"open", "closing", "closed"}
  /\ phase = "closing" => writing # "nothing"
  /\ received \in 0..MaxTransfers

Init ==
  /\ AttachmentsInit
  /\ requests = <<>> /\ writing = "nothing" /\ outcome = <<>>
  /\ error = FALSE /\ phase = "open"
  /\ gone = FALSE /\ wire = <<>> /\ lines = <<>>
  /\ received = 0

-----------------------------------------------------------------------------
(* Requests.                                                               *)

Idle == writing = "nothing"

Request(r) ==
  /\ Len(requests) + received < MaxTransfers
  /\ requests' = Append(requests, r)
  /\ outcome' = Append(outcome, "pending")
  /\ writing' = "json"

\* signald_send_message.
SendMessage ==
  /\ phase = "open" /\ Idle
  /\ \E m \in Messages : \E o \in Outcomes(m) :
       LET d == DetachImages(m, o, tmp) IN
       /\ Request([kind |-> "send", message |-> m, saved |-> o, body |-> d.body, files |-> d.files])
       /\ tmp' = d.tmp
  /\ UNCHANGED <<served, links, error, phase, socketVars, received>>

\* signald_send_receipt, when the timer expires, and everything else that asks
\* signald for something.
Ask(kind) ==
  /\ phase = "open" /\ Idle
  /\ Request([kind |-> kind, files |-> <<>>])
  /\ UNCHANGED <<attachmentVars, error, phase, socketVars, received>>

\* signald_close: the user disconnects, or the scheduled disconnect is due.
\* Without a uuid, or before the account is connected, nothing is written.
Close ==
  /\ phase = "open" /\ Idle
  /\ \/ phase' = "closed" /\ UNCHANGED <<requests, outcome, writing>>
     \/ phase' = "closing" /\ Request([kind |-> "unsubscribe", files |-> <<>>])
  /\ UNCHANGED <<attachmentVars, error, socketVars, received>>

-----------------------------------------------------------------------------
(* signald_send_json and its callers.                                      *)

Current == Len(requests)
Json(k) == [i \in 1..JsonLen |-> <<k, i>>]

\* A mutant of Return: the failure is not shown and goes without consequences.
ReturnQuietly(result) ==
  /\ outcome' = [outcome EXCEPT ![Current] = result]
  /\ writing' = "nothing"
  /\ error' = error
  /\ phase' = IF phase = "closing" THEN "closed" ELSE phase

\* A mutant of Return: signald_close stops half way if the request fails.
ReturnHalfClosed(result) ==
  /\ outcome' = [outcome EXCEPT ![Current] = result]
  /\ writing' = "nothing"
  /\ error' = (error \/ (result = "failed" /\ requests[Current].kind \notin {"send", "mark_read"}))
  /\ phase' = IF phase = "closing" /\ result = "written" THEN "closed" ELSE phase

\* What was not written is shown as a connection error, except for a message,
\* which the client reports, and a receipt, which is lost.
\* signald_close goes on, be it to the last read (SignaldComms) or not.
Return(result) ==
  /\ outcome' = [outcome EXCEPT ![Current] = result]
  /\ writing' = "nothing"
  /\ error' = (error \/ (result = "failed" /\ requests[Current].kind \notin {"send", "mark_read"}))
  /\ phase' = IF phase = "closing" THEN "closed" ELSE phase

\* signald_send_str: the first w of the bytes are taken, none if the write fails.
\* That is possible at any time (a signal), and certain if signald is gone.
SendStr(bytes, w) ==
  /\ gone => w = 0
  /\ wire' = wire \o SubSeq(bytes, 1, w)
  /\ UNCHANGED <<gone, lines>>

\* A mutant of WriteJson: what the write returns is not looked at.
WriteJsonUnchecked ==
  /\ writing = "json"
  /\ \E w \in 0..JsonLen : SendStr(Json(Current), w)
  /\ writing' = "newline" /\ UNCHANGED <<outcome, error, phase>>
  /\ UNCHANGED <<attachmentVars, requests, received>>

WriteJson ==
  /\ writing = "json"
  /\ \E w \in 0..JsonLen :
       /\ SendStr(Json(Current), w)
       /\ IF w = JsonLen THEN writing' = "newline" /\ UNCHANGED <<outcome, error, phase>>
          ELSE Return("failed")
  /\ UNCHANGED <<attachmentVars, requests, received>>

\* A mutant of WriteNewline: it compares with the length that counts the terminator.
WriteNewlineTerminated ==
  /\ writing = "newline"
  /\ \E w \in 0..1 : SendStr(<<Newline>>, w) /\ Return("failed")
  /\ UNCHANGED <<attachmentVars, requests, received>>

\* A mutant of WriteNewline: the newline is forgotten.
WriteNewlineNot ==
  /\ writing = "newline"
  /\ Return("written")
  /\ UNCHANGED <<attachmentVars, requests, socketVars, received>>

WriteNewline ==
  /\ writing = "newline"
  /\ \E w \in 0..1 :
       /\ SendStr(<<Newline>>, w)
       /\ Return(IF w = 1 THEN "written" ELSE "failed")
  /\ UNCHANGED <<attachmentVars, requests, received>>

-----------------------------------------------------------------------------
(* signald.                                                                *)

\* signald reads up to the next newline.
DaemonRead ==
  \E n \in DOMAIN wire :
    /\ wire[n] = Newline /\ \A i \in 1..(n - 1) : wire[i] # Newline
    /\ lines' = Append(lines, SubSeq(wire, 1, n - 1))
    /\ wire' = SubSeq(wire, n + 1, Len(wire))
    /\ UNCHANGED <<attachmentVars, requests, writing, outcome, error, phase, gone, received>>

\* What is in the socket is lost.
DaemonHangup ==
  /\ ~gone /\ gone' = TRUE /\ wire' = <<>>
  /\ UNCHANGED <<attachmentVars, requests, writing, outcome, error, phase, lines, received>>

\* One of the attachments, or the sticker, in a message that is to be displayed.
Receive ==
  /\ phase = "open" /\ Idle
  /\ Len(requests) + received < MaxTransfers /\ received' = received + 1
  /\ \E p \in Paths, t \in Types, s \in Settings, readable \in BOOLEAN :
       ParseAttachment(p, t, s, readable)
  /\ UNCHANGED <<requests, writing, outcome, error, phase, socketVars>>

Terminated == phase = "closed" /\ UNCHANGED vars

Next ==
  \/ SendMessage \/ Ask("mark_read") \/ Ask("other") \/ Close
  \/ WriteJson \/ WriteNewline
  \/ DaemonRead \/ DaemonHangup \/ Receive
  \/ Terminated

Spec == Init /\ [][Next]_vars

\* A write returns, signald reads what it is sent, and a scheduled disconnect is
\* carried out.
Fairness == WF_vars(WriteJson \/ WriteNewline) /\ WF_vars(DaemonRead) /\ WF_vars(error /\ Close)

FairSpec == Spec /\ Fairness

-----------------------------------------------------------------------------
(* Properties.                                                             *)

Failed == \E k \in DOMAIN outcome : outcome[k] = "failed"

\* What signald is sent are requests: it reads them whole, once each and in order,
\* until a write has failed; nothing is promised from then on, for the next
\* request follows the beginning of the one that failed.
RequestLens == [k \in DOMAIN requests |-> JsonLen]
Channel == INSTANCE LineChannel
             WITH Capacity <- 0, LineLens <- {JsonLen}, MaxLines <- MaxTransfers,
                  sent <- RequestLens, received <- lines, failed <- Failed
RequestByRequest == Channel!Spec

\* What is reported to have failed is never carried out later, so that the user
\* can send a message again and nobody reads it twice.
FailedIsNeverRead ==
  \A k \in DOMAIN outcome : outcome[k] = "failed" => \A j \in DOMAIN lines : lines[j] # Json(k)

\* A request does not get lost: what is reported to be written is read by signald,
\* if no write before has failed; and what could not be written ends the
\* connection, unless it is a message, which the user is told, or a receipt.
RequestSettled ==
  /\ \A k \in 1..MaxTransfers :
       (k \in DOMAIN outcome /\ outcome[k] = "written" /\ ~Failed)
         ~> (gone \/ \E j \in DOMAIN lines : lines[j] = Json(k))
  /\ (\E k \in DOMAIN outcome : outcome[k] = "failed" /\ requests[k].kind = "other")
       ~> phase = "closed"

\* The request for a message has the texts of the message, and the images that
\* could be saved, in order; signald finds each of them in its file, whenever it
\* gets to read the request.
TextsUpTo(r, i) == {j \in 1..i : r.message[j] \in Texts}
SavedUpTo(r, i) == {j \in 1..i : r.message[j] \in Images /\ r.saved[j] = "saved"}
KeepsMessage(r) ==
  /\ Len(r.body) = Cardinality(TextsUpTo(r, Len(r.message)))
  /\ Len(r.files) = Cardinality(SavedUpTo(r, Len(r.message)))
  /\ \A i \in TextsUpTo(r, Len(r.message)) :
       r.body[Cardinality(TextsUpTo(r, i))] = r.message[i]
  /\ \A i \in SavedUpTo(r, Len(r.message)) :
       tmp[r.files[Cardinality(SavedUpTo(r, i))]] = r.message[i]
RequestsKeepMessage ==
  \A k \in DOMAIN requests : requests[k].kind = "send" => KeepsMessage(requests[k])

\* A link that was shown leads to the file it was shown for, whatever has been
\* received since: files of the same name, as those of stickers, the same file
\* once more, or with another type.
LinksKeepContent == \A l \in links : served[l[1]] = l[2]
=============================================================================
