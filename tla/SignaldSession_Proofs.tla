------------------------- MODULE SignaldSession_Proofs -------------------------
(***************************************************************************)
(* Theorems about SignaldSession, for any bounds and any options.          *)
(***************************************************************************)
EXTENDS SignaldSession, TLAPS

(***************************************************************************)
(* Types.                                                                  *)
(***************************************************************************)

Typing ==
  /\ session_id \in 0..sessions
  /\ sessions \in Nat /\ faults \in Nat /\ events \in Nat
  /\ phase \in {"live", "blocked", "reading", "closed"}
  /\ asked \in [RequestTypes -> Nat]
  /\ inbox \in Seq(Message)
  /\ \A i \in 1..Len(inbox) : inbox[i].sid <= sessions
  /\ status \in {"absent", "pending", "ready"}
  /\ ws \in WsStates

\* What is true of every message of a queue is true of those after the first.
LEMMA TailMembers ==
  ASSUME NEW S, NEW s \in Seq(S), s # <<>>
  PROVE  /\ Head(s) \in S /\ Tail(s) \in Seq(S)
         /\ Len(s) \in Nat /\ 1 \in 1..Len(s) /\ Head(s) = s[1]
         /\ \A i \in 1..Len(Tail(s)) : i + 1 \in 1..Len(s) /\ Tail(s)[i] = s[i + 1]
OBVIOUS

LEMMA AppendMembers ==
  ASSUME NEW S, NEW s \in Seq(S), NEW m \in S
  PROVE  /\ Append(s, m) \in Seq(S)
         /\ \A i \in 1..Len(Append(s, m)) :
               Append(s, m)[i] = m \/ (i \in 1..Len(s) /\ Append(s, m)[i] = s[i])
OBVIOUS

\* The ways in which a step can treat the requests and the queue.
LEMMA RequestTyped ==
  ASSUME asked \in [RequestTypes -> Nat], NEW types, Send(types)
  PROVE  asked' \in [RequestTypes -> Nat]
BY DEF Send

LEMMA AnsweredTyped ==
  ASSUME asked \in [RequestTypes -> Nat], NEW t \in RequestTypes, Answered(t)
  PROVE  asked' \in [RequestTypes -> Nat]
BY DEF Answered

LEMMA HandledTyped ==
  ASSUME Typing, inbox # <<>>, inbox' = Tail(inbox), sessions' = sessions
  PROVE  /\ inbox' \in Seq(Message)
         /\ \A i \in 1..Len(inbox') : inbox'[i].sid <= sessions'
         /\ Head(inbox) \in Message /\ Head(inbox).sid \in 0..sessions
<1>1. inbox \in Seq(Message)
  BY DEF Typing
<1>2. /\ Head(inbox) \in Message /\ Tail(inbox) \in Seq(Message)
      /\ 1 \in 1..Len(inbox) /\ Head(inbox) = inbox[1]
      /\ \A i \in 1..Len(Tail(inbox)) : i + 1 \in 1..Len(inbox) /\ Tail(inbox)[i] = inbox[i + 1]
  BY <1>1, TailMembers
<1>3. \A i \in 1..Len(inbox') : inbox'[i].sid <= sessions'
  BY <1>2 DEF Typing
<1>4. Head(inbox).sid \in Nat
  BY <1>2 DEF Message
<1> QED
  BY <1>2, <1>3, <1>4 DEF Typing

LEMMA WrittenTyped ==
  ASSUME Typing, NEW m \in Message, inbox' = Append(inbox, m), sessions' \in Nat, sessions <= sessions',
         m.sid <= sessions'
  PROVE  /\ inbox' \in Seq(Message)
         /\ \A i \in 1..Len(inbox') : inbox'[i].sid <= sessions'
<1>1. inbox \in Seq(Message) /\ inbox' = Append(inbox, m)
  BY DEF Typing
<1>2. /\ Append(inbox, m) \in Seq(Message)
      /\ \A i \in 1..Len(Append(inbox, m)) :
            \/ Append(inbox, m)[i] = m
            \/ i \in 1..Len(inbox) /\ Append(inbox, m)[i] = inbox[i]
  BY <1>1, AppendMembers
<1>3. ASSUME NEW i \in 1..Len(inbox') PROVE inbox'[i].sid <= sessions'
  <2>1. CASE inbox'[i] = m
    BY <2>1
  <2>2. CASE i \in 1..Len(inbox) /\ inbox'[i] = inbox[i]
    <3>1. inbox[i] \in Message
      BY <1>1, <2>2
    <3>2. inbox[i].sid \in Nat /\ inbox[i].sid <= sessions
      BY <2>2, <3>1 DEF Typing, Message
    <3> QED
      BY <2>2, <3>2 DEF Typing
  <2> QED
    BY <1>1, <1>2, <2>1, <2>2
<1> QED
  BY <1>1, <1>2, <1>3

\* signald writes one message, of a linking session that has begun.
Written == \E m \in Message : m.sid <= sessions' /\ inbox' = Append(inbox, m)

LEMMA TypingStep ==
  ASSUME Typing, [Next]_vars PROVE Typing'
<1> USE DEF Typing
\* Handlers: the first message is taken from the queue, requests are sent.
<1>1. ASSUME inbox # <<>>, inbox' = Tail(inbox), asked' \in [RequestTypes -> Nat],
             UNCHANGED <<phase, sessions, faults, events, status, ws>>,
             session_id' \in {session_id, Head(inbox).sid}
      PROVE  Typing'
  <2>1. /\ inbox' \in Seq(Message)
        /\ \A i \in 1..Len(inbox') : inbox'[i].sid <= sessions'
        /\ Head(inbox).sid \in 0..sessions
    BY <1>1, HandledTyped
  <2> QED
    BY <1>1, <2>1
<1>2. ASSUME HandleInput PROVE Typing'
  <2> USE DEF Receiving, Handle, NoRequest, Request, LinkOrRegister, accountVars, historyVars,
              daemonVars
  <2>1. CASE Receiving /\ OnError
    BY <2>1, <1>1, RequestTyped DEF OnError
  <2>2. CASE Receiving /\ OnVersion
    BY <2>2, <1>1, RequestTyped DEF OnVersion
  <2>3. CASE Receiving /\ OnListAccounts
    BY <2>3, <1>1, RequestTyped DEF OnListAccounts
  <2>4. CASE Receiving /\ OnSubscribe
    BY <2>4, <1>1, RequestTyped DEF OnSubscribe
  <2>5. CASE Receiving /\ OnUnsubscribe
    BY <2>5, <1>1 DEF OnUnsubscribe
  <2>6. CASE Receiving /\ OnRequestSync
    BY <2>6, <1>1, RequestTyped DEF OnRequestSync
  <2>7. CASE Receiving /\ OnListContacts
    BY <2>7, <1>1 DEF OnListContacts
  <2>8. CASE Receiving /\ OnListGroups
    BY <2>8, <1>1 DEF OnListGroups
  <2>9. CASE Receiving /\ OnLinkingUri
    BY <2>9, <1>1 DEF OnLinkingUri
  <2>10. CASE Receiving /\ OnFinishLink
    BY <2>10, <1>1, RequestTyped DEF OnFinishLink
  <2>11. CASE Receiving /\ OnWebSocketState
    BY <2>11, <1>1 DEF OnWebSocketState
  <2>12. CASE Receiving /\ OnIncoming
    BY <2>12, <1>1 DEF OnIncoming
  <2>13. CASE Receiving /\ OnInternalError
    BY <2>13, <1>1 DEF OnInternalError
  <2>14. CASE Receiving /\ OnIgnored
    BY <2>14, <1>1 DEF OnIgnored
  <2>15. CASE OnEof
    BY <2>15 DEF OnEof
  <2> QED
    BY <1>2, <2>1, <2>2, <2>3, <2>4, <2>5, <2>6, <2>7, <2>8, <2>9, <2>10, <2>11, <2>12, <2>13, <2>14, <2>15 DEF HandleInput
\* Everything else the plugin does.
<1>3. ASSUME asked' \in [RequestTypes -> Nat], inbox' = inbox,
             phase' \in {"live", "blocked", "reading", "closed"}, events' \in Nat,
             UNCHANGED <<session_id, sessions, faults, status, ws>>
      PROVE  Typing'
  BY <1>3
<1>4. ASSUME User PROVE Typing'
  <2> USE DEF NoRequest, Request, accountVars, historyVars, daemonVars
  <2>1. ASSUME NEW d \in dialogs, QrDone(d) PROVE Typing'
    BY <2>1, <1>3, RequestTyped DEF QrDone
  <2>2. ASSUME NEW d \in dialogs, QrCancel(d) PROVE Typing'
    BY <2>2, <1>3 DEF QrCancel
  <2>3. ASSUME NEW d \in dialogs, VerifyOk(d) PROVE Typing'
    BY <2>3, <1>3, RequestTyped DEF VerifyOk
  <2>4. ASSUME NEW d \in dialogs, VerifyCancel(d) PROVE Typing'
    BY <2>4, <1>3 DEF VerifyCancel
  <2>5. ASSUME NEW t \in {"list_contacts", "list_groups"}, Update(t) PROVE Typing'
    BY <2>5, <1>3, RequestTyped DEF Update
  <2> QED
    BY <1>4, <2>1, <2>2, <2>3, <2>4, <2>5 DEF User
<1>5. ASSUME ReceiptsTimer PROVE Typing'
  BY <1>5, <1>3, RequestTyped DEF ReceiptsTimer, daemonVars
<1>6. ASSUME Free PROVE Typing'
  BY <1>6 DEF Free, daemonVars
<1>7. ASSUME Close PROVE Typing'
  <2>1. CASE CloseUnsubscribing
    BY <2>1, <1>3, RequestTyped DEF CloseUnsubscribing, accountVars, daemonVars
  <2> QED
    BY <1>7, <1>6, <2>1 DEF Close, CloseAtOnce
<1>8. ASSUME Closing PROVE Typing'
  BY <1>8, <1>6, <1>3 DEF Closing, CloseRead, CloseEnd, accountVars, daemonVars
\* signald: it answers, reports or hangs up.
<1>9. ASSUME Written, sessions' \in Nat, sessions <= sessions',
             asked' \in [RequestTypes -> Nat], faults' \in Nat, events' \in Nat,
             status' \in {"absent", "pending", "ready"}, ws' \in WsStates,
             UNCHANGED <<session_id, phase>>
      PROVE  Typing'
  <2>1. PICK m \in Message : m.sid <= sessions' /\ inbox' = Append(inbox, m)
    BY <1>9 DEF Written
  <2>2. /\ inbox' \in Seq(Message)
        /\ \A i \in 1..Len(inbox') : inbox'[i].sid <= sessions'
    BY <2>1, <1>9, WrittenTyped
  <2>3. session_id' \in 0..sessions'
    BY <1>9
  <2> QED
    BY <1>9, <2>2, <2>3
<1>10. ASSUME NEW t \in RequestTypes, Answer(t) PROVE Typing'
  <2> USE DEF pluginVars, accountVars, daemonVars
  <2>1. asked' \in [RequestTypes -> Nat]
    BY <1>10, AnsweredTyped DEF Answer, AnswerPlain, AnswerListAccounts, AnswerListContacts, AnswerUnsubscribe,
       AnswerLinkingUri, AnswerFinishLink, AnswerRegister, AnswerError
  <2>2. CASE AnswerPlain(t)
    <3>1. /\ inbox' = Append(inbox, Msg(t, "none", "none", 0))
          /\ UNCHANGED <<session_id, phase, sessions, faults, events, status, ws>>
      BY <2>2 DEF AnswerPlain, Write
    <3>2. /\ Msg(t, "none", "none", 0) \in Message
          /\ Msg(t, "none", "none", 0).sid = 0
      BY DEF Msg, Message, RequestTypes, Errors, Arguments
    <3>3. Written
      BY <3>1, <3>2 DEF Written
    <3> QED
      BY <3>1, <3>3, <2>1, <1>9 DEF WsStates
  <2>3. CASE t = "list_accounts" /\ AnswerListAccounts
    <3>1. /\ inbox' = Append(inbox, Msg("list_accounts", "none", status, 0))
          /\ UNCHANGED <<session_id, phase, sessions, faults, events, status, ws>>
      BY <2>3 DEF AnswerListAccounts, Write
    <3>2. /\ Msg("list_accounts", "none", status, 0) \in Message
          /\ Msg("list_accounts", "none", status, 0).sid = 0
      BY DEF Msg, Message, RequestTypes, Errors, Arguments
    <3>3. Written
      BY <3>1, <3>2 DEF Written
    <3> QED
      BY <3>1, <3>3, <2>1, <1>9 DEF WsStates
  <2>9. CASE t = "list_contacts" /\ AnswerListContacts
    <3>1. PICK a \in {"none", "some"} : inbox' = Append(inbox, Msg("list_contacts", "none", a, 0))
      BY <2>9 DEF AnswerListContacts, Write
    <3>2. UNCHANGED <<session_id, phase, sessions, faults, events, status, ws>>
      BY <2>9 DEF AnswerListContacts
    <3>3. /\ Msg("list_contacts", "none", a, 0) \in Message
          /\ Msg("list_contacts", "none", a, 0).sid = 0
      BY DEF Msg, Message, RequestTypes, Errors, Arguments
    <3>4. Written
      BY <3>1, <3>2, <3>3 DEF Written
    <3> QED
      BY <3>2, <3>4, <2>1, <1>9 DEF WsStates
  <2>4. CASE t = "unsubscribe" /\ AnswerUnsubscribe
    <3>1. /\ inbox' = Append(inbox, Msg("unsubscribe", "none", "none", 0))
          /\ UNCHANGED <<session_id, phase, sessions, faults, events, status>>
          /\ ws' = "NONE"
      BY <2>4 DEF AnswerUnsubscribe, Write
    <3>2. /\ Msg("unsubscribe", "none", "none", 0) \in Message
          /\ Msg("unsubscribe", "none", "none", 0).sid = 0
      BY DEF Msg, Message, RequestTypes, Errors, Arguments
    <3>3. Written
      BY <3>1, <3>2 DEF Written
    <3> QED
      BY <3>1, <3>3, <2>1, <1>9 DEF WsStates
  <2>5. CASE t = "generate_linking_uri" /\ AnswerLinkingUri
    <3>1. /\ inbox' = Append(inbox, Msg("generate_linking_uri", "none", "none", sessions + 1))
          /\ UNCHANGED <<session_id, phase, faults, events, status, ws>>
          /\ sessions' = sessions + 1
      BY <2>5 DEF AnswerLinkingUri, Write
    <3>2. /\ Msg("generate_linking_uri", "none", "none", sessions + 1) \in Message
          /\ Msg("generate_linking_uri", "none", "none", sessions + 1).sid = sessions + 1
      BY DEF Msg, Message, RequestTypes, Errors, Arguments
    <3>3. Written
      BY <3>1, <3>2 DEF Written
    <3> QED
      BY <3>1, <3>3, <2>1, <1>9 DEF WsStates
  <2>6. CASE t = "finish_link" /\ AnswerFinishLink
    <3>1. PICK a \in {"address", "none"} :
            inbox' = Append(inbox, Msg("finish_link", "none", a, 0))
      BY <2>6 DEF AnswerFinishLink, Write
    <3>2. /\ UNCHANGED <<session_id, phase, sessions, faults, events, ws>>
          /\ status' = "ready"
      BY <2>6 DEF AnswerFinishLink
    <3>3. /\ Msg("finish_link", "none", a, 0) \in Message
          /\ Msg("finish_link", "none", a, 0).sid = 0
      BY DEF Msg, Message, RequestTypes, Errors, Arguments
    <3>4. Written
      BY <3>1, <3>2, <3>3 DEF Written
    <3> QED
      BY <3>2, <3>4, <2>1, <1>9
  <2>7. CASE t = "register" /\ AnswerRegister
    <3>1. /\ inbox' = Append(inbox, Msg("register", "none", "none", 0))
          /\ UNCHANGED <<session_id, phase, sessions, faults, events, ws>>
          /\ status' = "pending"
      BY <2>7 DEF AnswerRegister, Write
    <3>2. /\ Msg("register", "none", "none", 0) \in Message
          /\ Msg("register", "none", "none", 0).sid = 0
      BY DEF Msg, Message, RequestTypes, Errors, Arguments
    <3>3. Written
      BY <3>1, <3>2 DEF Written
    <3> QED
      BY <3>1, <3>3, <2>1, <1>9 DEF WsStates
  <2>8. CASE AnswerError(t)
    <3>1. PICK e \in Errors : inbox' = Append(inbox, Msg(t, e, "none", 0))
      BY <2>8 DEF AnswerError, Write
    <3>2. /\ UNCHANGED <<session_id, phase, sessions, events, status, ws>>
          /\ faults' = faults + 1
      BY <2>8 DEF AnswerError, Fault
    <3>3. Msg(t, e, "none", 0) \in Message /\ Msg(t, e, "none", 0).sid = 0
      BY DEF Msg, Message, Arguments
    <3>4. Written
      BY <3>1, <3>2, <3>3 DEF Written
    <3> QED
      BY <3>2, <3>4, <2>1, <1>9
  <2> QED
    BY <1>10, <2>2, <2>3, <2>4, <2>5, <2>6, <2>7, <2>8, <2>9 DEF Answer
<1>11. ASSUME Signald PROVE Typing'
  <2> USE DEF pluginVars, accountVars, Write
  <2>1. ASSUME NEW state \in WsStates, Report(state), events' \in Nat PROVE Typing'
    <3>1. /\ Msg("WebSocketConnectionState", "none", state, 0) \in Message
          /\ Msg("WebSocketConnectionState", "none", state, 0).sid = 0
      BY DEF Msg, Message, EventTypes, Errors, Arguments
    <3>2. Written
      BY <2>1, <3>1 DEF Report, Written
    <3> QED
      BY <2>1, <3>2, <1>9 DEF Report
  <2>2. CASE WsUp
    BY <2>1, <2>2 DEF WsUp, WsStates
  <2>3. ASSUME NEW state \in WsStates, WsDown(state) PROVE Typing'
    BY <2>1, <2>3 DEF WsDown, Event
  <2>4. CASE Forward
    <3>1. /\ Msg("IncomingMessage", "none", "none", 0) \in Message
          /\ Msg("IncomingMessage", "none", "none", 0).sid = 0
      BY DEF Msg, Message, EventTypes, Errors, Arguments
    <3>2. Written
      BY <2>4, <3>1 DEF Forward, Written
    <3> QED
      BY <2>4, <3>2, <1>9 DEF Forward, Event
  <2>7. CASE WsOther
    <3>1. /\ Msg("WebSocketConnectionState", "none", "OTHER", 0) \in Message
          /\ Msg("WebSocketConnectionState", "none", "OTHER", 0).sid = 0
      BY DEF Msg, Message, EventTypes, Errors, Arguments
    <3>2. Written
      BY <2>7, <3>1 DEF WsOther, Written
    <3> QED
      BY <2>7, <3>2, <1>9 DEF WsOther, Event
  <2>5. CASE ReportInternalError
    <3>1. PICK a \in {"ignored", "fatal"} :
            inbox' = Append(inbox, Msg("InternalError", "none", a, 0))
      BY <2>5 DEF ReportInternalError
    <3>2. /\ UNCHANGED <<session_id, phase, asked, sessions, events, status, ws>>
          /\ faults' = faults + 1
      BY <2>5 DEF ReportInternalError, Fault
    <3>3. /\ Msg("InternalError", "none", a, 0) \in Message
          /\ Msg("InternalError", "none", a, 0).sid = 0
      BY DEF Msg, Message, EventTypes, Errors, Arguments
    <3>4. Written
      BY <3>1, <3>2, <3>3 DEF Written
    <3> QED
      BY <3>2, <3>4, <1>9
  <2>6. CASE Hangup
    BY <2>6 DEF Hangup, Fault
  <2> QED
    BY <1>11, <1>10, <2>2, <2>3, <2>4, <2>5, <2>6, <2>7 DEF Signald, Answering, Asked
<1>12. CASE UNCHANGED vars
  BY <1>12 DEF vars, pluginVars, accountVars, daemonVars
<1> QED
  BY <1>2, <1>4, <1>5, <1>7, <1>8, <1>11, <1>12 DEF Next, Terminated

Flags ==
  /\ gc \in {"CONNECTING", "CONNECTED", "DISCONNECTED"}
  /\ uuid \in BOOLEAN /\ link_option \in BOOLEAN /\ account_exists \in BOOLEAN
  /\ dialogs \subseteq Dialog
  /\ noted \in BOOLEAN /\ disconnect \in BOOLEAN
  /\ listed \subseteq {"contacts", "some", "groups"}
  /\ nullAccount \in BOOLEAN /\ mislinked \in BOOLEAN /\ unfinished \in BOOLEAN
  /\ subscribed \in BOOLEAN /\ hungup \in BOOLEAN

LEMMA FlagsStep ==
  ASSUME Typing, Flags, [Next]_vars PROVE Flags'
<1> USE DEF Flags, pluginVars, accountVars, historyVars, daemonVars, NoRequest, Request
<1>1. ASSUME HandleInput PROVE Flags'
  <2> USE DEF Handle, LinkOrRegister, VerifyDialog, QrDialog, Dialog
  <2>1. CASE Receiving /\ OnError
    <3>1. dialogs' \subseteq Dialog
      BY <2>1 DEF OnError
    <3>2. disconnect' \in BOOLEAN
      BY <2>1 DEF OnError
    <3> QED
      BY <2>1, <3>1, <3>2 DEF OnError
  <2>2. CASE Receiving /\ OnVersion
    BY <2>2 DEF OnVersion
  <2>3. CASE Receiving /\ OnListAccounts
    BY <2>3 DEF OnListAccounts
  <2>4. CASE Receiving /\ OnSubscribe
    BY <2>4 DEF OnSubscribe
  <2>5. CASE Receiving /\ OnUnsubscribe
    BY <2>5 DEF OnUnsubscribe
  <2>6. CASE Receiving /\ OnRequestSync
    BY <2>6 DEF OnRequestSync
  <2>7. CASE Receiving /\ OnListContacts
    BY <2>7 DEF OnListContacts
  <2>8. CASE Receiving /\ OnListGroups
    BY <2>8 DEF OnListGroups
  <2>9. CASE Receiving /\ OnLinkingUri
    <3>1. Head(inbox).sid \in Nat
      <4>1. inbox \in Seq(Message) /\ inbox # <<>>
        BY <2>9 DEF OnLinkingUri, Receiving, Typing
      <4>2. Head(inbox) \in Message
        BY <4>1, TailMembers
      <4> QED
        BY <4>2 DEF Message
    <3>2. dialogs' \subseteq Dialog
      BY <2>9, <3>1 DEF OnLinkingUri
    <3> QED
      BY <2>9, <3>2 DEF OnLinkingUri
  <2>10. CASE Receiving /\ OnFinishLink
    BY <2>10 DEF OnFinishLink
  <2>11. CASE Receiving /\ OnWebSocketState
    BY <2>11 DEF OnWebSocketState
  <2>12. CASE Receiving /\ OnIncoming
    BY <2>12 DEF OnIncoming
  <2>13. CASE Receiving /\ OnInternalError
    BY <2>13 DEF OnInternalError
  <2>14. CASE Receiving /\ OnIgnored
    BY <2>14 DEF OnIgnored
  <2>15. CASE OnEof
    BY <2>15 DEF OnEof
  <2> QED
    BY <1>1, <2>1, <2>2, <2>3, <2>4, <2>5, <2>6, <2>7, <2>8, <2>9, <2>10, <2>11, <2>12, <2>13, <2>14, <2>15 DEF HandleInput
<1>2. ASSUME User PROVE Flags'
  <2>1. ASSUME NEW d \in dialogs, QrDone(d) PROVE Flags'
    BY <2>1 DEF QrDone
  <2>2. ASSUME NEW d \in dialogs, QrCancel(d) PROVE Flags'
    BY <2>2 DEF QrCancel
  <2>3. ASSUME NEW d \in dialogs, VerifyOk(d) PROVE Flags'
    BY <2>3 DEF VerifyOk
  <2>4. ASSUME NEW d \in dialogs, VerifyCancel(d) PROVE Flags'
    BY <2>4 DEF VerifyCancel
  <2>5. ASSUME NEW t \in {"list_contacts", "list_groups"}, Update(t) PROVE Flags'
    BY <2>5 DEF Update
  <2> QED
    BY <1>2, <2>1, <2>2, <2>3, <2>4, <2>5 DEF User
<1>3. CASE ReceiptsTimer
  BY <1>3 DEF ReceiptsTimer
<1>4. CASE Close \/ Closing
  <2>1. CASE CloseUnsubscribing
    BY <2>1 DEF CloseUnsubscribing
  <2>2. CASE CloseRead
    BY <2>2 DEF CloseRead
  <2>3. CASE Free
    BY <2>3 DEF Free
  <2> QED
    BY <1>4, <2>1, <2>2, <2>3 DEF Close, CloseAtOnce, Closing, CloseEnd
<1>5. CASE Signald
  <2>1. ASSUME NEW t \in RequestTypes, Answer(t) PROVE Flags'
    <3>1. CASE AnswerPlain(t)
      BY <3>1 DEF AnswerPlain
    <3>2. CASE AnswerUnsubscribe
      BY <3>2 DEF AnswerUnsubscribe
    <3>3. CASE AnswerListAccounts
      BY <3>3 DEF AnswerListAccounts
    <3>8. CASE AnswerListContacts
      BY <3>8 DEF AnswerListContacts
    <3>4. CASE AnswerLinkingUri
      BY <3>4 DEF AnswerLinkingUri
    <3>5. CASE AnswerFinishLink
      BY <3>5 DEF AnswerFinishLink
    <3>6. CASE AnswerRegister
      BY <3>6 DEF AnswerRegister
    <3>7. CASE AnswerError(t)
      BY <3>7 DEF AnswerError
    <3> QED
      BY <2>1, <3>1, <3>2, <3>3, <3>4, <3>5, <3>6, <3>7, <3>8 DEF Answer
  <2>2. ASSUME NEW state \in WsStates, Report(state) PROVE Flags'
    BY <2>2 DEF Report
  <2>3. CASE Forward
    BY <2>3 DEF Forward
  <2>6. CASE WsOther
    BY <2>6 DEF WsOther
  <2>4. CASE ReportInternalError
    BY <2>4 DEF ReportInternalError
  <2>5. CASE Hangup
    BY <2>5 DEF Hangup
  <2> QED
    BY <1>5, <2>1, <2>2, <2>3, <2>4, <2>5, <2>6 DEF Signald, Answering, Asked, WsUp, WsDown, WsStates
<1>6. CASE UNCHANGED vars
  BY <1>6 DEF vars
<1> QED
  BY <1>1, <1>2, <1>3, <1>4, <1>5, <1>6 DEF Next, Terminated

LinkedTyped == linked \in BOOLEAN

LEMMA LinkedStep ==
  ASSUME LinkedTyped, [Next]_vars PROVE LinkedTyped'
<1> USE DEF LinkedTyped, daemonVars
<1>1. CASE HandleInput
  BY <1>1 DEF HandleInput, OnError, OnVersion, OnListAccounts, OnSubscribe, OnUnsubscribe,
     OnRequestSync, OnListContacts, OnListGroups, OnLinkingUri, OnFinishLink, OnWebSocketState,
     OnIncoming, OnInternalError, OnIgnored, OnEof
<1>2. CASE User \/ ReceiptsTimer
  BY <1>2 DEF User, QrDone, QrCancel, VerifyOk, VerifyCancel, Update, ReceiptsTimer
<1>3. CASE Close \/ Closing
  BY <1>3 DEF Close, CloseUnsubscribing, CloseAtOnce, Closing, CloseRead, CloseEnd, Free
<1>4. CASE Signald
  BY <1>4 DEF Signald, Answering, Asked, Answer, AnswerPlain, AnswerListAccounts,
     AnswerListContacts, AnswerUnsubscribe, AnswerLinkingUri, AnswerFinishLink, AnswerRegister,
     AnswerError, WsUp, WsDown, Report, Forward, WsOther, ReportInternalError, Hangup
<1>5. CASE UNCHANGED vars
  BY <1>5 DEF vars
<1> QED
  BY <1>1, <1>2, <1>3, <1>4, <1>5 DEF Next, Terminated

(***************************************************************************)
(* Only signald_close asks to unsubscribe: a live account is never told    *)
(* that it is, which would set it to DISCONNECTED.                         *)
(***************************************************************************)

Unsubscribing ==
  phase = "live" =>
    /\ gc # "DISCONNECTED"
    /\ asked["unsubscribe"] = 0
    /\ \A i \in 1..Len(inbox) : inbox[i].type # "unsubscribe"

LEMMA UnsubscribingStep ==
  ASSUME Typing, Flags, Unsubscribing, [Next]_vars PROVE Unsubscribing'
<1> USE DEF Unsubscribing, pluginVars, accountVars, historyVars, daemonVars
<1>1. ASSUME phase' = phase, inbox # <<>>, inbox' = Tail(inbox),
             phase = "live" => asked'["unsubscribe"] = asked["unsubscribe"],
             phase = "live" /\ Head(inbox).type # "unsubscribe" => gc' # "DISCONNECTED"
      PROVE  Unsubscribing'
  <2>1. inbox \in Seq(Message)
    BY DEF Typing
  <2>2. /\ 1 \in 1..Len(inbox) /\ Head(inbox) = inbox[1]
        /\ \A i \in 1..Len(Tail(inbox)) : i + 1 \in 1..Len(inbox) /\ Tail(inbox)[i] = inbox[i + 1]
    BY <1>1, <2>1, TailMembers
  <2> QED
    BY <1>1, <2>2
<1>2. ASSUME phase' = phase, inbox' = inbox, gc' = gc,
             phase = "live" => asked'["unsubscribe"] = asked["unsubscribe"]
      PROVE  Unsubscribing'
  BY <1>2
<1>3. ASSUME NEW m \in Message, phase' = phase, inbox' = Append(inbox, m), gc' = gc,
             phase = "live" => m.type # "unsubscribe",
             phase = "live" => asked'["unsubscribe"] = asked["unsubscribe"]
      PROVE  Unsubscribing'
  <2>1. inbox \in Seq(Message)
    BY DEF Typing
  <2>2. \A i \in 1..Len(Append(inbox, m)) :
           \/ Append(inbox, m)[i] = m
           \/ i \in 1..Len(inbox) /\ Append(inbox, m)[i] = inbox[i]
    BY <2>1, AppendMembers
  <2> QED
    BY <1>3, <2>2
<1>4. ASSUME NEW types, Send(types), "unsubscribe" \notin types
      PROVE  asked'["unsubscribe"] = asked["unsubscribe"]
  BY <1>4 DEF Send, RequestTypes, Typing
<1>5. ASSUME HandleInput PROVE Unsubscribing'
  <2> USE DEF Receiving, Handle, NoRequest, Request, LinkOrRegister
  <2>1. CASE Receiving /\ OnError
    <3>1. asked'["unsubscribe"] = asked["unsubscribe"]
      BY <2>1, <1>4 DEF OnError
    <3> QED
      BY <2>1, <3>1, <1>1 DEF OnError
  <2>2. CASE Receiving /\ OnVersion
    <3>1. asked'["unsubscribe"] = asked["unsubscribe"]
      BY <2>2, <1>4 DEF OnVersion
    <3> QED
      BY <2>2, <3>1, <1>1 DEF OnVersion
  <2>3. CASE Receiving /\ OnListAccounts
    <3>1. asked'["unsubscribe"] = asked["unsubscribe"]
      BY <2>3, <1>4 DEF OnListAccounts
    <3> QED
      BY <2>3, <3>1, <1>1 DEF OnListAccounts
  <2>4. CASE Receiving /\ OnSubscribe
    <3>1. asked'["unsubscribe"] = asked["unsubscribe"]
      BY <2>4, <1>4 DEF OnSubscribe
    <3> QED
      BY <2>4, <3>1, <1>1 DEF OnSubscribe
  <2>5. CASE Receiving /\ OnUnsubscribe
    BY <2>5, <1>1 DEF OnUnsubscribe
  <2>6. CASE Receiving /\ OnRequestSync
    <3>1. asked'["unsubscribe"] = asked["unsubscribe"]
      BY <2>6, <1>4 DEF OnRequestSync
    <3> QED
      BY <2>6, <3>1, <1>1 DEF OnRequestSync
  <2>7. CASE Receiving /\ OnListContacts
    BY <2>7, <1>1 DEF OnListContacts
  <2>8. CASE Receiving /\ OnListGroups
    BY <2>8, <1>1 DEF OnListGroups
  <2>9. CASE Receiving /\ OnLinkingUri
    BY <2>9, <1>1 DEF OnLinkingUri
  <2>10. CASE Receiving /\ OnFinishLink
    <3>1. asked'["unsubscribe"] = asked["unsubscribe"]
      BY <2>10, <1>4 DEF OnFinishLink
    <3> QED
      BY <2>10, <3>1, <1>1 DEF OnFinishLink
  <2>11. CASE Receiving /\ OnWebSocketState
    BY <2>11, <1>1 DEF OnWebSocketState
  <2>12. CASE Receiving /\ OnIncoming
    BY <2>12, <1>1 DEF OnIncoming
  <2>13. CASE Receiving /\ OnInternalError
    BY <2>13, <1>1 DEF OnInternalError
  <2>14. CASE Receiving /\ OnIgnored
    BY <2>14, <1>1 DEF OnIgnored
  <2>15. CASE OnEof
    BY <2>15, <1>2 DEF OnEof
  <2> QED
    BY <1>5, <2>1, <2>2, <2>3, <2>4, <2>5, <2>6, <2>7, <2>8, <2>9, <2>10, <2>11, <2>12, <2>13, <2>14, <2>15 DEF HandleInput
<1>6. ASSUME User PROVE Unsubscribing'
  <2> USE DEF NoRequest, Request
  <2>1. ASSUME NEW d \in dialogs, QrDone(d) PROVE Unsubscribing'
    BY <2>1, <1>2, <1>4 DEF QrDone
  <2>2. ASSUME NEW d \in dialogs, QrCancel(d) \/ VerifyCancel(d) PROVE Unsubscribing'
    BY <2>2, <1>2 DEF QrCancel, VerifyCancel
  <2>3. ASSUME NEW d \in dialogs, VerifyOk(d) PROVE Unsubscribing'
    BY <2>3, <1>2, <1>4 DEF VerifyOk
  <2>4. ASSUME NEW t \in {"list_contacts", "list_groups"}, Update(t) PROVE Unsubscribing'
    BY <2>4, <1>2, <1>4 DEF Update
  <2> QED
    BY <1>6, <2>1, <2>2, <2>3, <2>4 DEF User
<1>7. CASE ReceiptsTimer
  BY <1>7, <1>2, <1>4 DEF ReceiptsTimer
<1>8. CASE Close \/ Closing
  BY <1>8 DEF Close, CloseUnsubscribing, CloseAtOnce, Closing, CloseRead, CloseEnd, Free
\* signald.
<1>9. ASSUME NEW t \in RequestTypes, Answer(t), phase = "live" PROVE Unsubscribing'
  <2>1. asked[t] > 0 /\ asked' = [asked EXCEPT ![t] = @ - 1] /\ UNCHANGED <<phase, gc>>
    BY <1>9 DEF Answer, AnswerPlain, AnswerListAccounts, AnswerListContacts, AnswerUnsubscribe, AnswerLinkingUri,
       AnswerFinishLink, AnswerRegister, AnswerError, Answered
  <2>2. t # "unsubscribe" /\ asked'["unsubscribe"] = asked["unsubscribe"]
    BY <1>9, <2>1 DEF Typing, RequestTypes
  <2>3. PICK e \in Errors, a \in Arguments, sid \in Nat :
           inbox' = Append(inbox, Msg(t, e, a, sid))
    <3>1. CASE AnswerPlain(t)
      BY <3>1 DEF AnswerPlain, Write, Errors, Arguments
    <3>2. CASE t = "list_accounts" /\ AnswerListAccounts
      BY <3>2 DEF AnswerListAccounts, Write, Errors, Arguments, Typing
    <3>7. CASE t = "list_contacts" /\ AnswerListContacts
      BY <3>7 DEF AnswerListContacts, Write, Errors, Arguments
    <3>3. CASE t = "generate_linking_uri" /\ AnswerLinkingUri
      <4>1. inbox' = Append(inbox, Msg("generate_linking_uri", "none", "none", sessions + 1))
        BY <3>3 DEF AnswerLinkingUri, Write
      <4>2. "none" \in Errors /\ "none" \in Arguments /\ sessions + 1 \in Nat
        BY DEF Typing, Errors, Arguments
      <4> QED
        BY <3>3, <4>1, <4>2
    <3>4. CASE t = "finish_link" /\ AnswerFinishLink
      BY <3>4 DEF AnswerFinishLink, Write, Errors, Arguments
    <3>5. CASE t = "register" /\ AnswerRegister
      BY <3>5 DEF AnswerRegister, Write, Errors, Arguments
    <3>6. CASE AnswerError(t)
      BY <3>6 DEF AnswerError, Write, Errors, Arguments
    <3> QED
      BY <1>9, <2>2, <3>1, <3>2, <3>3, <3>4, <3>5, <3>6, <3>7 DEF Answer
  <2>4. Msg(t, e, a, sid) \in Message /\ Msg(t, e, a, sid).type # "unsubscribe"
    BY <2>2 DEF Msg, Message
  <2> QED
    BY <1>3, <2>1, <2>2, <2>3, <2>4
<1>10. CASE Signald
  <2> SUFFICES ASSUME phase = "live" PROVE Unsubscribing'
    BY <1>10 DEF Signald, Answering, Asked, Answer, AnswerPlain, AnswerListAccounts, AnswerListContacts, AnswerUnsubscribe,
       AnswerLinkingUri, AnswerFinishLink, AnswerRegister, AnswerError, WsUp, WsDown, Report,
       Forward, WsOther, ReportInternalError, Hangup
  <2>1. ASSUME NEW state \in WsStates, Report(state) PROVE Unsubscribing'
    <3>1. /\ Msg("WebSocketConnectionState", "none", state, 0) \in Message
          /\ Msg("WebSocketConnectionState", "none", state, 0).type # "unsubscribe"
      BY DEF Msg, Message, EventTypes, Errors, Arguments
    <3> QED
      BY <2>1, <3>1, <1>3 DEF Report, Write
  <2>2. CASE Forward
    <3>1. /\ Msg("IncomingMessage", "none", "none", 0) \in Message
          /\ Msg("IncomingMessage", "none", "none", 0).type # "unsubscribe"
      BY DEF Msg, Message, EventTypes, Errors, Arguments
    <3> QED
      BY <2>2, <3>1, <1>3 DEF Forward, Write
  <2>5. CASE WsOther
    <3>1. /\ Msg("WebSocketConnectionState", "none", "OTHER", 0) \in Message
          /\ Msg("WebSocketConnectionState", "none", "OTHER", 0).type # "unsubscribe"
      BY DEF Msg, Message, EventTypes, Errors, Arguments
    <3> QED
      BY <2>5, <3>1, <1>3 DEF WsOther, Write
  <2>3. CASE ReportInternalError
    <3>1. PICK a \in {"ignored", "fatal"} :
            inbox' = Append(inbox, Msg("InternalError", "none", a, 0))
      BY <2>3 DEF ReportInternalError, Write
    <3>2. /\ Msg("InternalError", "none", a, 0) \in Message
          /\ Msg("InternalError", "none", a, 0).type # "unsubscribe"
      BY DEF Msg, Message, EventTypes, Errors, Arguments
    <3> QED
      BY <2>3, <3>1, <3>2, <1>3 DEF ReportInternalError
  <2>4. CASE Hangup
    BY <2>4, <1>2 DEF Hangup
  <2> QED
    BY <1>9, <1>10, <2>1, <2>2, <2>3, <2>4, <2>5 DEF Signald, Answering, Asked, WsUp, WsDown, WsStates
<1>11. CASE UNCHANGED vars
  BY <1>11, <1>2 DEF vars
<1> QED
  BY <1>5, <1>6, <1>7, <1>8, <1>10, <1>11 DEF Next, Terminated

LEMMA LinkedInvariant == Spec => []LinkedTyped
<1>1. Init => LinkedTyped
  BY DEF Init, LinkedTyped
<1>2. LinkedTyped /\ [Next]_vars => LinkedTyped'
  BY LinkedStep
<1> QED
  BY <1>1, <1>2, PTL DEF Spec

LEMMA TypingInvariant == Spec => [](Typing /\ Flags /\ Unsubscribing)
<1>1. Init => Typing /\ Flags /\ Unsubscribing
  <2> SUFFICES ASSUME Init PROVE Typing /\ Flags /\ Unsubscribing
    OBVIOUS
  <2>1. Msg("version", "none", "none", 0) \in Message
        /\ Msg("version", "none", "none", 0).sid = 0
        /\ Msg("version", "none", "none", 0).type = "version"
    BY DEF Msg, Message, EventTypes, Errors, Arguments
  <2>2. inbox = <<Msg("version", "none", "none", 0)>>
    BY DEF Init
  <2>3. inbox \in Seq(Message) /\ Len(inbox) = 1 /\ inbox[1].sid = 0 /\ inbox[1].type = "version"
    BY <2>1, <2>2
  <2>4. asked \in [RequestTypes -> Nat] /\ asked["unsubscribe"] = 0
    BY DEF Init, RequestTypes
  <2>5. Typing
    BY <2>3, <2>4 DEF Init, Typing, WsStates
  <2>6. Flags
    BY OptionsAssumption DEF Init, Flags
  <2>7. Unsubscribing
    BY <2>3, <2>4 DEF Init, Unsubscribing
  <2> QED
    BY <2>5, <2>6, <2>7
<1>2. Typing /\ Flags /\ Unsubscribing /\ [Next]_vars => (Typing /\ Flags /\ Unsubscribing)'
  BY TypingStep, FlagsStep, UnsubscribingStep
<1> QED
  BY <1>1, <1>2, PTL DEF Spec

\* Every variable keeps its type; a live account is never set to DISCONNECTED,
\* whatever signald answers and in whatever order.
THEOREM TypeCorrect == Spec => []TypeOK
<1>1. Typing /\ Flags /\ Unsubscribing /\ LinkedTyped => TypeOK
  <2> SUFFICES ASSUME Typing, Flags, Unsubscribing, LinkedTyped PROVE TypeOK
    OBVIOUS
  <2>1. gc \in {"CONNECTING", "CONNECTED"} \union IF phase = "live" THEN {} ELSE {"DISCONNECTED"}
    BY DEF Flags, Unsubscribing
  <2> QED
    BY <2>1 DEF TypeOK, Typing, Flags, LinkedTyped
<1> QED
  BY <1>1, TypingInvariant, LinkedInvariant, PTL

(***************************************************************************)
(* What is shown as connected.                                             *)
(***************************************************************************)

\* A connection is shown as connected only while the account's uuid is known.
THEOREM ConnectedIsKnown == Spec => []ConnectedHasAccount
<1> USE DEF ConnectedHasAccount, pluginVars, accountVars, daemonVars
<1>1. Init => ConnectedHasAccount
  BY DEF Init
<1>2. ConnectedHasAccount /\ [Next]_vars => ConnectedHasAccount'
  <2> SUFFICES ASSUME ConnectedHasAccount, [Next]_vars PROVE ConnectedHasAccount'
    OBVIOUS
  \* Steps that keep the state of the connection, and never forget the uuid.
  <2>1. ASSUME gc' = gc, uuid => uuid' PROVE ConnectedHasAccount'
    BY <2>1
  <2>2. CASE Receiving /\ OnWebSocketState
    BY <2>2 DEF OnWebSocketState
  <2>3. CASE Receiving /\ OnUnsubscribe
    BY <2>3 DEF OnUnsubscribe
  <2>4. CASE HandleInput
    <3>1. CASE Receiving /\ OnListAccounts
      BY <3>1, <2>1 DEF OnListAccounts
    <3>2. CASE Receiving /\ OnFinishLink
      BY <3>2, <2>1 DEF OnFinishLink
    <3>3. CASE Receiving /\ OnError
      BY <3>3, <2>1 DEF OnError
    <3>4. CASE Receiving /\ (OnVersion \/ OnSubscribe \/ OnRequestSync \/ OnListContacts \/ OnListGroups)
      BY <3>4, <2>1 DEF OnVersion, OnSubscribe, OnRequestSync, OnListContacts, OnListGroups
    <3>5. CASE OnLinkingUri \/ OnIncoming \/ OnInternalError \/ OnIgnored \/ OnEof
      BY <3>5, <2>1 DEF OnLinkingUri, OnIncoming, OnInternalError, OnIgnored, OnEof
    <3> QED
      BY <2>2, <2>3, <2>4, <3>1, <3>2, <3>3, <3>4, <3>5 DEF HandleInput
  <2>5. CASE User \/ ReceiptsTimer
    BY <2>5, <2>1 DEF User, QrDone, QrCancel, VerifyOk, VerifyCancel, Update, ReceiptsTimer
  <2>6. CASE Close \/ Closing
    BY <2>6, <2>1 DEF Close, CloseUnsubscribing, CloseAtOnce, Closing, CloseRead, CloseEnd, Free
  <2>7. CASE Signald
    <3>1. UNCHANGED <<gc, uuid>>
      BY <2>7 DEF Signald, Answering, Asked, Answer, AnswerPlain, AnswerListAccounts, AnswerListContacts, AnswerUnsubscribe,
         AnswerLinkingUri, AnswerFinishLink, AnswerRegister, AnswerError, WsUp, WsDown, Report,
         Forward, WsOther, ReportInternalError, Hangup
    <3> QED
      BY <3>1, <2>1
  <2>8. CASE UNCHANGED vars
    BY <2>8, <2>1 DEF vars
  <2> QED
    BY <2>2, <2>3, <2>4, <2>5, <2>6, <2>7, <2>8 DEF Next, Terminated
<1> QED
  BY <1>1, <1>2, PTL DEF Spec

(***************************************************************************)
(* Read receipts.  signald_send_receipt does not look at the uuid: it is   *)
(* known because a receipt is noted for a message only, messages are       *)
(* forwarded only to a subscriber, and no account subscribes before the    *)
(* list of accounts or the answer to finish_link has told its uuid, or     *)
(* failed to: the invariant holds until then.                              *)
(***************************************************************************)

\* A message is forwarded to a known account only.
Telling(m) == m.type = "IncomingMessage" => uuid

KnownThrough ==
  /\ phase # "closed" /\ (subscribed \/ asked["subscribe"] > 0) => uuid
  /\ \A i \in 1..Len(inbox) : Telling(inbox[i])
  /\ noted => uuid
  /\ ~nullAccount

Known == unfinished \/ KnownThrough

\* Every answer is a message of the type of the request.
LEMMA AnswerWrites ==
  ASSUME Typing, NEW t \in RequestTypes, Answer(t)
  PROVE  \E e \in Errors, a \in Arguments, sid \in Nat :
            inbox' = Append(inbox, Msg(t, e, a, sid))
<1>1. CASE AnswerPlain(t)
  BY <1>1 DEF AnswerPlain, Plain, Write, Errors, Arguments
<1>2. CASE t = "list_accounts" /\ AnswerListAccounts
  BY <1>2 DEF AnswerListAccounts, Write, Errors, Arguments, Typing
<1>8. CASE t = "list_contacts" /\ AnswerListContacts
  BY <1>8 DEF AnswerListContacts, Write, Errors, Arguments
<1>3. CASE t = "unsubscribe" /\ AnswerUnsubscribe
  BY <1>3 DEF AnswerUnsubscribe, Write, Errors, Arguments
<1>4. CASE t = "generate_linking_uri" /\ AnswerLinkingUri
  <2>1. inbox' = Append(inbox, Msg("generate_linking_uri", "none", "none", sessions + 1))
    BY <1>4 DEF AnswerLinkingUri, Write
  <2>2. "none" \in Errors /\ "none" \in Arguments /\ sessions + 1 \in Nat
    BY DEF Typing, Errors, Arguments
  <2> QED
    BY <1>4, <2>1, <2>2
<1>5. CASE t = "finish_link" /\ AnswerFinishLink
  BY <1>5 DEF AnswerFinishLink, Write, Errors, Arguments
<1>6. CASE t = "register" /\ AnswerRegister
  BY <1>6 DEF AnswerRegister, Write, Errors, Arguments
<1>7. CASE AnswerError(t)
  BY <1>7 DEF AnswerError, Write, Errors, Arguments
<1> QED
  BY <1>1, <1>2, <1>3, <1>4, <1>5, <1>6, <1>7, <1>8 DEF Answer

LEMMA KnownThroughStep ==
  ASSUME Typing, KnownThrough, [Next]_vars, ~unfinished' PROVE KnownThrough'
<1> USE DEF KnownThrough, pluginVars, accountVars, historyVars, daemonVars
\* The first message is read and no uuid is forgotten.
<1>1. ASSUME phase' = phase, inbox # <<>>, inbox' = Tail(inbox), uuid => uuid',
             asked'["subscribe"] > 0 => asked["subscribe"] > 0 \/ uuid',
             noted' => noted \/ uuid', UNCHANGED <<subscribed, nullAccount>>
      PROVE  KnownThrough'
  <2>1. inbox \in Seq(Message)
    BY DEF Typing
  <2>2. \A i \in 1..Len(Tail(inbox)) : i + 1 \in 1..Len(inbox) /\ Tail(inbox)[i] = inbox[i + 1]
    BY <1>1, <2>1, TailMembers
  <2>3. \A i \in 1..Len(inbox') : Telling(inbox[i + 1]) /\ inbox'[i] = inbox[i + 1]
    BY <1>1, <2>2
  <2>4. (\A i \in 1..Len(inbox) : Telling(inbox[i]))'
    BY <1>1, <2>3 DEF Telling
  <2> QED
    BY <1>1, <2>4
<1>2. ASSUME inbox # <<>> PROVE Telling(Head(inbox))
  <2>1. inbox \in Seq(Message)
    BY DEF Typing
  <2> QED
    BY <1>2, <2>1, TailMembers
\* Nothing is read, written or forgotten.
<1>3. ASSUME UNCHANGED <<inbox, uuid, subscribed>>, phase # "closed",
             asked'["subscribe"] = asked["subscribe"], noted' => noted,
             nullAccount' => nullAccount \/ (~uuid /\ noted)
      PROVE  KnownThrough'
  <2>1. (\A i \in 1..Len(inbox) : Telling(inbox[i]))'
    BY <1>3 DEF Telling
  <2> QED
    BY <1>3, <2>1
\* A message is written.
<1>4. ASSUME NEW m \in Message, inbox' = Append(inbox, m), Telling(m), phase # "closed",
             UNCHANGED <<phase, uuid, noted, nullAccount>>,
             (subscribed \/ asked["subscribe"] > 0)' => subscribed \/ asked["subscribe"] > 0
      PROVE  KnownThrough'
  <2>1. inbox \in Seq(Message)
    BY DEF Typing
  <2>2. \A i \in 1..Len(Append(inbox, m)) :
           \/ Append(inbox, m)[i] = m
           \/ i \in 1..Len(inbox) /\ Append(inbox, m)[i] = inbox[i]
    BY <2>1, AppendMembers
  <2>3. \A i \in 1..Len(inbox') : Telling(inbox'[i])
    BY <1>4, <2>2
  <2>4. (\A i \in 1..Len(inbox) : Telling(inbox[i]))'
    BY <1>4, <2>3 DEF Telling
  <2> QED
    BY <1>4, <2>4
<1>5. ASSUME NEW types, Send(types), "subscribe" \notin types
      PROVE  asked'["subscribe"] = asked["subscribe"]
  BY <1>5 DEF Send, RequestTypes, Typing
<1>6. ASSUME HandleInput PROVE KnownThrough'
  <2> USE DEF Receiving, Handle, NoRequest, Request, LinkOrRegister
  <2>1. CASE Receiving /\ OnError
    <3>1. asked'["subscribe"] = asked["subscribe"]
      BY <2>1, <1>5 DEF OnError
    <3> QED
      BY <2>1, <3>1, <1>1 DEF OnError
  <2>2. CASE Receiving /\ OnVersion
    <3>1. asked'["subscribe"] = asked["subscribe"]
      BY <2>2, <1>5 DEF OnVersion
    <3> QED
      BY <2>2, <3>1, <1>1 DEF OnVersion
  <2>3. CASE Receiving /\ OnListAccounts
    <3>1. uuid => uuid'
      BY <2>3 DEF OnListAccounts
    <3>2. asked'["subscribe"] = asked["subscribe"] \/ uuid'
      <4>1. CASE Head(inbox).arg = "ready"
        BY <2>3, <4>1 DEF OnListAccounts
      <4>2. CASE Head(inbox).arg # "ready"
        BY <2>3, <4>2, <1>5 DEF OnListAccounts
      <4> QED
        BY <4>1, <4>2
    <3> QED
      BY <2>3, <3>1, <3>2, <1>1 DEF OnListAccounts
  <2>4. CASE Receiving /\ OnSubscribe
    <3>1. asked'["subscribe"] = asked["subscribe"]
      BY <2>4, <1>5 DEF OnSubscribe
    <3> QED
      BY <2>4, <3>1, <1>1 DEF OnSubscribe
  <2>5. CASE Receiving /\ OnUnsubscribe
    BY <2>5, <1>1 DEF OnUnsubscribe
  <2>6. CASE Receiving /\ OnRequestSync
    <3>1. asked'["subscribe"] = asked["subscribe"]
      BY <2>6, <1>5 DEF OnRequestSync
    <3> QED
      BY <2>6, <3>1, <1>1 DEF OnRequestSync
  <2>7. CASE Receiving /\ OnListContacts
    BY <2>7, <1>1 DEF OnListContacts
  <2>8. CASE Receiving /\ OnListGroups
    BY <2>8, <1>1 DEF OnListGroups
  <2>9. CASE Receiving /\ OnLinkingUri
    BY <2>9, <1>1 DEF OnLinkingUri
  <2>10. CASE Receiving /\ OnFinishLink
    <3>1. uuid'
      BY <2>10 DEF OnFinishLink
    <3> QED
      BY <2>10, <3>1, <1>1 DEF OnFinishLink
  <2>11. CASE Receiving /\ OnWebSocketState
    BY <2>11, <1>1 DEF OnWebSocketState
  <2>12. CASE Receiving /\ OnIncoming
    <3>1. uuid /\ uuid'
      BY <2>12, <1>2 DEF OnIncoming, Telling
    <3> QED
      BY <2>12, <3>1, <1>1 DEF OnIncoming
  <2>13. CASE Receiving /\ OnInternalError
    BY <2>13, <1>1 DEF OnInternalError
  <2>14. CASE Receiving /\ OnIgnored
    BY <2>14, <1>1 DEF OnIgnored
  <2>15. CASE OnEof
    BY <2>15, <1>3 DEF OnEof
  <2> QED
    BY <1>6, <2>1, <2>2, <2>3, <2>4, <2>5, <2>6, <2>7, <2>8, <2>9, <2>10, <2>11, <2>12, <2>13, <2>14, <2>15 DEF HandleInput
<1>7. ASSUME User PROVE KnownThrough'
  <2> USE DEF NoRequest, Request
  <2>1. ASSUME NEW d \in dialogs, QrDone(d) PROVE KnownThrough'
    BY <2>1, <1>3, <1>5 DEF QrDone
  <2>2. ASSUME NEW d \in dialogs, QrCancel(d) \/ VerifyCancel(d) PROVE KnownThrough'
    BY <2>2, <1>3 DEF QrCancel, VerifyCancel
  <2>3. ASSUME NEW d \in dialogs, VerifyOk(d) PROVE KnownThrough'
    BY <2>3, <1>3, <1>5 DEF VerifyOk
  <2>4. ASSUME NEW t \in {"list_contacts", "list_groups"}, Update(t) PROVE KnownThrough'
    BY <2>4, <1>3, <1>5 DEF Update
  <2> QED
    BY <1>7, <2>1, <2>2, <2>3, <2>4 DEF User
<1>8. ASSUME ReceiptsTimer PROVE KnownThrough'
  <2>1. uuid /\ ~nullAccount'
    BY <1>8 DEF ReceiptsTimer
  <2> QED
    BY <1>8, <2>1, <1>3, <1>5 DEF ReceiptsTimer
<1>9. ASSUME Close \/ Closing PROVE KnownThrough'
  <2>1. CASE Free
    BY <2>1 DEF Free
  <2>2. CASE CloseUnsubscribing
    BY <2>2, <1>3, <1>5 DEF CloseUnsubscribing
  <2>3. CASE CloseRead
    BY <2>3, <1>3 DEF CloseRead
  <2> QED
    BY <1>9, <2>1, <2>2, <2>3 DEF Close, CloseAtOnce, Closing, CloseEnd
<1>10. ASSUME NEW t \in RequestTypes, Answer(t) PROVE KnownThrough'
  <2>1. /\ asked[t] > 0 /\ asked' = [asked EXCEPT ![t] = @ - 1] /\ phase # "closed"
        /\ UNCHANGED <<phase, uuid, noted, nullAccount>>
    BY <1>10 DEF Answer, AnswerPlain, AnswerListAccounts, AnswerListContacts, AnswerUnsubscribe, AnswerLinkingUri,
       AnswerFinishLink, AnswerRegister, AnswerError, Answered, Write, CanWrite, Connected
  <2>2. asked["subscribe"] \in Nat /\ (asked'["subscribe"] > 0 => asked["subscribe"] > 0)
    BY <2>1 DEF Typing, RequestTypes
  <2>3. (subscribed \/ asked["subscribe"] > 0)' => subscribed \/ asked["subscribe"] > 0
    <3>1. CASE AnswerPlain(t)
      BY <3>1, <2>1, <2>2 DEF AnswerPlain
    <3>2. CASE ~AnswerPlain(t)
      <4>1. subscribed' => subscribed
        BY <1>10, <3>2 DEF Answer, AnswerListAccounts, AnswerListContacts, AnswerUnsubscribe, AnswerLinkingUri,
           AnswerFinishLink, AnswerRegister, AnswerError
      <4> QED
        BY <4>1, <2>2
    <3> QED
      BY <3>1, <3>2
  <2>4. PICK e \in Errors, a \in Arguments, sid \in Nat :
           inbox' = Append(inbox, Msg(t, e, a, sid))
    BY <1>10, AnswerWrites
  <2>5. Msg(t, e, a, sid) \in Message /\ Telling(Msg(t, e, a, sid))
    BY <2>4 DEF Msg, Message, Telling, RequestTypes
  <2> QED
    BY <1>4, <2>1, <2>3, <2>4, <2>5
<1>11. ASSUME Signald PROVE KnownThrough'
  <2>1. ASSUME NEW state \in WsStates, Report(state) PROVE KnownThrough'
    <3>1. /\ Msg("WebSocketConnectionState", "none", state, 0) \in Message
          /\ Telling(Msg("WebSocketConnectionState", "none", state, 0))
      BY DEF Msg, Message, Telling, EventTypes, Errors, Arguments
    <3> QED
      BY <2>1, <3>1, <1>4 DEF Report, Write, CanWrite, Connected
  <2>2. CASE Forward
    <3>1. uuid
      BY <2>2 DEF Forward, Serving, Write, CanWrite, Connected
    <3>2. /\ Msg("IncomingMessage", "none", "none", 0) \in Message
          /\ Telling(Msg("IncomingMessage", "none", "none", 0))
      BY <3>1 DEF Msg, Message, Telling, EventTypes, Errors, Arguments
    <3> QED
      BY <2>2, <3>2, <1>4 DEF Forward, Write, CanWrite, Connected
  <2>5. CASE WsOther
    <3>1. /\ Msg("WebSocketConnectionState", "none", "OTHER", 0) \in Message
          /\ Telling(Msg("WebSocketConnectionState", "none", "OTHER", 0))
      BY DEF Msg, Message, Telling, EventTypes, Errors, Arguments
    <3> QED
      BY <2>5, <3>1, <1>4 DEF WsOther, Write, CanWrite, Connected
  <2>3. CASE ReportInternalError
    <3>1. PICK a \in {"ignored", "fatal"} :
            inbox' = Append(inbox, Msg("InternalError", "none", a, 0))
      BY <2>3 DEF ReportInternalError, Write
    <3>2. /\ Msg("InternalError", "none", a, 0) \in Message
          /\ Telling(Msg("InternalError", "none", a, 0))
      BY DEF Msg, Message, Telling, EventTypes, Errors, Arguments
    <3>3. phase # "closed" /\ UNCHANGED <<phase, uuid, noted, nullAccount, subscribed, asked>>
      BY <2>3 DEF ReportInternalError, Write, CanWrite, Connected
    <3> QED
      BY <3>1, <3>2, <3>3, <1>4
  <2>4. CASE Hangup
    BY <2>4, <1>3 DEF Hangup, Connected
  <2> QED
    BY <1>11, <1>10, <2>1, <2>2, <2>3, <2>4, <2>5 DEF Signald, Answering, Asked, WsUp, WsDown, WsStates
<1>12. ASSUME UNCHANGED vars PROVE KnownThrough'
  BY <1>12 DEF vars, Telling
<1> QED
  BY <1>6, <1>7, <1>8, <1>9, <1>11, <1>12 DEF Next, Terminated

LEMMA UnfinishedStays ==
  ASSUME [Next]_vars, unfinished PROVE unfinished'
<1> USE DEF pluginVars, historyVars
<1>1. CASE HandleInput
  BY <1>1 DEF HandleInput, OnError, OnVersion, OnListAccounts, OnSubscribe, OnUnsubscribe,
     OnRequestSync, OnListContacts, OnListGroups, OnLinkingUri, OnFinishLink, OnWebSocketState,
     OnIncoming, OnInternalError, OnIgnored, OnEof
<1>2. CASE User \/ ReceiptsTimer
  BY <1>2 DEF User, QrDone, QrCancel, VerifyOk, VerifyCancel, Update, ReceiptsTimer
<1>3. CASE Close \/ Closing
  BY <1>3 DEF Close, CloseUnsubscribing, CloseAtOnce, Closing, CloseRead, CloseEnd, Free
<1>4. CASE Signald
  BY <1>4 DEF Signald, Answering, Asked, Answer, AnswerPlain, AnswerListAccounts, AnswerListContacts, AnswerUnsubscribe,
     AnswerLinkingUri, AnswerFinishLink, AnswerRegister, AnswerError, WsUp, WsDown, Report,
     Forward, WsOther, ReportInternalError, Hangup
<1>5. CASE UNCHANGED vars
  BY <1>5 DEF vars
<1> QED
  BY <1>1, <1>2, <1>3, <1>4, <1>5 DEF Next, Terminated

LEMMA KnownStep ==
  ASSUME Typing, Known, [Next]_vars PROVE Known'
<1>1. CASE unfinished'
  BY <1>1 DEF Known
<1>2. CASE ~unfinished'
  BY <1>2, KnownThroughStep, UnfinishedStays DEF Known
<1> QED
  BY <1>1, <1>2

LEMMA KnownInvariant == Spec => []Known
<1>1. Init => Known
  <2> SUFFICES ASSUME Init PROVE Known
    OBVIOUS
  <2>1. inbox = <<Msg("version", "none", "none", 0)>>
    BY DEF Init
  <2>2. Len(inbox) = 1 /\ inbox[1].type = "version"
    BY <2>1 DEF Msg
  <2>3. \A i \in 1..Len(inbox) : Telling(inbox[i])
    BY <2>2 DEF Telling
  <2>4. asked["subscribe"] = 0
    BY DEF Init, RequestTypes
  <2> QED
    BY <2>3, <2>4 DEF Init, Known, KnownThrough
<1>2. Typing /\ Known /\ [Next]_vars => Known'
  BY KnownStep
<1>3. Spec => []Typing
  BY TypingInvariant, PTL
<1> QED
  BY <1>1, <1>2, <1>3, PTL DEF Spec

\* No read receipt is sent with a null account, unless signald did not tell the
\* address when it had finished a link.
THEOREM ReceiptsCarryAccount == Spec => []ReceiptsNameAccount
<1>1. Known => ReceiptsNameAccount
  BY DEF Known, KnownThrough, ReceiptsNameAccount
<1> QED
  BY <1>1, KnownInvariant, PTL

\* The uuid is known wherever the code relies on it (structs.h:12).
THEOREM AccountIsNamed == Spec => []AccountNamed
<1>1. ConnectedHasAccount /\ ReceiptsNameAccount => AccountNamed
  BY DEF AccountNamed
<1> QED
  BY <1>1, ConnectedIsKnown, ReceiptsCarryAccount, PTL

(***************************************************************************)
(* The state shown follows signald's connection to the server.  Reports    *)
(* are read in the order they were written, so the last one not read yet   *)
(* tells the state of the websocket; none is ignored, for signald reports  *)
(* to subscribers only, whose uuid is known (Known).                       *)
(***************************************************************************)

IsReport(m) == m.type = "WebSocketConnectionState" /\ m.arg # "OTHER"

Tracked ==
  /\ \A i \in 1..Len(inbox) :
       IsReport(inbox[i]) => uuid /\ inbox[i].err = "none" /\ inbox[i].arg \in WsStates \ {"NONE"}
  /\ \A i \in 1..Len(inbox) :
       IsReport(inbox[i]) /\ (\A j \in 1..Len(inbox) : i < j => ~IsReport(inbox[j]))
         => inbox[i].arg = ws
  /\ (\A i \in 1..Len(inbox) : ~IsReport(inbox[i])) => (gc = "CONNECTED" <=> ws = "CONNECTED")

Tracking == phase = "live" /\ ~unfinished => Tracked

LEMMA TrackedStep ==
  ASSUME Typing, Unsubscribing, KnownThrough, Tracked, phase = "live", phase' = "live",
         [Next]_vars, ~unfinished'
  PROVE  Tracked'
<1> USE DEF pluginVars, accountVars, historyVars, daemonVars
<1>1. inbox \in Seq(Message)
  BY DEF Typing
\* The first message is read: if it is a report, it is taken over.
<1>2. ASSUME inbox # <<>>, inbox' = Tail(inbox), uuid => uuid', ws' = ws,
             IF IsReport(Head(inbox)) THEN gc' = "CONNECTED" <=> Head(inbox).arg = "CONNECTED"
                                      ELSE gc' = gc
      PROVE  Tracked'
  <2>1. /\ Len(inbox) \in Nat /\ Len(inbox) > 0 /\ 1 \in 1..Len(inbox) /\ Head(inbox) = inbox[1]
        /\ Len(inbox') = Len(inbox) - 1
        /\ \A i \in 1..Len(inbox') : i + 1 \in 1..Len(inbox) /\ inbox'[i] = inbox[i + 1]
    BY <1>1, <1>2
  <2>2. \A j \in 1..Len(inbox) : j = 1 \/ (j - 1 \in 1..Len(inbox') /\ inbox[j] = inbox'[j - 1])
    BY <1>1, <1>2, <2>1
  <2>3. ASSUME NEW i \in 1..Len(inbox'), IsReport(inbox'[i])
        PROVE  uuid' /\ inbox'[i].err = "none" /\ inbox'[i].arg \in WsStates \ {"NONE"}
    BY <1>2, <2>1, <2>3 DEF Tracked
  <2>4. ASSUME NEW i \in 1..Len(inbox'), IsReport(inbox'[i]),
               \A j \in 1..Len(inbox') : i < j => ~IsReport(inbox'[j])
        PROVE  inbox'[i].arg = ws'
    <3>1. i + 1 \in 1..Len(inbox) /\ IsReport(inbox[i + 1]) /\ inbox'[i] = inbox[i + 1]
      BY <2>1, <2>4
    <3>2. ASSUME NEW j \in 1..Len(inbox), i + 1 < j PROVE ~IsReport(inbox[j])
      <4>1. j - 1 \in 1..Len(inbox') /\ inbox[j] = inbox'[j - 1] /\ i < j - 1
        BY <2>1, <2>2, <3>2
      <4> QED
        BY <2>4, <4>1
    <3> QED
      BY <1>2, <3>1, <3>2 DEF Tracked
  <2>5. ASSUME \A i \in 1..Len(inbox') : ~IsReport(inbox'[i])
        PROVE  gc' = "CONNECTED" <=> ws' = "CONNECTED"
    <3>1. \A j \in 1..Len(inbox) : 1 < j => ~IsReport(inbox[j])
      BY <2>1, <2>2, <2>5
    <3>2. CASE IsReport(Head(inbox))
      <4>1. Head(inbox).arg = ws
        BY <2>1, <3>1, <3>2 DEF Tracked
      <4> QED
        BY <1>2, <3>2, <4>1
    <3>3. CASE ~IsReport(Head(inbox))
      <4>1. \A j \in 1..Len(inbox) : ~IsReport(inbox[j])
        BY <2>1, <2>2, <2>5, <3>3
      <4> QED
        BY <1>2, <3>3, <4>1 DEF Tracked
    <3> QED
      BY <3>2, <3>3
  <2> QED
    BY <2>3, <2>4, <2>5 DEF Tracked, IsReport
\* Nothing is read or written.
<1>3. ASSUME UNCHANGED <<inbox, gc, ws>>, uuid => uuid' PROVE Tracked'
  BY <1>3 DEF Tracked, IsReport
\* A message is written, and its report if the websocket changes.
<1>4. ASSUME NEW m \in Message, inbox' = Append(inbox, m), UNCHANGED <<gc, uuid>>,
             IF IsReport(m)
             THEN uuid /\ m.err = "none" /\ m.arg = ws' /\ ws' \in WsStates \ {"NONE"}
             ELSE ws' = ws
      PROVE  Tracked'
  <2>1. /\ Len(inbox) \in Nat /\ Len(inbox') = Len(inbox) + 1 /\ inbox'[Len(inbox')] = m
        /\ \A i \in 1..Len(inbox) : inbox'[i] = inbox[i]
    BY <1>1, <1>4
  <2>2. \A i \in 1..Len(inbox') : i = Len(inbox') \/ i \in 1..Len(inbox)
    BY <2>1
  <2>3. ASSUME NEW i \in 1..Len(inbox'), IsReport(inbox'[i])
        PROVE  uuid' /\ inbox'[i].err = "none" /\ inbox'[i].arg \in WsStates \ {"NONE"}
    BY <1>4, <2>1, <2>2, <2>3 DEF Tracked
  <2>4. ASSUME NEW i \in 1..Len(inbox'), IsReport(inbox'[i]),
               \A j \in 1..Len(inbox') : i < j => ~IsReport(inbox'[j])
        PROVE  inbox'[i].arg = ws'
    <3>1. CASE i = Len(inbox')
      BY <1>4, <2>1, <2>4, <3>1
    <3>2. CASE i \in 1..Len(inbox) /\ i # Len(inbox')
      <4>1. ~IsReport(m) /\ IsReport(inbox[i])
        BY <2>1, <2>4, <3>2
      <4>2. \A j \in 1..Len(inbox) : i < j => ~IsReport(inbox[j])
        BY <2>1, <2>4
      <4> QED
        BY <1>4, <2>1, <3>2, <4>1, <4>2 DEF Tracked
    <3> QED
      BY <2>2, <3>1, <3>2
  <2>5. ASSUME \A i \in 1..Len(inbox') : ~IsReport(inbox'[i])
        PROVE  gc' = "CONNECTED" <=> ws' = "CONNECTED"
    <3>1. ~IsReport(m) /\ \A i \in 1..Len(inbox) : ~IsReport(inbox[i])
      BY <2>1, <2>5
    <3> QED
      BY <1>4, <3>1 DEF Tracked
  <2> QED
    BY <2>3, <2>4, <2>5 DEF Tracked, IsReport
<1>5. ASSUME HandleInput PROVE Tracked'
  <2> USE DEF Receiving, Handle
  <2>1. ASSUME inbox # <<>> PROVE Head(inbox) = inbox[1] /\ 1 \in 1..Len(inbox)
    BY <1>1, <2>1, TailMembers
  <2>2. CASE Receiving /\ OnError
    <3>1. ~IsReport(Head(inbox))
      BY <2>1, <2>2 DEF OnError, Tracked
    <3> QED
      BY <2>2, <3>1, <1>2 DEF OnError
  <2>3. CASE Receiving /\ (OnVersion \/ OnSubscribe \/ OnRequestSync \/ OnListContacts \/ OnListGroups)
    BY <2>3, <1>2 DEF OnVersion, OnSubscribe, OnRequestSync, OnListContacts, OnListGroups, IsReport
  <2>4. CASE Receiving /\ OnListAccounts
    BY <2>4, <1>2 DEF OnListAccounts, IsReport
  <2>5. CASE Receiving /\ OnUnsubscribe
    BY <2>1, <2>5 DEF OnUnsubscribe, Unsubscribing
  <2>6. CASE Receiving /\ OnLinkingUri
    <3>1. /\ ~IsReport(Head(inbox)) /\ inbox # <<>> /\ inbox' = Tail(inbox)
          /\ UNCHANGED <<gc, uuid, ws>>
      BY <2>6 DEF OnLinkingUri, IsReport
    <3> QED
      BY <3>1, <1>2
  <2>11. CASE Receiving /\ (OnIncoming \/ OnInternalError)
    <3>1. /\ ~IsReport(Head(inbox)) /\ inbox # <<>> /\ inbox' = Tail(inbox)
          /\ UNCHANGED <<gc, uuid, ws>>
      BY <2>11 DEF OnIncoming, OnInternalError, IsReport
    <3> QED
      BY <3>1, <1>2
  <2>10. CASE Receiving /\ OnIgnored
    <3>1. ~IsReport(Head(inbox))
      BY <2>10 DEF OnIgnored, IsReport
    <3> QED
      BY <2>10, <3>1, <1>2 DEF OnIgnored
  <2>7. CASE Receiving /\ OnFinishLink
    BY <2>7, <1>2 DEF OnFinishLink, IsReport
  <2>8. CASE Receiving /\ OnWebSocketState
    <3>1. CASE Head(inbox).arg = "OTHER"
      BY <2>8, <3>1, <1>2 DEF OnWebSocketState, IsReport
    <3>2. CASE Head(inbox).arg # "OTHER"
      <4>1. uuid /\ IsReport(Head(inbox)) /\ Head(inbox).arg \in WsStates \ {"NONE"}
        BY <2>1, <2>8, <3>2 DEF OnWebSocketState, Tracked, IsReport
      <4>2. gc' = "CONNECTED" <=> Head(inbox).arg = "CONNECTED"
        BY <2>8, <4>1 DEF OnWebSocketState, WsStates
      <4> QED
        BY <2>8, <4>1, <4>2, <1>2 DEF OnWebSocketState
    <3> QED
      BY <3>1, <3>2
  <2>9. CASE OnEof
    BY <2>9, <1>3 DEF OnEof
  <2> QED
    BY <1>5, <2>2, <2>3, <2>4, <2>5, <2>6, <2>7, <2>8, <2>9, <2>10, <2>11 DEF HandleInput
<1>6. ASSUME User \/ ReceiptsTimer PROVE Tracked'
  BY <1>6, <1>3 DEF User, QrDone, QrCancel, VerifyOk, VerifyCancel, Update, ReceiptsTimer
<1>7. ~Close /\ ~Closing
  BY DEF Close, CloseUnsubscribing, CloseAtOnce, Free, Closing, CloseRead, CloseEnd
<1>8. ASSUME NEW t \in RequestTypes, Answer(t) PROVE Tracked'
  <2>1. PICK e \in Errors, a \in Arguments, sid \in Nat : inbox' = Append(inbox, Msg(t, e, a, sid))
    BY <1>8, AnswerWrites
  <2>2. Msg(t, e, a, sid) \in Message /\ ~IsReport(Msg(t, e, a, sid))
    BY DEF Msg, Message, IsReport, RequestTypes
  <2>3. ~AnswerUnsubscribe
    BY DEF AnswerUnsubscribe, Answered, Unsubscribing
  <2>4. UNCHANGED <<gc, uuid, ws>>
    BY <1>8, <2>3 DEF Answer, AnswerPlain, AnswerListAccounts, AnswerListContacts, AnswerLinkingUri, AnswerFinishLink,
       AnswerRegister, AnswerError
  <2> QED
    BY <2>1, <2>2, <2>4, <1>4
<1>9. ASSUME NEW state \in WsStates \ {"NONE"}, Report(state) PROVE Tracked'
  <2> DEFINE m == Msg("WebSocketConnectionState", "none", state, 0)
  <2>1. m \in Message /\ m.err = "none" /\ m.arg = state
    BY DEF Msg, Message, EventTypes, Errors, Arguments
  <2>2. uuid
    BY <1>9 DEF Report, Serving, KnownThrough
  <2>3. inbox' = Append(inbox, m) /\ ws' = state /\ UNCHANGED <<gc, uuid>>
    BY <1>9 DEF Report, Write
  <2>4. IsReport(m)
    BY DEF Msg, IsReport, WsStates
  <2> HIDE DEF m
  <2> QED
    BY <2>1, <2>2, <2>3, <2>4, <1>4
<1>10. ASSUME Forward PROVE Tracked'
  <2> DEFINE m == Msg("IncomingMessage", "none", "none", 0)
  <2>1. m \in Message /\ ~IsReport(m)
    BY DEF Msg, Message, EventTypes, Errors, Arguments, IsReport
  <2> QED
    BY <1>10, <2>1, <1>4 DEF Forward, Write
<1>14. ASSUME WsOther PROVE Tracked'
  <2> DEFINE m == Msg("WebSocketConnectionState", "none", "OTHER", 0)
  <2>1. m \in Message /\ ~IsReport(m)
    BY DEF Msg, Message, EventTypes, Errors, Arguments, IsReport
  <2> QED
    BY <1>14, <2>1, <1>4 DEF WsOther, Write
<1>11. ASSUME ReportInternalError PROVE Tracked'
  <2>1. PICK a \in {"ignored", "fatal"} : inbox' = Append(inbox, Msg("InternalError", "none", a, 0))
    BY <1>11 DEF ReportInternalError, Write
  <2>2. Msg("InternalError", "none", a, 0) \in Message /\ ~IsReport(Msg("InternalError", "none", a, 0))
    BY DEF Msg, Message, EventTypes, Errors, Arguments, IsReport
  <2>3. UNCHANGED <<gc, uuid, ws>>
    BY <1>11 DEF ReportInternalError
  <2> QED
    BY <2>1, <2>2, <2>3, <1>4
<1>12. ASSUME Signald PROVE Tracked'
  BY <1>12, <1>8, <1>9, <1>10, <1>11, <1>14, <1>3 DEF Signald, Answering, Asked, WsUp, WsDown, WsStates, Hangup
<1>13. CASE UNCHANGED vars
  BY <1>13, <1>3 DEF vars
<1> QED
  BY <1>5, <1>6, <1>7, <1>12, <1>13 DEF Next, Terminated

LEMMA TrackingStep ==
  ASSUME Typing, Unsubscribing, Known, Tracking, [Next]_vars PROVE Tracking'
<1> SUFFICES ASSUME phase' = "live", ~unfinished' PROVE Tracked'
  BY DEF Tracking
<1>1. ~unfinished
  BY UnfinishedStays
<1>2. phase = "live"
  <2> USE DEF pluginVars
  <2>1. CASE HandleInput
    BY <2>1 DEF HandleInput, OnError, OnVersion, OnListAccounts, OnSubscribe, OnUnsubscribe,
       OnRequestSync, OnListContacts, OnListGroups, OnLinkingUri, OnFinishLink, OnWebSocketState,
       OnIncoming, OnInternalError, OnIgnored, OnEof
  <2>2. CASE User \/ ReceiptsTimer
    BY <2>2 DEF User, QrDone, QrCancel, VerifyOk, VerifyCancel, Update, ReceiptsTimer
  <2>3. CASE Close \/ Closing
    BY <2>3 DEF Close, CloseUnsubscribing, CloseAtOnce, Closing, CloseRead, CloseEnd, Free
  <2>4. CASE Signald
    BY <2>4 DEF Signald, Answering, Asked, Answer, AnswerPlain, AnswerListAccounts, AnswerListContacts, AnswerUnsubscribe,
       AnswerLinkingUri, AnswerFinishLink, AnswerRegister, AnswerError, WsUp, WsDown, Report,
       Forward, WsOther, ReportInternalError, Hangup
  <2>5. CASE UNCHANGED vars
    BY <2>5 DEF vars
  <2> QED
    BY <2>1, <2>2, <2>3, <2>4, <2>5 DEF Next, Terminated
<1> QED
  BY <1>1, <1>2, TrackedStep DEF Known, Tracking

\* Whatever order answers and reports arrive in, and however many are on their way, the
\* connection is shown as connected exactly if the last state of its own that signald
\* reported by a name that input.c knows was CONNECTED; a report of another state changes
\* nothing.  (Unless a report is still to be read, or no address came with finish_link.)
THEOREM StateIsTracked == Spec => []GcTracksWebSocket
<1>1. Init => Tracking
  <2> SUFFICES ASSUME Init PROVE Tracked
    BY DEF Tracking
  <2>1. inbox = <<Msg("version", "none", "none", 0)>>
    BY DEF Init
  <2>2. Len(inbox) = 1 /\ ~IsReport(inbox[1])
    BY <2>1 DEF Msg, IsReport
  <2> QED
    BY <2>2 DEF Init, Tracked
<1>2. Typing /\ Unsubscribing /\ Known /\ Tracking /\ [Next]_vars => Tracking'
  BY TrackingStep
<1>3. Tracking => GcTracksWebSocket
  <2> SUFFICES ASSUME Tracking, phase = "live", Reports = {}, ~unfinished
               PROVE  gc = "CONNECTED" <=> ws = "CONNECTED"
    BY DEF GcTracksWebSocket
  <2>1. \A i \in 1..Len(inbox) : ~IsReport(inbox[i])
    BY DEF Reports, IsReport
  <2> QED
    BY <2>1 DEF Tracking, Tracked
<1> QED
  BY <1>1, <1>2, <1>3, TypingInvariant, KnownInvariant, PTL DEF Spec

(***************************************************************************)
(* The linking session.  Until signald reports an error, one code is asked *)
(* for at most: the greeting leads to one list of accounts, which leads to *)
(* one request for a code.  A second code needs an error first.            *)
(***************************************************************************)

\* The messages that lead to the request for a code.
IsEntry(m) == m.type \in {"version", "list_accounts"}
Entering == \E i \in 1..Len(inbox) : IsEntry(inbox[i])

OneCode ==
  /\ \A i, j \in 1..Len(inbox) : IsEntry(inbox[i]) /\ IsEntry(inbox[j]) => i = j
  /\ Entering => asked["list_accounts"] = 0
  /\ Entering \/ asked["list_accounts"] > 0 => asked["generate_linking_uri"] = 0 /\ sessions = 0
  /\ asked["list_accounts"] <= 1
  /\ asked["generate_linking_uri"] + sessions <= 1

FirstSession(m) == m.type = "generate_linking_uri" => m.sid = 1
NoError ==
  /\ ~hungup
  /\ \A i \in 1..Len(inbox) : inbox[i].err = "none" /\ FirstSession(inbox[i])

\* The socket's part in this, and the plugin's.
Undisturbed == OneCode /\ NoError
CodeShown == \A d \in dialogs : d.kind = "qr" => d.sid = 1 /\ session_id = 1

Linking == faults = 0 => LinksScannedCode /\ (phase # "closed" => Undisturbed /\ CodeShown)

\* A message is read; if it leads to a code, a request may follow.
LEMMA UndisturbedRead ==
  ASSUME Typing, Undisturbed, inbox # <<>>, inbox' = Tail(inbox), UNCHANGED <<sessions, hungup>>,
         asked' \in [RequestTypes -> Nat],
         \/ /\ asked'["list_accounts"] = asked["list_accounts"]
            /\ asked'["generate_linking_uri"] = asked["generate_linking_uri"]
         \/ /\ IsEntry(Head(inbox))
            /\ \/ asked'["list_accounts"] <= 1 /\ asked'["generate_linking_uri"] = 0
               \/ asked'["list_accounts"] = 0 /\ asked'["generate_linking_uri"] <= 1
  PROVE  Undisturbed'
<1>1. /\ Len(inbox) \in Nat /\ 1 \in 1..Len(inbox) /\ Head(inbox) = inbox[1]
      /\ \A i \in 1..Len(inbox') : i + 1 \in 1..Len(inbox) /\ i + 1 # 1 /\ inbox'[i] = inbox[i + 1]
  <2>1. inbox \in Seq(Message)
    BY DEF Typing
  <2> QED
    BY <2>1, TailMembers
<1>2. NoError'
  BY <1>1 DEF Undisturbed, NoError, FirstSession
<1>3. \A i, j \in 1..Len(inbox') : IsEntry(inbox'[i]) /\ IsEntry(inbox'[j]) => i = j
  <2> SUFFICES ASSUME NEW i \in 1..Len(inbox'), NEW j \in 1..Len(inbox'),
                      IsEntry(inbox'[i]), IsEntry(inbox'[j])
               PROVE  i = j
    OBVIOUS
  <2>1. i + 1 = j + 1
    BY <1>1 DEF Undisturbed, OneCode
  <2> QED
    BY <2>1
<1>4. Entering' => Entering /\ ~IsEntry(Head(inbox))
  <2> SUFFICES ASSUME NEW i \in 1..Len(inbox'), IsEntry(inbox'[i])
               PROVE  Entering /\ ~IsEntry(Head(inbox))
    BY DEF Entering, IsEntry
  <2> QED
    BY <1>1 DEF Undisturbed, OneCode, Entering
<1>5. IsEntry(Head(inbox)) => Entering
  BY <1>1 DEF Entering
<1>6. sessions \in Nat /\ asked["list_accounts"] \in Nat /\ asked["generate_linking_uri"] \in Nat
      /\ asked'["list_accounts"] \in Nat /\ asked'["generate_linking_uri"] \in Nat
  BY DEF Typing, RequestTypes
<1>7. OneCode'
  <2>1. CASE /\ asked'["list_accounts"] = asked["list_accounts"]
             /\ asked'["generate_linking_uri"] = asked["generate_linking_uri"]
    BY <1>3, <1>4, <1>6, <2>1 DEF Undisturbed, OneCode, IsEntry
  <2>2. CASE /\ IsEntry(Head(inbox))
             /\ \/ asked'["list_accounts"] <= 1 /\ asked'["generate_linking_uri"] = 0
                \/ asked'["list_accounts"] = 0 /\ asked'["generate_linking_uri"] <= 1
    BY <1>3, <1>4, <1>5, <1>6, <2>2 DEF Undisturbed, OneCode, IsEntry
  <2> QED
    BY <2>1, <2>2
<1> QED
  BY <1>2, <1>7 DEF Undisturbed

\* A message is written, for a request if it leads to a code or contains one.
LEMMA UndisturbedWritten ==
  ASSUME Typing, Undisturbed, NEW m \in Message, inbox' = Append(inbox, m), m.err = "none",
         hungup' = hungup,
         \/ /\ ~IsEntry(m) /\ m.type # "generate_linking_uri" /\ sessions' = sessions
            /\ asked'["list_accounts"] = asked["list_accounts"]
            /\ asked'["generate_linking_uri"] = asked["generate_linking_uri"]
         \/ /\ m.type = "list_accounts" /\ sessions' = sessions
            /\ asked["list_accounts"] > 0 /\ asked'["list_accounts"] = asked["list_accounts"] - 1
            /\ asked'["generate_linking_uri"] = asked["generate_linking_uri"]
         \/ /\ m.type = "generate_linking_uri" /\ sessions' = sessions + 1 /\ m.sid = sessions'
            /\ asked'["list_accounts"] = asked["list_accounts"]
            /\ asked["generate_linking_uri"] > 0
            /\ asked'["generate_linking_uri"] = asked["generate_linking_uri"] - 1
  PROVE  Undisturbed'
<1>1. /\ Len(inbox) \in Nat /\ Len(inbox') = Len(inbox) + 1 /\ inbox'[Len(inbox')] = m
      /\ \A i \in 1..Len(inbox) : inbox'[i] = inbox[i]
      /\ \A i \in 1..Len(inbox') : i = Len(inbox') \/ i \in 1..Len(inbox)
  <2>1. inbox \in Seq(Message)
    BY DEF Typing
  <2> QED
    BY <2>1
<1>2. sessions \in Nat /\ asked["list_accounts"] \in Nat /\ asked["generate_linking_uri"] \in Nat
  BY DEF Typing, RequestTypes
<1>3. m.type = "generate_linking_uri" => m.sid = 1
  BY <1>2 DEF Undisturbed, OneCode, IsEntry
<1>4. NoError'
  BY <1>1, <1>3 DEF Undisturbed, NoError, FirstSession
<1>5. Entering' => Entering \/ IsEntry(m)
  BY <1>1 DEF Entering, IsEntry
<1>6. IsEntry(m) => m.type = "list_accounts" /\ asked["list_accounts"] > 0 /\ ~Entering
  <2>1. Entering => asked["list_accounts"] = 0
    BY DEF Undisturbed, OneCode
  <2> SUFFICES ASSUME IsEntry(m) PROVE m.type = "list_accounts" /\ asked["list_accounts"] > 0
    BY <1>2, <2>1
  <2> QED
    BY DEF IsEntry
<1>7. \A i, j \in 1..Len(inbox') : IsEntry(inbox'[i]) /\ IsEntry(inbox'[j]) => i = j
  <2> SUFFICES ASSUME NEW i \in 1..Len(inbox'), NEW j \in 1..Len(inbox'),
                      IsEntry(inbox'[i]), IsEntry(inbox'[j])
               PROVE  i = j
    OBVIOUS
  <2>1. CASE i \in 1..Len(inbox) /\ j \in 1..Len(inbox)
    BY <1>1, <2>1 DEF Undisturbed, OneCode
  <2>2. CASE i = Len(inbox') \/ j = Len(inbox')
    <3>1. IsEntry(m)
      BY <1>1, <2>2
    <3>2. i \notin 1..Len(inbox) /\ j \notin 1..Len(inbox)
      BY <1>1, <1>6, <3>1 DEF Entering
    <3> QED
      BY <1>1, <3>2
  <2> QED
    BY <1>1, <2>1, <2>2
<1>9. asked["list_accounts"] <= 1
  BY DEF Undisturbed, OneCode
<1>8. OneCode'
  <2>1. CASE /\ ~IsEntry(m) /\ m.type # "generate_linking_uri" /\ sessions' = sessions
             /\ asked'["list_accounts"] = asked["list_accounts"]
             /\ asked'["generate_linking_uri"] = asked["generate_linking_uri"]
    BY <1>2, <1>5, <1>7, <2>1 DEF Undisturbed, OneCode, IsEntry
  <2>2. CASE /\ m.type = "list_accounts" /\ sessions' = sessions
             /\ asked["list_accounts"] > 0 /\ asked'["list_accounts"] = asked["list_accounts"] - 1
             /\ asked'["generate_linking_uri"] = asked["generate_linking_uri"]
    <3>1. asked["list_accounts"] = 1
      BY <1>2, <1>9, <2>2
    <3>2. asked'["list_accounts"] = 0
      BY <2>2, <3>1
    <3>3. asked'["generate_linking_uri"] = 0 /\ sessions' = 0
      BY <2>2 DEF Undisturbed, OneCode
    <3> QED
      BY <1>7, <3>2, <3>3 DEF OneCode, IsEntry
  <2>3. CASE /\ m.type = "generate_linking_uri" /\ sessions' = sessions + 1 /\ m.sid = sessions'
             /\ asked'["list_accounts"] = asked["list_accounts"]
             /\ asked["generate_linking_uri"] > 0
             /\ asked'["generate_linking_uri"] = asked["generate_linking_uri"] - 1
    <3>1. /\ ~Entering /\ asked["list_accounts"] = 0
          /\ asked["generate_linking_uri"] = 1 /\ sessions = 0
      BY <1>2, <2>3 DEF Undisturbed, OneCode
    <3>2. ~IsEntry(m)
      BY <2>3 DEF IsEntry
    <3> QED
      BY <1>5, <1>7, <2>3, <3>1, <3>2 DEF OneCode, IsEntry
  <2> QED
    BY <2>1, <2>2, <2>3
<1> QED
  BY <1>4, <1>8 DEF Undisturbed

LEMMA UndisturbedStays ==
  ASSUME Undisturbed, UNCHANGED <<inbox, sessions, hungup>>,
         asked'["list_accounts"] = asked["list_accounts"],
         asked'["generate_linking_uri"] = asked["generate_linking_uri"]
  PROVE  Undisturbed'
BY DEF Undisturbed, OneCode, NoError, Entering, IsEntry, FirstSession

\* What is sent is counted: nothing gets lost before signald hangs up.
LEMMA SentCounted ==
  ASSUME Typing, NEW types, Send(types)
  PROVE  /\ asked' \in [RequestTypes -> Nat]
         /\ \A t \in {"list_accounts", "generate_linking_uri"} :
              /\ t \notin types => asked'[t] = asked[t]
              /\ asked'[t] <= asked[t] + 1
<1>1. asked \in [RequestTypes -> Nat]
  BY DEF Typing
<1>2. asked' \in [RequestTypes -> Nat]
  BY <1>1, RequestTyped
<1>3. ASSUME NEW t \in RequestTypes
      PROVE  (t \notin types => asked'[t] = asked[t]) /\ asked'[t] <= asked[t] + 1
  BY <1>1, <1>3 DEF Send
<1> QED
  BY <1>2, <1>3 DEF RequestTypes

LEMMA FaultsGrow ==
  ASSUME [Next]_vars
  PROVE  faults' = faults \/ faults' = faults + 1
<1> USE DEF daemonVars
<1>1. CASE HandleInput
  BY <1>1 DEF HandleInput, OnError, OnVersion, OnListAccounts, OnSubscribe, OnUnsubscribe,
     OnRequestSync, OnListContacts, OnListGroups, OnLinkingUri, OnFinishLink, OnWebSocketState,
     OnIncoming, OnInternalError, OnIgnored, OnEof
<1>2. CASE User \/ ReceiptsTimer
  BY <1>2 DEF User, QrDone, QrCancel, VerifyOk, VerifyCancel, Update, ReceiptsTimer
<1>3. CASE Close \/ Closing
  BY <1>3 DEF Close, CloseUnsubscribing, CloseAtOnce, Closing, CloseRead, CloseEnd, Free
<1>4. CASE Signald
  BY <1>4 DEF Signald, Answering, Asked, Answer, AnswerPlain, AnswerListAccounts, AnswerListContacts, AnswerUnsubscribe, AnswerLinkingUri,
     AnswerFinishLink, AnswerRegister, AnswerError, WsUp, WsDown, Report, Forward, WsOther,
     ReportInternalError, Hangup, Fault
<1>5. CASE UNCHANGED vars
  BY <1>5 DEF vars
<1> QED
  BY <1>1, <1>2, <1>3, <1>4, <1>5 DEF Next, Terminated

\* Nothing happens to an account that is closed.
LEMMA ClosedStays ==
  ASSUME [Next]_vars, phase = "closed"
  PROVE  UNCHANGED <<phase, mislinked>>
<1>1. ~HandleInput
  BY DEF HandleInput, OnError, OnVersion, OnListAccounts, OnSubscribe, OnUnsubscribe,
     OnRequestSync, OnListContacts, OnListGroups, OnLinkingUri, OnFinishLink, OnWebSocketState,
     OnIncoming, OnInternalError, OnIgnored, OnEof, Handle, Receiving
<1>2. ~User /\ ~ReceiptsTimer /\ ~Close /\ ~Closing
  BY DEF User, QrDone, QrCancel, VerifyOk, VerifyCancel, Update, ReceiptsTimer,
     Close, CloseUnsubscribing, CloseAtOnce, Closing, CloseRead, CloseEnd
<1>3. ~Signald
  BY DEF Signald, Answering, Asked, Answer, AnswerPlain, AnswerListAccounts, AnswerListContacts, AnswerUnsubscribe, AnswerLinkingUri,
     AnswerFinishLink, AnswerRegister, AnswerError, WsUp, WsDown, Report, Forward, WsOther,
     ReportInternalError, Hangup, Write, CanWrite, Connected
<1> QED
  BY <1>1, <1>2, <1>3 DEF Next, Terminated, vars, pluginVars, historyVars

LEMMA LinkingStep ==
  ASSUME Typing, Linking, [Next]_vars
  PROVE  Linking'
<1> USE DEF pluginVars, accountVars, historyVars, daemonVars, NoRequest, Request
<1> DEFINE Good == ~mislinked /\ (phase # "closed" => Undisturbed /\ CodeShown)
<1> SUFFICES ASSUME faults' = 0 PROVE Good'
  BY DEF Linking, LinksScannedCode
<1>1. faults = 0 /\ ~mislinked
  BY FaultsGrow DEF Typing, Linking, LinksScannedCode
<1>2. CASE phase = "closed"
  BY <1>1, <1>2, ClosedStays
<1> SUFFICES ASSUME phase # "closed" PROVE Good'
  BY <1>2
<1>3. Undisturbed /\ CodeShown
  BY <1>1 DEF Linking
<1>4. ASSUME Undisturbed', dialogs' \subseteq dialogs, UNCHANGED <<session_id, mislinked>>
      PROVE  Good'
  BY <1>1, <1>3, <1>4 DEF CodeShown
<1>5. ASSUME inbox # <<>>
      PROVE  /\ Head(inbox) = inbox[1] /\ 1 \in 1..Len(inbox) /\ Head(inbox).err = "none"
             /\ FirstSession(Head(inbox)) /\ (IsEntry(Head(inbox)) => Entering)
  <2>1. Head(inbox) = inbox[1] /\ 1 \in 1..Len(inbox)
    BY <1>5, TailMembers DEF Typing
  <2> QED
    BY <1>3, <2>1 DEF Undisturbed, NoError, Entering
\* Handlers.
<1>6. ASSUME inbox # <<>>, inbox' = Tail(inbox), UNCHANGED <<sessions, hungup, session_id, mislinked>>,
             dialogs' \subseteq dialogs,
             \/ asked' = asked
             \/ \E types : /\ Send(types)
                           /\ types \intersect {"list_accounts", "generate_linking_uri"} = {}
      PROVE  Good'
  <2>1. /\ asked' \in [RequestTypes -> Nat]
        /\ asked'["list_accounts"] = asked["list_accounts"]
        /\ asked'["generate_linking_uri"] = asked["generate_linking_uri"]
    <3>1. CASE asked' = asked
      BY <3>1 DEF Typing
    <3>2. CASE asked' # asked
      <4>1. PICK types : Send(types) /\ types \intersect {"list_accounts", "generate_linking_uri"} = {}
        BY <1>6, <3>2
      <4> QED
        BY <4>1, SentCounted
    <3> QED
      BY <3>1, <3>2
  <2> QED
    BY <1>3, <1>4, <1>6, <2>1, UndisturbedRead
<1>7. CASE HandleInput
  <2> USE DEF Receiving, Handle
  <2>1. ~(Receiving /\ OnError)
    BY <1>5 DEF OnError
  <2>2. CASE Receiving /\ OnVersion
    <3>1. Head(inbox).type = "version" /\ inbox # <<>> /\ inbox' = Tail(inbox) /\ Send({"list_accounts"})
          /\ UNCHANGED <<sessions, hungup, session_id, mislinked, dialogs>>
      BY <2>2 DEF OnVersion
    <3>2. IsEntry(Head(inbox)) /\ asked["list_accounts"] = 0 /\ asked["generate_linking_uri"] = 0
      BY <1>3, <1>5, <3>1 DEF IsEntry, Undisturbed, OneCode
    <3>3. /\ asked' \in [RequestTypes -> Nat]
          /\ asked'["list_accounts"] <= 1 /\ asked'["generate_linking_uri"] = 0
      BY <3>1, <3>2, SentCounted
    <3>4. Undisturbed'
      BY <1>3, <3>1, <3>2, <3>3, UndisturbedRead
    <3> QED
      BY <1>4, <3>1, <3>4
  <2>3. CASE Receiving /\ OnListAccounts
    <3>1. PICK types \in {{"subscribe"}, {"generate_linking_uri"}, {"register"}} : Send(types)
      BY <2>3 DEF OnListAccounts, LinkOrRegister
    <3>2. Head(inbox).type = "list_accounts" /\ inbox # <<>> /\ inbox' = Tail(inbox)
          /\ UNCHANGED <<sessions, hungup, session_id, mislinked>>
          /\ dialogs' \subseteq dialogs \union {VerifyDialog}
      BY <2>3 DEF OnListAccounts, LinkOrRegister
    <3>3. IsEntry(Head(inbox)) /\ asked["list_accounts"] = 0 /\ asked["generate_linking_uri"] = 0
      BY <1>3, <1>5, <3>2 DEF IsEntry, Undisturbed, OneCode
    <3>4. /\ asked' \in [RequestTypes -> Nat]
          /\ asked'["list_accounts"] = 0 /\ asked'["generate_linking_uri"] <= 1
      BY <3>1, <3>3, SentCounted
    <3>5. Undisturbed'
      BY <1>3, <3>2, <3>3, <3>4, UndisturbedRead
    <3>6. CodeShown'
      BY <1>3, <3>2 DEF CodeShown, VerifyDialog
    <3> QED
      BY <1>1, <3>2, <3>5, <3>6
  <2>4. CASE Receiving /\ OnSubscribe
    <3>1. asked' = asked \/ Send({"request_sync"})
      BY <2>4 DEF OnSubscribe
    <3>2. {"request_sync"} \intersect {"list_accounts", "generate_linking_uri"} = {}
      OBVIOUS
    <3> QED
      BY <2>4, <3>1, <3>2, <1>6 DEF OnSubscribe
  <2>5. CASE Receiving /\ OnRequestSync
    <3>1. asked' = asked \/ Send({"list_contacts", "list_groups"})
      BY <2>5 DEF OnRequestSync
    <3>2. {"list_contacts", "list_groups"} \intersect {"list_accounts", "generate_linking_uri"} = {}
      OBVIOUS
    <3> QED
      BY <2>5, <3>1, <3>2, <1>6 DEF OnRequestSync
  <2>6. CASE Receiving /\ (OnUnsubscribe \/ OnListContacts \/ OnListGroups)
    BY <2>6, <1>6 DEF OnUnsubscribe, OnListContacts, OnListGroups
  <2>7. CASE Receiving /\ OnLinkingUri
    <3>1. /\ inbox # <<>> /\ inbox' = Tail(inbox) /\ asked' = asked
          /\ UNCHANGED <<sessions, hungup, mislinked>> /\ session_id' = Head(inbox).sid
          /\ dialogs' \subseteq dialogs \union {QrDialog(Head(inbox).sid)}
          /\ Head(inbox).type = "generate_linking_uri"
      BY <2>7 DEF OnLinkingUri
    <3>2. Head(inbox).sid = 1
      BY <1>5, <3>1 DEF FirstSession
    <3>3. Undisturbed'
      BY <1>3, <3>1, UndisturbedRead DEF Typing
    <3>4. CodeShown'
      BY <1>3, <3>1, <3>2 DEF CodeShown, QrDialog
    <3> QED
      BY <1>1, <3>1, <3>3, <3>4
  <2>8. CASE Receiving /\ OnFinishLink
    <3> DEFINE types == {"subscribe"} \union IF uuid' THEN {"set_device_name"} ELSE {}
    <3>1. /\ inbox # <<>> /\ inbox' = Tail(inbox) /\ Send(types)
          /\ UNCHANGED <<sessions, hungup, mislinked, session_id, dialogs>>
      BY <2>8 DEF OnFinishLink
    <3>2. types \intersect {"list_accounts", "generate_linking_uri"} = {}
      OBVIOUS
    <3> HIDE DEF types
    <3> QED
      BY <1>6, <3>1, <3>2
  <2>9. CASE Receiving /\ (OnWebSocketState \/ OnIncoming)
    BY <2>9, <1>6 DEF OnWebSocketState, OnIncoming
  <2>10. CASE Receiving /\ (OnInternalError \/ OnIgnored)
    BY <2>10, <1>6 DEF OnInternalError, OnIgnored
  <2>11. ~OnEof
    BY <1>3 DEF OnEof, Undisturbed, NoError
  <2> QED
    BY <1>7, <2>1, <2>2, <2>3, <2>4, <2>5, <2>6, <2>7, <2>8, <2>9, <2>10, <2>11 DEF HandleInput
\* The user, the timer and signald_close.
<1>8. ASSUME UNCHANGED <<inbox, sessions, hungup, session_id>>, dialogs' \subseteq dialogs,
             ~mislinked',
             \/ asked' = asked
             \/ \E t \in RequestTypes \ {"list_accounts", "generate_linking_uri"} : Send({t})
      PROVE  Good'
  <2>1. /\ asked'["list_accounts"] = asked["list_accounts"]
        /\ asked'["generate_linking_uri"] = asked["generate_linking_uri"]
    <3>1. CASE asked' # asked
      <4>1. PICK t \in RequestTypes \ {"list_accounts", "generate_linking_uri"} : Send({t})
        BY <1>8, <3>1
      <4> QED
        BY <4>1, SentCounted
    <3> QED
      BY <3>1
  <2>2. Undisturbed'
    BY <1>3, <1>8, <2>1, UndisturbedStays
  <2> QED
    BY <1>3, <1>8, <2>2 DEF CodeShown
<1>9. CASE User
  <2>1. ASSUME NEW d \in dialogs, QrDone(d) PROVE Good'
    <3>1. ~mislinked'
      BY <1>1, <1>3, <2>1 DEF QrDone, CodeShown
    <3> QED
      BY <1>8, <2>1, <3>1 DEF QrDone, RequestTypes
  <2>2. ASSUME NEW d \in dialogs, QrCancel(d) \/ VerifyCancel(d) PROVE Good'
    BY <1>1, <1>8, <2>2 DEF QrCancel, VerifyCancel
  <2>3. ASSUME NEW d \in dialogs, VerifyOk(d) PROVE Good'
    BY <1>1, <1>8, <2>3 DEF VerifyOk, RequestTypes
  <2>4. ASSUME NEW t \in {"list_contacts", "list_groups"}, Update(t) PROVE Good'
    BY <1>1, <1>8, <2>4 DEF Update, RequestTypes
  <2> QED
    BY <1>9, <2>1, <2>2, <2>3, <2>4 DEF User
<1>10. CASE ReceiptsTimer
  BY <1>1, <1>8, <1>10 DEF ReceiptsTimer, RequestTypes
<1>11. CASE Close \/ Closing
  <2>1. CASE CloseUnsubscribing
    BY <1>1, <1>8, <2>1 DEF CloseUnsubscribing, RequestTypes
  <2>2. CASE CloseRead
    BY <1>1, <1>8, <2>2 DEF CloseRead
  <2>3. CASE Free
    BY <1>1, <2>3 DEF Free
  <2> QED
    BY <1>11, <2>1, <2>2, <2>3 DEF Close, Closing, CloseAtOnce, CloseEnd
\* signald: an error would be counted.
<1>12. ASSUME NEW m \in Message, inbox' = Append(inbox, m), m.err = "none", ~IsEntry(m),
              m.type # "generate_linking_uri",
              UNCHANGED <<sessions, hungup, session_id, mislinked, dialogs>>,
              asked' = asked \/ (\E t \in RequestTypes \ {"list_accounts", "generate_linking_uri"} : Answered(t))
       PROVE  Good'
  <2>1. /\ asked'["list_accounts"] = asked["list_accounts"]
        /\ asked'["generate_linking_uri"] = asked["generate_linking_uri"]
    BY <1>12 DEF Answered, Typing, RequestTypes
  <2>2. Undisturbed'
    BY <1>3, <1>12, <2>1, UndisturbedWritten
  <2> QED
    BY <1>4, <1>12, <2>2
<1>13. CASE Signald
  <2> USE DEF Write
  <2>1. \A t \in RequestTypes, a \in Arguments : Msg(t, "none", a, 0) \in Message
    BY DEF Msg, Message, Errors
  <2>2. ~Fault
    BY <1>1 DEF Fault
  <2>3. ASSUME NEW t \in RequestTypes, AnswerPlain(t) PROVE Good'
    <3>1. Msg(t, "none", "none", 0) \in Message
      BY <2>1 DEF Arguments
    <3>2. /\ ~IsEntry(Msg(t, "none", "none", 0)) /\ Msg(t, "none", "none", 0).err = "none"
          /\ Msg(t, "none", "none", 0).type # "generate_linking_uri"
          /\ t \in RequestTypes \ {"list_accounts", "generate_linking_uri"}
      BY <2>3 DEF AnswerPlain, Plain, Msg, IsEntry
    <3> QED
      BY <1>12, <2>3, <3>1, <3>2 DEF AnswerPlain
  <2>4. CASE AnswerListAccounts
    <3> DEFINE m == Msg("list_accounts", "none", status, 0)
    <3>1. m \in Message /\ m.err = "none" /\ m.type = "list_accounts"
      BY DEF Msg, Message, Errors, Arguments, RequestTypes, Typing
    <3>2. inbox' = Append(inbox, m) /\ Answered("list_accounts")
          /\ UNCHANGED <<sessions, hungup, session_id, mislinked, dialogs>>
      BY <2>4 DEF AnswerListAccounts
    <3>3. /\ asked["list_accounts"] > 0 /\ asked'["list_accounts"] = asked["list_accounts"] - 1
          /\ asked'["generate_linking_uri"] = asked["generate_linking_uri"]
      BY <3>2 DEF Answered, Typing, RequestTypes
    <3> HIDE DEF m
    <3>4. Undisturbed'
      BY <1>3, <3>1, <3>2, <3>3, UndisturbedWritten
    <3> QED
      BY <1>4, <3>2, <3>4
  <2>5. CASE AnswerLinkingUri
    <3> DEFINE m == Msg("generate_linking_uri", "none", "none", sessions + 1)
    <3>1. /\ m \in Message /\ m.err = "none" /\ m.type = "generate_linking_uri"
          /\ m.sid = sessions + 1
      BY DEF Msg, Message, Errors, Arguments, RequestTypes, Typing
    <3>2. inbox' = Append(inbox, m) /\ Answered("generate_linking_uri") /\ sessions' = sessions + 1
          /\ UNCHANGED <<hungup, session_id, mislinked, dialogs>>
      BY <2>5 DEF AnswerLinkingUri
    <3>3. /\ asked["generate_linking_uri"] > 0
          /\ asked'["generate_linking_uri"] = asked["generate_linking_uri"] - 1
          /\ asked'["list_accounts"] = asked["list_accounts"]
      BY <3>2 DEF Answered, Typing, RequestTypes
    <3> HIDE DEF m
    <3>4. Undisturbed'
      BY <1>3, <3>1, <3>2, <3>3, UndisturbedWritten
    <3> QED
      BY <1>4, <3>2, <3>4
  <2>6. ASSUME NEW t \in {"unsubscribe", "finish_link", "register", "list_contacts"},
               NEW a \in {"address", "none", "some"},
               inbox' = Append(inbox, Msg(t, "none", a, 0)), Answered(t),
               UNCHANGED <<sessions, hungup, session_id, mislinked, dialogs>>
        PROVE  Good'
    <3>1. t \in RequestTypes \ {"list_accounts", "generate_linking_uri"}
      BY DEF RequestTypes
    <3>2. Msg(t, "none", a, 0) \in Message
      BY <2>1, <3>1 DEF Arguments
    <3>3. /\ ~IsEntry(Msg(t, "none", a, 0)) /\ Msg(t, "none", a, 0).err = "none"
          /\ Msg(t, "none", a, 0).type # "generate_linking_uri"
      BY DEF Msg, IsEntry
    <3> QED
      BY <1>12, <2>6, <3>1, <3>2, <3>3
  <2>7. CASE AnswerUnsubscribe \/ AnswerRegister
    BY <2>6, <2>7 DEF AnswerUnsubscribe, AnswerRegister
  <2>8. CASE AnswerFinishLink
    <3>1. PICK a \in {"address", "none"} : inbox' = Append(inbox, Msg("finish_link", "none", a, 0))
      BY <2>8 DEF AnswerFinishLink
    <3> QED
      BY <2>6, <2>8, <3>1 DEF AnswerFinishLink
  <2>9. ASSUME NEW t \in {"WebSocketConnectionState", "IncomingMessage"}, NEW a \in Arguments,
               inbox' = Append(inbox, Msg(t, "none", a, 0)), asked' = asked,
               UNCHANGED <<sessions, hungup, session_id, mislinked, dialogs>>
        PROVE  Good'
    <3>1. Msg(t, "none", a, 0) \in Message
      BY DEF Msg, Message, Errors, EventTypes
    <3>2. /\ ~IsEntry(Msg(t, "none", a, 0)) /\ Msg(t, "none", a, 0).err = "none"
          /\ Msg(t, "none", a, 0).type # "generate_linking_uri"
      BY DEF Msg, IsEntry
    <3> QED
      BY <1>12, <2>9, <3>1, <3>2
  <2>15. CASE AnswerListContacts
    <3>1. PICK a \in {"none", "some"} : inbox' = Append(inbox, Msg("list_contacts", "none", a, 0))
      BY <2>15 DEF AnswerListContacts
    <3> QED
      BY <2>6, <2>15, <3>1 DEF AnswerListContacts
  <2>16. CASE WsOther
    <3>1. "OTHER" \in Arguments
      BY DEF Arguments
    <3> QED
      BY <2>9, <2>16, <3>1 DEF WsOther
  <2>10. ASSUME NEW state \in WsStates, Report(state) PROVE Good'
    <3>1. state \in Arguments
      BY DEF Arguments
    <3> QED
      BY <2>9, <2>10, <3>1 DEF Report
  <2>11. CASE Forward
    <3>1. "none" \in Arguments
      BY DEF Arguments
    <3> QED
      BY <2>9, <2>11, <3>1 DEF Forward
  <2>12. ~ReportInternalError /\ ~Hangup /\ \A t \in RequestTypes : ~AnswerError(t)
    BY <2>2 DEF ReportInternalError, Hangup, AnswerError
  <2>13. (WsUp \/ \E state \in WsStates : WsDown(state)) => \E state \in WsStates : Report(state)
    BY DEF WsUp, WsDown, WsStates
  <2>14. ASSUME NEW t \in RequestTypes, Answer(t) PROVE Good'
    BY <2>3, <2>4, <2>5, <2>7, <2>8, <2>12, <2>14, <2>15 DEF Answer
  <2> HIDE DEF Good
  <2> QED
    BY <1>13, <2>10, <2>11, <2>12, <2>13, <2>14, <2>16 DEF Signald, Answering, Asked
<1>14. CASE UNCHANGED vars
  BY <1>1, <1>3, <1>14, UndisturbedStays DEF vars, CodeShown
<1> HIDE DEF Good
<1> QED
  BY <1>7, <1>9, <1>10, <1>11, <1>13, <1>14 DEF Next, Terminated

\* The user who confirms a dialog of link.c finishes the session whose code it shows,
\* until signald reports an error for the first time.
THEOREM CodeIsTheOneScanned == Spec => [](faults = 0 => LinksScannedCode)
<1>1. Init => Linking
  <2> SUFFICES ASSUME Init PROVE Linking
    OBVIOUS
  <2>1. /\ Len(inbox) = 1 /\ inbox[1].type = "version" /\ inbox[1].err = "none"
        /\ asked["list_accounts"] = 0 /\ asked["generate_linking_uri"] = 0
    BY DEF Init, Msg, RequestTypes
  <2>2. OneCode /\ NoError
    BY <2>1 DEF Init, OneCode, NoError, FirstSession
  <2> QED
    BY <2>2 DEF Init, Linking, LinksScannedCode, Undisturbed, CodeShown
<1>2. Typing /\ Linking /\ [Next]_vars => Linking'
  BY LinkingStep
<1>3. Linking => (faults = 0 => LinksScannedCode)
  BY DEF Linking
<1> QED
  BY <1>1, <1>2, <1>3, TypingInvariant, PTL DEF Spec
=============================================================================
