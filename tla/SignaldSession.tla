---------------------------- MODULE SignaldSession ----------------------------
(***************************************************************************)
(* The session of one account with signald once a socket is connected: the *)
(* handlers of src/src/input.c and what they call in link.c, admin.c,      *)
(* contacts.c, groups.c and receipt.c, from signald's greeting to          *)
(* signald_close (login.c).                                                *)
(*                                                                         *)
(* Messages are what SignaldComms hands over, one record for each line.    *)
(* signald works on several requests at once and answers them in any       *)
(* order, in between it reports changes of its connection to the server    *)
(* and incoming messages.                                                  *)
(***************************************************************************)
EXTENDS Naturals, Sequences

CONSTANTS LinkOptions,  \* values of the account option "link": link, or register?
          MaxInbox,     \* bound: messages signald writes ahead of the plugin
          MaxFaults,    \* bound: errors reported by signald
          MaxEvents     \* bound: unsolicited messages and user requests

ASSUME OptionsAssumption == LinkOptions \subseteq BOOLEAN
ASSUME BoundsAssumption == MaxInbox \in Nat /\ MaxFaults \in Nat /\ MaxEvents \in Nat

VARIABLES
  \* The plugin: PurpleConnection and SignaldAccount.
  gc,             \* state of the connection
  uuid,           \* is the account's own uuid known?
  link_option,    \* the account option "link"
  account_exists,
  session_id,     \* of the linking session, 0 if there is none
  dialogs,        \* request dialogs on the screen
  noted,          \* is a read receipt waiting in outgoing_receipts?
  disconnect,     \* purple_connection_error was called: a disconnect is scheduled
  phase,          \* "live"; in signald_close "blocked" in the first recv, "reading"; "closed"
  listed,         \* what has been listed: "contacts", or "some" of them, "groups"
                  \* (history)
  nullAccount,    \* a request was sent with a null account (history)
  mislinked,      \* a linking session other than the one shown was finished (history)
  unfinished,     \* no address came with finish_link, or no code was shown (history)
  \* signald and the socket.
  asked,          \* number of requests not answered yet, by type
  inbox,          \* messages not read yet
  status,         \* of the account in signald: "absent", "pending" or "ready"
  linked,         \* was the account linked in this session?
  ws,             \* state of signald's websocket for the account, the last of those
                  \* that input.c knows
  subscribed,     \* does signald forward the account's messages?
  sessions,       \* number of linking sessions begun
  hungup,         \* has signald closed the socket?
  faults, events  \* used up of MaxFaults and MaxEvents

accountVars == <<link_option, account_exists, session_id, dialogs, noted>>
historyVars == <<listed, nullAccount, mislinked, unfinished>>
pluginVars == <<gc, uuid, accountVars, disconnect, phase, historyVars>>
daemonVars == <<status, linked, ws, subscribed, sessions, hungup, faults, events>>
vars == <<pluginVars, asked, inbox, daemonVars>>

RequestTypes == {"list_accounts", "subscribe", "unsubscribe", "request_sync",
                 "list_contacts", "list_groups", "generate_linking_uri", "finish_link",
                 "set_device_name", "register", "verify", "mark_read"}
EventTypes == {"version", "WebSocketConnectionState", "IncomingMessage", "InternalError"}
\* "other": the database is busy, or anything else; only the wording differs.
Errors == {"none", "auth", "other"}
\* "NONE": there is no websocket.
WsStates == {"NONE", "CONNECTING", "CONNECTED", "DISCONNECTED"}
\* "OTHER": any state of the websocket that input.c:152-157 does not name.
Arguments == WsStates \union
             {"OTHER", "none", "absent", "pending", "ready", "address", "some", "ignored", "fatal"}

Message == [type : RequestTypes \union EventTypes, err : Errors, arg : Arguments, sid : Nat]
Msg(t, e, a, s) == [type |-> t, err |-> e, arg |-> a, sid |-> s]

Dialog == [kind : {"qr", "verify"}, sid : Nat]
VerifyDialog == [kind |-> "verify", sid |-> 0]
QrDialog(s) == [kind |-> "qr", sid |-> s]

\* A live account is never set to DISCONNECTED, which would destroy it.
TypeOK ==
  /\ gc \in {"CONNECTING", "CONNECTED"} \union IF phase = "live" THEN {} ELSE {"DISCONNECTED"}
  /\ uuid \in BOOLEAN
  /\ link_option \in BOOLEAN /\ account_exists \in BOOLEAN
  /\ session_id \in 0..sessions
  /\ dialogs \subseteq Dialog
  /\ noted \in BOOLEAN /\ disconnect \in BOOLEAN
  /\ phase \in {"live", "blocked", "reading", "closed"}
  /\ listed \subseteq {"contacts", "some", "groups"}
  /\ nullAccount \in BOOLEAN /\ mislinked \in BOOLEAN /\ unfinished \in BOOLEAN
  /\ asked \in [RequestTypes -> Nat]
  /\ inbox \in Seq(Message)
  /\ \A i \in 1..Len(inbox) : inbox[i].sid <= sessions
  /\ status \in {"absent", "pending", "ready"}
  /\ linked \in BOOLEAN
  /\ ws \in WsStates
  /\ subscribed \in BOOLEAN /\ hungup \in BOOLEAN
  /\ sessions \in Nat /\ faults \in Nat /\ events \in Nat

\* signald_connect_socket has set the state; signald greets with its version.
Init ==
  /\ gc = "CONNECTING"
  /\ link_option \in LinkOptions
  /\ uuid = FALSE /\ account_exists = FALSE /\ session_id = 0
  /\ dialogs = {} /\ noted = FALSE /\ disconnect = FALSE /\ phase = "live"
  /\ listed = {} /\ nullAccount = FALSE /\ mislinked = FALSE /\ unfinished = FALSE
  /\ asked = [t \in RequestTypes |-> 0]
  /\ inbox = <<Msg("version", "none", "none", 0)>>
  /\ status \in {"absent", "pending", "ready"}
  /\ linked = FALSE
  /\ ws = "NONE" /\ subscribed = FALSE
  /\ sessions = 0 /\ hungup = FALSE /\ faults = 0 /\ events = 0

-----------------------------------------------------------------------------
(* Requests.                                                               *)

\* signald_send_json for each of the types.
Send(types) ==
  asked' = [t \in RequestTypes |-> asked[t] + IF t \in types /\ ~hungup THEN 1 ELSE 0]

\* signald_send_json_or_display_error for each of the types.
Request(types) ==
  /\ Send(types)
  /\ disconnect' = (disconnect \/ hungup)

NoRequest == UNCHANGED <<asked, disconnect>>

\* signald_link_or_register.
LinkOrRegister ==
  IF link_option
  THEN /\ Request({"generate_linking_uri"})
       /\ UNCHANGED dialogs
  ELSE /\ Request({"register"})
       /\ dialogs' = dialogs \union {VerifyDialog}

-----------------------------------------------------------------------------
(* signald_handle_input: one action for each type.  Messages are handled   *)
(* while the account is live, a scheduled disconnect included, and in the  *)
(* last read of signald_close.                                             *)

Receiving == phase \in {"live", "reading"} /\ inbox # <<>>

Handle(t) ==
  /\ Head(inbox).type = t /\ Head(inbox).err = "none"
  /\ inbox' = Tail(inbox)

OnError ==
  /\ Head(inbox).err # "none"
  /\ inbox' = Tail(inbox)
  /\ IF Head(inbox).err = "auth" \/ Head(inbox).type = "subscribe"
     THEN LinkOrRegister
     ELSE disconnect' = TRUE /\ UNCHANGED <<asked, dialogs>>
  /\ UNCHANGED <<gc, uuid, link_option, account_exists, session_id, noted, phase,
                 historyVars, daemonVars>>

OnVersion ==
  /\ Handle("version")
  /\ Request({"list_accounts"})
  /\ UNCHANGED <<gc, uuid, accountVars, phase, historyVars, daemonVars>>

\* A mutant of OnListAccounts: a pending account is left alone.
OnListAccountsNotPending ==
  /\ Handle("list_accounts")
  /\ account_exists' = (Head(inbox).arg # "absent")
  /\ uuid' = (uuid \/ Head(inbox).arg # "absent")
  /\ CASE Head(inbox).arg = "ready" -> Request({"subscribe"}) /\ UNCHANGED dialogs
       [] Head(inbox).arg = "pending" -> NoRequest /\ UNCHANGED dialogs
       [] OTHER -> LinkOrRegister
  /\ UNCHANGED <<gc, link_option, session_id, noted, phase, historyVars, daemonVars>>

\* signald_parse_account_list and signald_process_account.
OnListAccounts ==
  /\ Handle("list_accounts")
  /\ account_exists' = (Head(inbox).arg # "absent")
  /\ uuid' = (uuid \/ Head(inbox).arg # "absent")
  /\ IF Head(inbox).arg = "ready"
     THEN Request({"subscribe"}) /\ UNCHANGED dialogs
     ELSE LinkOrRegister
  /\ UNCHANGED <<gc, link_option, session_id, noted, phase, historyVars, daemonVars>>

OnSubscribe ==
  /\ Handle("subscribe")
  /\ IF uuid THEN Request({"request_sync"}) ELSE NoRequest
  /\ UNCHANGED <<gc, uuid, accountVars, phase, historyVars, daemonVars>>

OnUnsubscribe ==
  /\ Handle("unsubscribe")
  /\ gc' = "DISCONNECTED"
  /\ UNCHANGED <<uuid, accountVars, disconnect, phase, historyVars, asked, daemonVars>>

\* A mutant of OnRequestSync: the groups are forgotten.
OnRequestSyncContacts ==
  /\ Handle("request_sync")
  /\ IF uuid THEN Request({"list_contacts"}) ELSE NoRequest
  /\ UNCHANGED <<gc, uuid, accountVars, phase, historyVars, daemonVars>>

OnRequestSync ==
  /\ Handle("request_sync")
  /\ IF uuid THEN Request({"list_contacts", "list_groups"}) ELSE NoRequest
  /\ UNCHANGED <<gc, uuid, accountVars, phase, historyVars, daemonVars>>

\* What signald does not list yet is not asked for again.
OnListContacts ==
  /\ Handle("list_contacts")
  /\ listed' = listed \union {IF Head(inbox).arg = "some" THEN "some" ELSE "contacts"}
  /\ NoRequest
  /\ UNCHANGED <<gc, uuid, accountVars, phase, nullAccount, mislinked,
                 unfinished, daemonVars>>

OnListGroups ==
  /\ Handle("list_groups")
  /\ listed' = listed \union {"groups"}
  /\ NoRequest
  /\ UNCHANGED <<gc, uuid, accountVars, phase, nullAccount, mislinked,
                 unfinished, daemonVars>>

\* signald_parse_linking_uri.  The session id of an earlier uri is lost; if
\* the uri cannot be encoded, no dialog is shown and only the log tells.
OnLinkingUri ==
  /\ Handle("generate_linking_uri")
  /\ session_id' = Head(inbox).sid
  /\ \/ dialogs' = dialogs \union {QrDialog(Head(inbox).sid)} /\ UNCHANGED unfinished
     \/ unfinished' = TRUE /\ UNCHANGED dialogs
  /\ NoRequest
  /\ UNCHANGED <<gc, uuid, link_option, account_exists, noted, phase, listed,
                 nullAccount, mislinked, daemonVars>>

\* A mutant of OnFinishLink: the address is not looked at.
OnFinishLinkNoAddress ==
  /\ Handle("finish_link")
  /\ Request({"subscribe"} \union IF uuid THEN {"set_device_name"} ELSE {})
  /\ UNCHANGED <<gc, uuid, accountVars, phase, historyVars, daemonVars>>

\* signald_process_finish_link.
OnFinishLink ==
  /\ Handle("finish_link")
  /\ uuid' = (uuid \/ Head(inbox).arg = "address")
  /\ Request({"subscribe"} \union IF uuid' THEN {"set_device_name"} ELSE {})
  /\ unfinished' = (unfinished \/ ~uuid')
  /\ UNCHANGED <<gc, accountVars, phase, listed, nullAccount, mislinked, daemonVars>>

\* A mutant of OnWebSocketState: a lost connection to the server is ignored.
OnWebSocketStateUp ==
  /\ Handle("WebSocketConnectionState")
  /\ gc' = IF uuid /\ Head(inbox).arg = "CONNECTED" THEN "CONNECTED" ELSE gc
  /\ NoRequest
  /\ UNCHANGED <<uuid, accountVars, phase, historyVars, daemonVars>>

\* A mutant of OnWebSocketState: signald's state is taken over as it is.
OnWebSocketStateAsIs ==
  /\ Handle("WebSocketConnectionState")
  /\ gc' = IF uuid /\ Head(inbox).arg # "OTHER" THEN Head(inbox).arg ELSE gc
  /\ NoRequest
  /\ UNCHANGED <<uuid, accountVars, phase, historyVars, daemonVars>>

\* A mutant of OnWebSocketState: the uuid is not looked at.
OnWebSocketStateUnchecked ==
  /\ Handle("WebSocketConnectionState")
  /\ gc' = CASE Head(inbox).arg = "CONNECTED" -> "CONNECTED"
             [] Head(inbox).arg \in {"CONNECTING", "DISCONNECTED"} -> "CONNECTING"
             [] OTHER -> gc
  /\ NoRequest
  /\ UNCHANGED <<uuid, accountVars, phase, historyVars, daemonVars>>

\* A mutant of OnWebSocketState: whatever is not CONNECTED means connecting.
OnWebSocketStateElse ==
  /\ Handle("WebSocketConnectionState")
  /\ gc' = IF ~uuid THEN gc
           ELSE IF Head(inbox).arg = "CONNECTED" THEN "CONNECTED" ELSE "CONNECTING"
  /\ NoRequest
  /\ UNCHANGED <<uuid, accountVars, phase, historyVars, daemonVars>>

\* DISCONNECTED would destroy the account; a state with another name is ignored.
OnWebSocketState ==
  /\ Handle("WebSocketConnectionState")
  /\ gc' = CASE uuid /\ Head(inbox).arg = "CONNECTED" -> "CONNECTED"
             [] uuid /\ Head(inbox).arg \in {"CONNECTING", "DISCONNECTED"} -> "CONNECTING"
             [] OTHER -> gc
  /\ NoRequest
  /\ UNCHANGED <<uuid, accountVars, phase, historyVars, daemonVars>>

\* signald_process_message as far as it concerns the session: the message is
\* displayed and, if the options say so, its receipt noted.
OnIncoming ==
  /\ Handle("IncomingMessage")
  /\ noted' \in {noted, TRUE}
  /\ NoRequest
  /\ UNCHANGED <<gc, uuid, link_option, account_exists, session_id, dialogs, phase,
                 historyVars, daemonVars>>

OnInternalError ==
  /\ Handle("InternalError")
  /\ disconnect' = (disconnect \/ Head(inbox).arg = "fatal")
  /\ UNCHANGED <<gc, uuid, accountVars, asked, phase, historyVars, daemonVars>>

\* Answers that are not looked at.
OnIgnored ==
  /\ \E t \in {"set_device_name", "mark_read", "register", "verify"} : Handle(t)
  /\ NoRequest
  /\ UNCHANGED <<gc, uuid, accountVars, phase, historyVars, daemonVars>>

\* The end of file is found once everything before it is read.
OnEof ==
  /\ phase \in {"live", "reading"} /\ hungup /\ inbox = <<>> /\ ~disconnect
  /\ disconnect' = TRUE
  /\ UNCHANGED <<gc, uuid, accountVars, phase, historyVars, asked, inbox, daemonVars>>

HandleInput ==
  \/ /\ Receiving
     /\ \/ OnError \/ OnVersion \/ OnListAccounts \/ OnSubscribe \/ OnUnsubscribe
        \/ OnRequestSync \/ OnListContacts \/ OnListGroups \/ OnLinkingUri \/ OnFinishLink
        \/ OnWebSocketState \/ OnIncoming \/ OnInternalError \/ OnIgnored
  \/ OnEof

-----------------------------------------------------------------------------
(* The user and the timer.                                                 *)

\* signald_scan_qrcode_done finishes the session in sa->session_id.
QrDone(d) ==
  /\ phase = "live" /\ d \in dialogs /\ d.kind = "qr"
  /\ dialogs' = dialogs \ {d}
  /\ Request({"finish_link"})
  /\ mislinked' = (mislinked \/ d.sid # session_id)
  /\ UNCHANGED <<gc, uuid, link_option, account_exists, session_id, noted, phase,
                 listed, nullAccount,
                 unfinished, inbox, daemonVars>>

QrCancel(d) ==
  /\ phase = "live" /\ d \in dialogs /\ d.kind = "qr"
  /\ dialogs' = dialogs \ {d}
  /\ disconnect' = TRUE
  /\ UNCHANGED <<gc, uuid, link_option, account_exists, session_id, noted, phase,
                 historyVars, asked,
                 inbox, daemonVars>>

VerifyOk(d) ==
  /\ phase = "live" /\ d \in dialogs /\ d.kind = "verify"
  /\ dialogs' = dialogs \ {d}
  /\ Send({"verify"}) /\ disconnect' = TRUE
  /\ UNCHANGED <<gc, uuid, link_option, account_exists, session_id, noted, phase,
                 historyVars, inbox,
                 daemonVars>>

VerifyCancel(d) ==
  /\ phase = "live" /\ d \in dialogs /\ d.kind = "verify"
  /\ dialogs' = dialogs \ {d}
  /\ UNCHANGED <<gc, uuid, link_option, account_exists, session_id, noted, disconnect,
                 phase, historyVars,
                 asked, inbox, daemonVars>>

\* "Update Contacts" and "Update Groups" of a connected account.
Update(t) ==
  /\ phase = "live" /\ gc = "CONNECTED" /\ events < MaxEvents
  /\ IF uuid THEN Request({t}) ELSE NoRequest
  /\ events' = events + 1
  /\ UNCHANGED <<gc, uuid, accountVars, phase, historyVars, inbox, status, linked, ws,
                 subscribed,
                 sessions, hungup, faults>>

\* signald_send_receipts; an error of the write is only logged.
ReceiptsTimer ==
  /\ phase = "live" /\ noted
  /\ noted' = FALSE
  /\ Send({"mark_read"})
  /\ nullAccount' = (nullAccount \/ ~uuid)
  /\ UNCHANGED <<gc, uuid, link_option, account_exists, session_id, dialogs,
                 disconnect, phase, listed,
                 mislinked, unfinished, inbox, daemonVars>>

User ==
  \/ \E d \in dialogs : QrDone(d) \/ QrCancel(d) \/ VerifyOk(d) \/ VerifyCancel(d)
  \/ \E t \in {"list_contacts", "list_groups"} : Update(t)

-----------------------------------------------------------------------------
(* signald_close.                                                          *)

\* The account is freed, its dialogs are closed and the connection is gone; what
\* is under way in the socket is lost.
Free ==
  /\ asked' = [t \in RequestTypes |-> 0] /\ inbox' = <<>>
  /\ phase' = "closed" /\ gc' = "DISCONNECTED"
  /\ uuid' = FALSE /\ noted' = FALSE /\ dialogs' = {}
  /\ UNCHANGED <<link_option, account_exists, session_id, disconnect, historyVars,
                 daemonVars>>

\* A connected account is unsubscribed, and signald_read_cb called a last time.
CloseUnsubscribing ==
  /\ phase = "live" /\ uuid /\ gc = "CONNECTED" /\ ~hungup
  /\ phase' = "blocked"
  /\ Send({"unsubscribe"})
  /\ UNCHANGED <<gc, uuid, accountVars, disconnect, historyVars, inbox, daemonVars>>

\* A mutant of CloseAtOnce: signald_close returns early and frees nothing.
CloseAtOnceReturns ==
  /\ phase = "live" /\ (~uuid \/ gc # "CONNECTED" \/ hungup)
  /\ UNCHANGED vars

\* Nothing is read if the account is not connected or if the request cannot be
\* written.
CloseAtOnce ==
  /\ phase = "live" /\ (~uuid \/ gc # "CONNECTED" \/ hungup)
  /\ Free

Close == CloseUnsubscribing \/ CloseAtOnce

\* The blocking recv returns: a byte of some message, or the end of file.
CloseRead ==
  /\ phase = "blocked"
  /\ inbox # <<>> \/ hungup
  /\ phase' = "reading"
  /\ UNCHANGED <<gc, uuid, accountVars, disconnect, historyVars, asked, inbox,
                 daemonVars>>

\* signald_read_cb finds no further byte, be it in the middle of a message, and
\* the account is freed.
CloseEnd ==
  /\ phase = "reading"
  /\ Free

Closing == CloseRead \/ CloseEnd

Terminated == phase = "closed" /\ UNCHANGED vars

-----------------------------------------------------------------------------
(* signald.  It does nothing more once the plugin has closed the socket.   *)

Connected == phase # "closed" /\ ~hungup
CanWrite == Connected /\ Len(inbox) < MaxInbox
Write(m) == CanWrite /\ inbox' = Append(inbox, m)
Asked == {t \in RequestTypes : asked[t] > 0}
Answered(t) == asked[t] > 0 /\ asked' = [asked EXCEPT ![t] = @ - 1]
Fault == faults < MaxFaults /\ faults' = faults + 1
Event == events < MaxEvents /\ events' = events + 1

Plain == {"subscribe", "request_sync", "list_groups", "set_device_name", "verify", "mark_read"}

AnswerPlain(t) ==
  /\ t \in Plain /\ Answered(t)
  /\ Write(Msg(t, "none", "none", 0))
  /\ subscribed' = (subscribed \/ t = "subscribe")
  /\ UNCHANGED <<pluginVars, status, linked, ws, sessions, hungup, faults, events>>

AnswerListAccounts ==
  /\ Answered("list_accounts")
  /\ Write(Msg("list_accounts", "none", status, 0))
  /\ UNCHANGED <<pluginVars, daemonVars>>

\* signald has an account's contacts from other devices of it; of an account linked in
\* this session it may not have them all, although it has answered request_sync.
AnswerListContacts ==
  /\ Answered("list_contacts")
  /\ Write(Msg("list_contacts", "none", IF linked THEN "some" ELSE "none", 0))
  /\ UNCHANGED <<pluginVars, daemonVars>>

AnswerUnsubscribe ==
  /\ Answered("unsubscribe")
  /\ Write(Msg("unsubscribe", "none", "none", 0))
  /\ subscribed' = FALSE /\ ws' = "NONE"
  /\ UNCHANGED <<pluginVars, status, linked, sessions, hungup, faults, events>>

AnswerLinkingUri ==
  /\ Answered("generate_linking_uri")
  /\ sessions' = sessions + 1
  /\ Write(Msg("generate_linking_uri", "none", "none", sessions + 1))
  /\ UNCHANGED <<pluginVars, status, linked, ws, subscribed, hungup, faults, events>>

AnswerFinishLink ==
  /\ Answered("finish_link")
  /\ \E a \in {"address", "none"} : Write(Msg("finish_link", "none", a, 0))
  /\ status' = "ready" /\ linked' = TRUE
  /\ UNCHANGED <<pluginVars, ws, subscribed, sessions, hungup, faults, events>>

AnswerRegister ==
  /\ Answered("register")
  /\ Write(Msg("register", "none", "none", 0))
  /\ status' = "pending" /\ UNCHANGED linked
  /\ UNCHANGED <<pluginVars, ws, subscribed, sessions, hungup, faults, events>>

AnswerError(t) ==
  /\ Answered(t) /\ Fault
  /\ \E e \in Errors \ {"none"} : Write(Msg(t, e, "none", 0))
  /\ UNCHANGED <<pluginVars, status, linked, ws, subscribed, sessions, hungup, events>>

Answer(t) ==
  \/ AnswerPlain(t)
  \/ t = "list_accounts" /\ AnswerListAccounts
  \/ t = "list_contacts" /\ AnswerListContacts
  \/ t = "unsubscribe" /\ AnswerUnsubscribe
  \/ t = "generate_linking_uri" /\ AnswerLinkingUri
  \/ t = "finish_link" /\ AnswerFinishLink
  \/ t = "register" /\ AnswerRegister
  \/ AnswerError(t)

\* signald connects to the server for a subscribed account, possibly before
\* the plugin has the answer to its request.
Serving == subscribed \/ asked["subscribe"] > 0

Report(state) ==
  /\ Serving /\ ws # state
  /\ ws' = state
  /\ Write(Msg("WebSocketConnectionState", "none", state, 0))
  /\ UNCHANGED <<pluginVars, asked, status, linked, subscribed, sessions, hungup, faults>>

WsUp == Report("CONNECTED") /\ UNCHANGED events
WsDown(state) == state \in {"CONNECTING", "DISCONNECTED"} /\ Report(state) /\ Event

\* A state the plugin does not know, like a failed authentication.
WsOther ==
  /\ Serving /\ Event
  /\ Write(Msg("WebSocketConnectionState", "none", "OTHER", 0))
  /\ UNCHANGED <<pluginVars, asked, status, linked, ws, subscribed, sessions, hungup, faults>>

Forward ==
  /\ Serving /\ Event
  /\ Write(Msg("IncomingMessage", "none", "none", 0))
  /\ UNCHANGED <<pluginVars, asked, status, linked, ws, subscribed, sessions, hungup, faults>>

ReportInternalError ==
  /\ Fault
  /\ \E a \in {"ignored", "fatal"} : Write(Msg("InternalError", "none", a, 0))
  /\ UNCHANGED <<pluginVars, asked, status, linked, ws, subscribed, sessions, hungup, events>>

Hangup ==
  /\ Connected /\ Fault
  /\ hungup' = TRUE
  /\ UNCHANGED <<pluginVars, asked, inbox, status, linked, ws, subscribed, sessions, events>>

Answering == CanWrite /\ \E t \in Asked : Answer(t)

Signald ==
  \/ Answering
  \/ WsUp \/ WsOther \/ \E state \in WsStates : WsDown(state)
  \/ Forward \/ ReportInternalError \/ Hangup

-----------------------------------------------------------------------------
Next ==
  \/ HandleInput
  \/ User
  \/ ReceiptsTimer
  \/ Close
  \/ Closing
  \/ Signald
  \/ Terminated

Spec == Init /\ [][Next]_vars

\* The main loop goes on: it handles what can be read, runs the timeout of a scheduled
\* disconnect and comes to the end of signald_close.  signald goes on: it answers,
\* in whatever order, and connects to the server.  The user need not do anything.
Fairness ==
  /\ WF_vars(HandleInput \/ (disconnect /\ Close) \/ Closing)
  /\ WF_vars(Answering \/ WsUp)

FairSpec == Spec /\ Fairness

-----------------------------------------------------------------------------
(* Properties.                                                             *)

\* The state shown to the user follows signald's connection to the server: when
\* no report is on its way, it agrees with the last state signald has reported by a
\* name that input.c:152-157 knows, whatever order answers and reports arrived
\* in.  Another state, like a failed authentication, leaves what is shown as it was.
\* (Without the address that should come with finish_link, reports are ignored.)
Reports ==
  {i \in 1..Len(inbox) : inbox[i].type = "WebSocketConnectionState" /\ inbox[i].arg # "OTHER"}
GcTracksWebSocket ==
  phase = "live" /\ Reports = {} /\ ~unfinished => (gc = "CONNECTED" <=> ws = "CONNECTED")

\* "own uuid, might be NULL - always check before use" (structs.h:12): read
\* receipts, the request that does not check it, never go out without it, unless
\* signald did not tell it with finish_link; and whatever is told, a connection
\* that is shown as connected has it, so that no request of the user is dropped.
ConnectedHasAccount == gc = "CONNECTED" => uuid
ReceiptsNameAccount == nullAccount => unfinished
AccountNamed == ConnectedHasAccount /\ ReceiptsNameAccount

\* Logging in does not get stuck, unless the code could not be shown or the link
\* lacks an address.  A linking account is, again and again, connected, asking the
\* user for something, or being disconnected with an error; a registering one is so
\* after signald's greeting (a user who cancels the dialog is not asked again).
Greeted == inbox = <<>> \/ Head(inbox).type # "version"
LoginResolves ==
  (phase = "live" /\ (link_option \/ ~Greeted)) ~>
    \/ gc = "CONNECTED" \/ dialogs # {}
    \/ unfinished \/ disconnect \/ phase # "live"

\* A connected account gets its contacts and groups listed, unless it has to be
\* linked anew, shown a code or not, or disconnected.  For an account linked in this
\* session only what signald had of the contacts when it was asked is promised ("After
\* linking, contacts are not synced and may appear offline", src/README.md:60).
SyncCompletes ==
  (gc = "CONNECTED" /\ link_option) ~>
    \/ "groups" \in listed /\ ("contacts" \in listed \/ (linked /\ "some" \in listed))
    \/ dialogs # {} \/ unfinished \/ disconnect \/ phase # "live"

\* signald_close comes to its end as long as signald answers; a scheduled
\* disconnect leads there.
CloseTerminates == (disconnect \/ phase # "live") ~> (phase = "closed")

\* The dialog asks to scan the code "below" (link.c:61-63): confirming it
\* finishes the linking session whose code it shows.
LinksScannedCode == ~mislinked
=============================================================================
