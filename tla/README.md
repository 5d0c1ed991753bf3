# Verification of purple-signald

purple-signald is a libpurple plugin, written in C, that connects a chat client
to the daemon *signald* over a unix socket and speaks newline delimited JSON with
it.  This directory holds TLA+ models of the plugin's own logic, TLC
configurations that check them on small instances, and theorems that TLAPS proves
for every value of the constants.  Paths below are relative to the repository
(its C files are in `src/`, here written as in `src/src/comms.c`).

## 1. The system

The plugin runs in the main loop of the client: every callback (socket readable,
timer, click in a dialog, menu action, request of the client) runs to its end
before the next one starts.  Concurrency comes from four places: the daemon on the
other end of the socket, which works on several requests at once; the user; the
threads that look for the socket; and the child process that becomes the daemon.

| component | state | operations |
|---|---|---|
| **input and output stream** `comms.c` | `input_buffer`, `input_buffer_position`, the socket | `signald_read_cb` assembles lines byte by byte; `signald_send_json` writes one request and its newline with `signald_send_str` |
| **connection attempts** `login.c` | `fd`, `watcher`, `socket_paths_count`, one detached thread for each location, errors queued for the main loop | `signald_login`, `signald_connect_socket`, `do_try_connect`, `display_connection_error`, `signald_close` |
| **daemon management** `signald_procmgmt.c` | `signald_usages` (one for the process), the pid file, the child | `signald_signald_start`, `signald_save_pidfile`, `signald_connection_closed`, `signald_kill_process` |
| **session** `input.c`, `link.c`, `admin.c` | state of the `PurpleConnection`, `uuid`, `account_exists`, `session_id`, dialogs on the screen | dispatch of each message type, errors, linking, registration, subscription, the last read of `signald_close` |
| **read receipts** `receipt.c` | `outgoing_receipts`, a table of timestamps by reader; a timer | `signald_mark_read`, `signald_send_receipts` |
| **messages** `message.c` | `last_message`, `last_conversation` (one slot) | display of incoming messages, `signald_send_message`, `signald_send_acknowledged` |
| **reply cache** `reply.c` | a bounded queue of messages for each account | append, search by quote, free |
| **contacts and profiles** `contacts.c` | buddies with the number as protocol data, `show_profile` | listing, migration from number to uuid, adding a buddy, requesting and showing profiles |
| **groups** `groups.c` | chats of the buddy list, windows with their participants, `roomlist` | list of groups, participants and their names, room list, invitations, joining and leaving |
| **attachments** `attachments.c` | temporary files, the directory that is served | detaching the images of a message, copying or linking what was received |
| **status, options, interface, helpers** | tables | constants and callbacks |

How they interact.  `signald_read_cb` hands each line to `signald_handle_input`,
which calls the handler for its type; the handlers write requests to the same
socket at once.  A handler that fails calls `purple_connection_error`, which only
*schedules* a disconnect: further callbacks may run before `signald_close` does.
`signald_close` unsubscribes a connected account, calls `signald_read_cb` a last
time with a blocking socket, frees everything and gives back one use of the daemon.
The connection threads write into the `SignaldAccount` that the main loop may free.

What is hard, and what makes each component correct:

* **Input stream.** A line may be cut anywhere by EAGAIN, may just fit or just not
  fit, and may be longer than the buffer several times over; the daemon may go away
  in the middle of a line.  Correct: no write past the buffer; every line is handed
  over whole, once and in order unless it is too long; a hangup is noticed.
* **Connection attempts.** Unlocked shared variables in two threads and the main
  loop.  Correct: the attempt ends in one connection or in an error; failure is
  reported only if all threads failed; nothing refers to a freed account.
* **Daemon management.** One counter for all accounts, though not all of them use
  the daemon; parent and child share the pid file.  Correct: the daemon is started
  for the first account that wants it, and stopped for the last.
* **Session.** Answers in any order, reports of the daemon's own connection between
  them, failed requests, two dialogs at a time, a disconnect scheduled in between.
  Correct: a login ends in a connection, a question or an error; what is shown as
  connected has its uuid and follows the daemon's connection; contacts and groups
  are listed; closing ends.
* **Messages, reply cache, receipts.** One slot for all messages that wait for an
  acknowledgement, which does not say what it acknowledges; a cache whose capacity
  the user changes; tables freed before the last read.  Correct: a message is shown
  once and where it was sent; a reply goes to the newest message that matches; a
  receipt is written once.
* **Contacts.** A buddy is known by uuid or by number, and a number may become another
  person's.  Correct: one buddy for a person, and the number shown is that person's.
* **Groups.** Flags for what may be several requests under way; answers that were given
  before something changed.  Correct: a room list has each room once and finishes;
  strangers in a window get a name; a group that was left goes.
* **Write side, attachments.** A write may take a part of a request.  Files are read by
  signald, or by a web server, long after they were written.  Correct: what was reported
  as failed is never carried out; a file keeps its content.

`PROJECT.json` lists these hazards, each at its line, with the properties that
cover them.

## 2. Modules

| module | models | state against the code |
|---|---|---|
| `LineChannel` | what either direction of the socket promises | lines written, lines delivered, and whether the channel failed |
| `DaemonUse` | what the plugin promises accounts that use the daemon | the accounts that use it, how often it was started and stopped |
| `Outbox` | what the plugin promises about messages the user sends | messages sent, lines shown, messages acknowledged |
| `SignaldComms` | read side of `comms.c`, last read of `signald_close` | `buffer` is `input_buffer[0..input_buffer_position)`, `cur`/`off` the position in the byte stream, `cb` where `signald_read_cb` is between two `recv`, `link` the daemon's end |
| `SignaldTransfer` | write side of `comms.c` with its callers | `requests` in the order they were made, `writing` which of the two writes of `signald_send_json` is next, `wire` the bytes the socket took, `lines` what signald has read |
| `SignaldAttachments` | `attachments.c`; extended by `SignaldTransfer` | `tmp` the temporary files, `served` the files of the directory that is served, `links` what the user was shown |
| `SignaldConnect` | `signald_connect_socket`, `do_try_connect`, `display_connection_error`, `signald_close` | one `pc` for each thread; every access to `fd`, `watcher`, `socket_paths_count` is a step, and `socket_paths_count--` is a load and a store |
| `SignaldProcmgmt` | `signald_procmgmt.c` and its callers | `signald_usages`, the pid file as absent, empty or naming a pid, each child by how far it got |
| `SignaldSession` | `signald_handle_input` and the handlers it calls, dialogs, menu actions, the receipts timer, `signald_close`, and signald | `gc` is the state of the connection, `uuid` whether the own uuid is known, `asked` and `inbox` the two directions of the socket |
| `SignaldMessages` | sending, acknowledgement and reception in `message.c`, all of `reply.c`, the outgoing part of `receipt.c`, `signald_close` | `last_message`, `last_conversation`, `replycache`, `outgoing_receipts` as in the code, messages by number; `log` is what the user sees |
| `SignaldGroups` | `groups.c`, profiles in `contacts.c`, their answers in `input.c` | `chats` of the buddy list, `conv`, `users` and `named` of the windows, `roomlist`, `show_profile`; membership and unanswered requests on signald's side |
| `SignaldContacts` | buddies in `contacts.c`, the tooltip in `interface.c` | `name` and `number` of each buddy; `freed` if its number points to freed memory |

`MC*` modules define the values the configurations need.  `*_Proofs` modules hold the
theorems.  Definitions keep the source's names; an operator that begins with
`On` is the handler of the message type it names, and everything the code does in
that handler, including the requests it sends, is one step.  Definitions whose
comment says "a mutant of" are faulty variants of the definition below them, used
to see that a property fails for a plausible bug.

**SignaldComms** works on bytes: byte `i` of line `k` is `<<k, i>>`, so that a
mixture of two lines can be told from a line.  `RecvChar`, `RecvOverflow`,
`RecvNewline`, `RecvAgain`, `RecvEof` and `RecvError` are the outcomes of one `recv`
in the loop of `signald_read_cb`.  The handler of a line may schedule a disconnect,
which is a free choice here and is worked out in `SignaldSession`.  A recv error
other than EAGAIN is the one the kernel reports once, after a reset; the next recv
finds the end of file.

**SignaldTransfer** works on bytes as well.  `WriteJson` and `WriteNewline` are the two
writes of `signald_send_json`, each of which takes any number of the bytes it is
given; `Return` is what the caller makes of the result.  There are four kinds of
callers: a message (a failure is the client's to show), a receipt (a failure is
ignored), the request of `signald_close`, and all others, which end the connection with
`signald_send_json_or_display_error`.  A message is a sequence of texts and image tags,
and `DetachImages` of `SignaldAttachments` turns it into a text and files; each image
may fail to be saved.  `ParseAttachment` shows what was received as a link to a copy, a
link to the file itself, or an error.

**SignaldConnect** treats a data race as a choice: the value compared with zero
after the decrement is either the one stored or one read again.  A thread that would
use a freed account sets `misused` and stops.  `ReadCb` is `signald_read_cb` as far as it
matters here: as soon as there is an input source it may find the end of file, or handle
a line that ends the connection, while the thread that added the source goes on.  `early`
records that this, or the user, asked for a disconnect before the threads had ended.
`reported` is what `purple_connection_error` was told; a disconnect may follow any time
later.
`Choices` are the sets of locations an account may use: both, or the one of the option
"socket".

**SignaldProcmgmt** numbers pids by forks.  `Kill` reads the pid file; if it is absent
or empty the pid given to `kill()` is uninitialized, so any child or none may be
hit.  A file removed while the child has it open swallows the pid written to it.  With
`MayFail` the file may be impossible to open, write, read or remove, and the code goes on
regardless.  `saved` and `late` are history: the children that have put their pid into the
file, and those still about to when the last one was forked.  If all
accounts have the option, the module implements `DaemonUse`: the users are the
accounts that are online, starts are forks, stops are calls of `signald_kill_process`
by the last account.

**SignaldSession** has one record for each line, with the type, the kind of error and
the one argument that matters.  Requests are counted by type until signald answers
them.  A request written after the daemon hung up is lost, and reported or not as
the code's two ways of sending do.  The actions of signald and the answers it may
give are external: they are inferred from what the plugin handles.  `link_option`
is the account option that decides between linking and registration.  `unfinished`
records that signald did not tell the address when it had finished a link, or that a
code could not be drawn: the code does nothing about either.  A report of the daemon's
connection carries one of the three states that `input.c` knows, or `"OTHER"`, which
changes nothing; `ws` is the last of the three.  `linked` is set when the account is
linked in this session: signald may then not have all of its contacts yet, and answers
`list_contacts` with `"some"`.

**SignaldMessages** starts where `SignaldSession` has connected the account and
takes over its last read.  Options are read by the code whenever they are needed, so
each step chooses them anew: the delayed echo, the capacity of the cache, whether
receipts are noted.  A reply is a text whose needle matches some set of
messages; `skipped` records that a reply was made although a newer message matched.
`misused` records a use of the table or the cache after `signald_close` released
them.  Of a received message only its conversation and whether it has a body
matter; one without content is an `OnNothing`.  A message may be written, fail with an
`errno`, or be cut short with `errno` left at zero, in which case the code takes it
for one that waits for its acknowledgement.  The write of a receipt may fail as well, with
the connection open or not; `lost` records those.  The module implements `Outbox` under
the mapping `to <- SentSoFar`, `lines <- Len(log)`, `shown <- OwnLines`: a line keeps the
place it was given, counted from the oldest, and says whether it is an echo.

**SignaldGroups** starts there, too.  An answer to `list_groups` tells what signald knew
when it wrote it, so it may be older than what the plugin has done since; the answers
to all requests are given in any order.  Participants are kept per window, with those
that have a friendly name.  The buddy list may hold several entries of a group:
`chats` counts them, and `online` is the state of the connection, because
`purple_blist_find_chat` finds nothing unless it is connected.  `orphans`, `eaten` and
`overlooked` are history: groups that were in the buddy list before and are not
signald's, people whose last answer named nobody, and how often an entry was there but not
found.

**SignaldContacts** has neither order nor messages: an answer to `list_contacts` is
handled contact by contact and the actions of the user come between two answers, so a
step is one contact.  Which of two buddies of the same name `purple_find_buddy`
returns is a choice.  `merged` records who had a buddy by number and one by uuid at
the same time, or two in the buddy list that earlier sessions left.  The buddies of earlier
sessions have neither number nor status; `asked` is set when the contacts are requested.

## 3. What is checked

Passing runs:

| run | what it shows |
|---|---|
| `comms_any_length` | `NoOverrun`: no byte and no terminator past the buffer.  `LineByLine`: the reader implements `LineChannel`, which delivers lines whole, once, in order, and fails only at a line that is longer than the buffer minus two.  `FragmentsOnlyWhenFailing`: a fragment is handled only with a disconnect already scheduled.  `NothingOverlooked`: no line is forgotten in the buffer and no hangup overlooked |
| `transfer` | `RequestByRequest`: the write side implements `LineChannel`, too, with failure at the first request that is not taken whole.  `FailedIsNeverRead`: signald never reads a request that was reported as failed.  `RequestSettled`: what was reported as written is read unless a write failed before, and a failed request ends the connection, if it is not a message or a receipt.  `RequestsKeepMessage`: a request has the texts of the message and the images that could be saved, in order and each in its file.  `LinksKeepContent`: a link once shown leads to the same content |
| `connect` | `UnableOnlyIfAllGaveUp`: the message "unable to connect to any socket location" is true when it is shown, in spite of lost updates, and a thread that gave up left no socket and no input source.  `ConnectedIsWatched`: the socket in use has an input source.  With one location: the attempt resolves (`ResolvedIfSingle`), no access to a freed account and no input source left behind (`ClosedIsReleased`), unless the user or `signald_read_cb` asked for the disconnect while the thread was at work |
| `procmgmt_managed` | all accounts have the option: the daemon is forked for the first, killed for the last and at no other time (`UsedAsPromised`: the module implements `DaemonUse`), its pid file names it once it has saved its pid, unless a child of an earlier use was still saving its own (`PidfileNamesDaemon`), the count is never too high (`NeverOvercounted`) |
| `session` | linking and registration: `AccountNamed` (a connected account and every receipt have the uuid), `GcTracksWebSocket` (what is shown agrees with the last state of the daemon's connection that `input.c` knows by name, when all reports are read), and under fairness `LoginResolves` (a login leads to a question, a connection or an error; again and again when linking, once when registering, as a cancelled verification is followed by nothing), `SyncCompletes` (contacts and groups get listed, when linking; for an account linked just now, the contacts that signald has by then), `CloseTerminates` |
| `messages` | `EchoedOnceInPlace`: whatever the order of acknowledgements, a message is shown at most once and in the conversation it was sent to, and not more delayed messages are shown than were delivered.  `SentLikeOutbox`: the module implements `Outbox`, so each step shows at most one message of the user's, an echo only with a further acknowledgement, echoes in the order of sending, and what was shown stays.  `RepliesToNewest`: a reply goes to the newest message that matches, as the repository's `README.md:30` says.  `ReceiptsAccounted`: a receipt waits, was written, or was lost by the one attempt to write it; none is tried twice or dropped untried |
| `groups` | `NamedOrAsked`: a stranger in a window has a name or his profile is on its way, although each list of groups takes the names away.  `RoomsOnce`: a room list has each room once.  `LeftGroupIsGone`: a group has one entry, and none once it was left, and no list written before brings it back; each time an entry is not found because the account is not connected, one too many may stay.  `AskedIsAnswered`, under fairness: a room list finishes, and who asks for a profile is shown one |
| `contacts` | `OneBuddyEach`: a contact that was told is found by uuid, none has two buddies, and no buddy is left under a number whose owner is known, except for people added twice.  `TooltipIsLatest`: the number shown was told last, for that person.  `StatusAssumed`: once the contacts were requested no buddy misses the assumed status, be it from earlier sessions or not |

Each property is also run against a mutant of the code that breaks it
(`PROJECT.json`, "mutants").

Runs in which TLC finds a disagreement between the code and what a comment or a dialog
says:

| run | what it shows |
|---|---|
| `connect_lost_update` | both threads load `socket_paths_count` before either stores (`login.c:107`): nobody sees zero, the account connects for ever without an error |
| `procmgmt_mixed_kill` | an account without the option closes: it gives back a use it never took (`login.c:263`, `signald_procmgmt.c:89`), and the daemon is killed under an account that uses it |
| `session_wrong_code` | two answers to `generate_linking_uri`, two dialogs, one `session_id` (`link.c:80`): confirming the first dialog finishes the session of the second.  It takes an error: before the first one no such confusion is possible (theorem `CodeIsTheOneScanned`) |
| `messages_last_read` | a message arrives while `signald_close` waits for the acknowledgement of its unsubscription (`login.c:243-246`): it is handled like any other, but the table of receipts and the reply cache have been released (`login.c:227-230`) |

Behaviours seen while modelling that no run states as a promise:

* After an overflow the callback returns, the disconnect is only scheduled, and the rest
  of the line is handled as a message (`comms.c:31-37`), though the comment there says
  that the reset has no effect.
* A message or a receipt that is not written whole leaves the connection open
  (`message.c:250`, `receipt.c:18`).  The next request continues the line of the failed
  one and is reported as written, and signald can read neither.
* A write that takes a part of a message does not set `errno` (`message.c:251`), which
  is then whatever it was.  If it was zero, the message takes the slot, and the
  acknowledgement of another one shows it (`message.c:250-262`).
* A receipt whose write fails while the connection goes on is removed from the table all
  the same and never sent (`receipt.c:18-23`); `lost` in `ReceiptsAccounted`.
* A signald that hangs up, or whose first line ends the connection, right after
  `purple_input_add` may have the account closed before the thread has stored `watcher`
  and tested `fd` (`login.c:101-103`): the thread then uses freed memory.  A user who
  disconnects while threads are trying has the same effect.  `ClosedIsReleased` excepts
  both (`early`).
* A pid file that cannot be opened is skipped (`signald_procmgmt.c:11-12`): the daemon
  runs and is counted, and is not found when the last account closes.  A child that was
  still saving its pid when the daemon was stopped and started again may put its own pid
  into the file of the next one (`late` in `PidfileNamesDaemon`).
* A state of signald's websocket that `input.c:152-157` does not name, like a failed
  authentication, is ignored: an account that was connected stays so.
* The repository's `README.md:55` says that "Sometimes, group chats are added to the buddy
  list more than once".  `purple_blist_find_chat` finds nothing while the account is not
  connected, so a list of groups handled then adds an entry for each group again
  (`groups.c:26-34`), and the report that a group was left removes none
  (`groups.c:394-395`).  `LeftGroupIsGone` shows that entries are doubled, or stay,
  in no other way.
* The repository's `README.md:60` says that "After linking, contacts are not synced and may
  appear offline".  The plugin asks signald for the contacts once, after the answer to
  `request_sync` (`input.c:73-77`), and takes what there is; buddies of earlier sessions get
  the assumed status from that request only (`contacts.c:228`).  `SyncCompletes` and
  `StatusAssumed` are stated accordingly.
* An image that cannot be saved is left out of the message without a word
  (`attachments.c:155`).  A sticker with the base name of another, or a file received
  twice, is shown as an error, as the copy must not replace what is served already
  (`attachments.c:222`, where a comment fears that it does).
* A read receipt that fails disconnects the account (`input.c:49`), though the
  comment at `input.c:147` does not care if it succeeds.
* `finish_link` without an address leads to a subscription with no uuid, to read
  receipts with a null account (`receipt.c:15`), and to an account that never leaves
  "connecting".  A linking uri that does not fit a QR code is logged only
  (`link.c:110`).  `unfinished` in `AccountNamed`, `GcTracksWebSocket`, `LoginResolves`
  and `SyncCompletes` stands for these two.  A cancelled verification dialog has no
  callback (`link.c:159`): the account stays connecting.
* Two threads may both connect (`login.c:96-101`): the second overwrites `fd` and
  `watcher`, `signald_close` removes one input source of two, and the other calls
  back with the freed account.  `ClosedIsReleased` is therefore stated for one location.
* The last read of `signald_close` may stop in the middle of a message
  (`login.c:243-246`).
* An acknowledgement shows the message sent *last*, whichever message it is for: if two
  wait, the first acknowledgement shows the second message, and the first message is
  never shown (`message.c:257-272`, `message.c:331-338`).  This is why
  `EchoedOnceInPlace` counts acknowledgements and does not pair them.
* A message sent from another device of the account is cached with its recipient as
  author, and a read receipt for it is noted for the recipient
  (`message.c:379-388`).  A needle is looked for in the messages of all
  conversations (`reply.c:41-56`).
* A negative capacity is compared as an unsigned number (`reply.c:31`) and
  freezes the cache; `Capacities` are natural numbers.  A needle that is empty or fills
  its block to the last byte is not terminated (`reply.c:46-48`); the model follows the
  others.
* `last_conversation` is used without asking whether the conversation still exists
  (`message.c:311`, `message.c:335`); the model keeps conversations open.
* Leaving a group from the menu and then closing its window asks signald to leave twice;
  the second answer is an error, and the account is disconnected.  A list of groups
  written before may bring the chat back in between.  A chat opened again has no
  participants (`groups.c:199` returns at once).  Groups that were left from another
  device while the plugin was offline stay in the buddy list (`orphans`).  An invitation
  may be accepted once for each list that tells it.
* A room list may be filled by the answer to an earlier `list_groups` (`groups.c:188`).
  The answer to a request of the plugin's own is shown in place of the profile the user
  asked for (`contacts.c:186`), and the person gets no name by it (`eaten`).
* For somebody added by number and by uuid, two buddies of the same name remain, and the
  number of one may have been freed with the other's (`contacts.c:60-63`; `merged` in
  `OneBuddyEach` and `TooltipIsLatest`).
* A thread that cannot even create its socket reports an error at once and is not
  counted out (`login.c:74-86`), against the comment at `login.c:68-69`.
* If the last account closes before the child has saved its pid, the daemon is missed
  and keeps running (`signald_procmgmt.c:25-33`); after a failed fork or exec the next
  account does not start it (`signald_procmgmt.c:44`).

### Bounds

* `comms`: a buffer of 4 bytes and lines of 0, 2, 3 and 7 bytes: empty, longest that
  fits, shortest that overflows, overflows twice.  Three lines, so that a line precedes
  and follows the one of interest.  Every cut is tried, as EAGAIN may happen at
  any byte but the first.
* `transfer`: requests of two bytes, so that a write may take none, a part or all; three
  requests or attachments together: one before and one after a failed write, and a file
  name used three times.  One message, made of a text, an image, a broken tag, a text
  and an image.
* `connect`: two locations is the most the code tries, ten tries each as in the code.
  The violation needs two tries.
* `procmgmt`: three accounts, so that one closes while another stays and a third
  comes; three forks, so that a second daemon may meet the remains of the first.
* `session`: two messages ahead of the plugin, so that reports and answers wait in
  either order; one error from signald at any point (two in `session_wrong_code`, whose two
  dialogs need them), one unsolicited message or user request.  `sessions` and the
  counters in `asked` are bounded by the errors.
* `messages`: one contact and one group with it as a member, up to two messages each
  way and three together: two messages compete for the slot and for the lists of the
  receipts table, with a third one between or behind them.  Capacities 0, 1 and 2 let
  the cache be off, full, and lowered while full.  Two messages ahead of the plugin, so
  that an acknowledgement and a message, or two acknowledgements, wait together.
* `groups`: two groups that share a stranger, one of whose members is a buddy; one of
  them may be in the buddy list, once or twice, or in a window from before.  Two actions of
  the user (open, leave and ask for a list, in any combination), one event of signald's own
  (its connection comes or goes, a message, an invitation or an error), two
  messages ahead of the plugin, so that an answer may be older than a report behind it.
* `contacts`: two people and two numbers, which is what a swap of numbers takes; four
  buddies, so that both may have two; up to three of them from earlier sessions, which
  allows two of one person and one more; four actions of the user and changes of numbers.
  People and numbers are interchangeable, and no liveness is checked, so symmetry is
  sound.

`CHECK_DEADLOCK` is on everywhere: a closed account stutters in an action of its
own (`Terminated`), and so does the exhausted bound of forks.

### Fairness

* The main loop runs a callback whose file is readable and a timeout that is due:
  `ReadCb` (of `SignaldComms`), `RunError`, `HandleInput`, and `disconnect /\ Close`
  (`error /\ Close` in `SignaldTransfer`, `Close` in `SignaldGroups`, which has no other).
  A callback that has started runs on: `Callback`, `Closing`.  A write returns:
  `WriteJson \/ WriteNewline`.  In `SignaldSession` the main loop is one process with one
  condition: it does not stop while it has any of this to do.
* Threads are scheduled: `Spawn(p)`, `Thread(p)`.
* signald reads what it is sent (`DaemonRead`) and goes on answering what it was asked,
  without an order among requests; in `SignaldGroups` each list and each person's profile
  is answered in the end.  It connects a subscribed account to its server (`WsUp`); in
  `SignaldSession` this and the answers are one condition, too.  It may instead report
  errors or hang up, within the bounds.
* The user is never forced: no fairness for dialogs, menu actions or closing.
  Nor are a hangup or an incoming message forced to happen.

`SignaldMessages`, `SignaldProcmgmt` and `SignaldContacts` have no liveness properties
and no fairness.

## 4. What is proved

All theorems hold for every value of the constants that satisfies the named
assumptions in the modules (a buffer of at least two bytes; requests of at least one;
finite sets of locations, accounts and groups; disjoint kinds of names).

| module | theorem | result |
|---|---|---|
| `SignaldComms_Proofs` | `TypeCorrect`, `BufferNeverOverrun` | types; no write past the buffer, any size, any lines |
| | `FragmentsImplyError` | `FragmentsOnlyWhenFailing` |
| | `ImplementsLineChannel` | refinement of `LineChannel` |
| `SignaldTransfer_Proofs` | `TypeCorrect`, `FailedRequestsAreNotRead` | types, `FailedIsNeverRead` |
| | `ImplementsLineChannel` | refinement of `LineChannel`, any length of requests |
| | `MessagesKept` | `RequestsKeepMessage`, messages of any length |
| | `LinksStay` | `LinksKeepContent` |
| `SignaldConnect_Proofs` | `TypeCorrect`, `GivenUpIsNotConnected`, `UnableIsTrue` | types, `GiveUpIsFinal` and `UnableOnlyIfAllGaveUp` for any number of threads and tries |
| | `ConnectionIsWatched`, `ReleasedIfSingle` | `ConnectedIsWatched`, `ClosedIsReleased` |
| `SignaldProcmgmt_Proofs` | `TypeCorrect`, `UsagesBounded`, `PidfileIsCurrent` | types, `NeverOvercounted` and `PidfileNamesDaemon` for any mix of accounts |
| | `UsesAreCounted`, `KillOnlyByLast` | refinement of `DaemonUse`, `KilledOnlyWhenUnused`, if all accounts have the option |
| `SignaldSession_Proofs` | `TypeCorrect`, `ConnectedIsKnown`, `AccountIsNamed` | types and `AccountNamed`, whatever signald answers |
| | `StateIsTracked` | `GcTracksWebSocket` |
| | `CodeIsTheOneScanned` | `LinksScannedCode` as long as signald reported no error |
| `SignaldMessages_Proofs` | `TypeCorrect`, `EchoesAreInPlace`, `NewestIsRepliedTo`, `ReceiptsGoOut` | types, `EchoedOnceInPlace`, `RepliesToNewest`, `ReceiptsAccounted` |
| | `OutboxImplemented` | refinement of `Outbox` |
| `SignaldGroups_Proofs` | `TypeCorrect`, `StrangersAreAskedFor`, `RoomsListedOnce`, `LeftGroupsGo` | types, `NamedOrAsked`, `RoomsOnce`, `LeftGroupIsGone` |
| `SignaldContacts_Proofs` | `TypeCorrect`, `ContactsHaveOneBuddy`, `TooltipsAreLatest`, `EverybodyAssumed` | types, `OneBuddyEach`, `TooltipIsLatest`, `StatusAssumed` |

The arguments:

* *Comms.* `NoOverrun` follows from the types: between two `recv` the buffer has room
  for a byte and the terminator, `Len(buffer) + 2 <= BufSize`.  What is handled
  is right by `Assembly`: the number of handled lines and the wire position move
  together, and until an overflow the buffer holds exactly the first `off` bytes of
  line `cur`.  Without the last part, nothing would be known about the line a newline
  completes.  For the refinement, `Assembly` also shows that a full buffer belongs to
  a line that exceeds `BufSize - 2`.
* *Transfer.* `FailedIsNeverRead` by `Ends`: the byte before a newline, in the socket or
  at the end of a line, belongs to a request that was written, so a line never ends with
  one that failed.  For the refinement, `Stream` gives the place of each byte as long
  as no write failed: byte `b` of the `q`-th request after those read is at
  `q * (JsonLen + 1) + b`.  So the first newline is where the first request ends.
  `DetachImages` walks along a message, with one temporary file more or less for each
  image.  What it returns for every message follows by an induction over the natural
  numbers, stated as a lemma about sets of numbers (`Induction`) as the library's
  theorem cannot be instantiated: the text, the files and their contents are those of
  the first `n` elements.  Temporary files only grow, so what a request refers to stays
  as it was when the request was written.
* *Connect.* That the counter read is zero does not by itself mean that all gave up,
  because updates are lost.  The invariant `Counting` says that the counter, and every
  value a thread has loaded, is at least the number of threads that have not given up
  at that time.  So lost updates leave the counter too high and never too low, and zero
  means all gave up.  A thread that gives up has a failed last try (`Connecting`), so
  no socket is connected.  `Watching`: the socket in use has its source, or its thread
  is about to add it.  `Releasing`: the only thread reports at most one error, as the
  last thing it does, so that nothing of it is left when the account is freed, unless
  someone else asked for that (`early`).
* *Procmgmt.* `signald_usages` is at most the number of online accounts with the
  option, and equal to it if all have it; each step of `DaemonUse` reads that equation
  before and after the login or the close: a count of zero is a set without members.  Cardinalities
  of sets with one account added or removed are a lemma of their own.
  `PidfileNamesDaemon` needs `Naming`: a child that is about to save its pid is the last
  one or was so already when the last one was forked (`late`), and it has not saved it.
* *Session.* Types first, where a message that is unsubscribed is only on its way once
  closing has begun (`Unsubscribing`), so that a live account is never set to
  DISCONNECTED.  `AccountNamed` holds as `uuid` is never forgotten before the
  account is freed, and whoever is asked to subscribe, has been forwarded a message, or
  notes a receipt has a known uuid (`Known`).  `GcTracksWebSocket` by `Tracking`: if
  reports are unread, the last of them tells the state of signald's connection, and there
  are reports only for an account that is known and will take them over.  States of
  other names count for neither.
  `CodeIsTheOneScanned` by `Linking`: without an error, the greeting, the request for the
  accounts, their list, the request for a code and the code are one chain with one
  link at a time (`OneCode`), so there is one code, and the session is the one it
  belongs to (`CodeShown`).  An error breaks the chain, as it lets the user start another.
* *Messages.* Numbers are fresh: nothing in the socket was shown (`InboxInv`), the
  message in the slot was not shown and belongs to `last_conversation` (`SlotInv`), so an
  echo is the first of its message and in its place (`LogInv`).  Each acknowledgement
  adds one to the acknowledged and at most one to the echoed (`AckInv`).  For the
  refinement of `Outbox`, a step adds at most one line after all others
  (`OwnLinesGrow`), and the message in the slot is newer than all that were echoed
  (`EchoOrder`), since sending overwrites the slot.  What is newer
  than a cached message and can be quoted is in the cache before it (`CacheInv`);
  that is kept when the capacity is lowered, as the oldest go first.  Receipts are
  noted for a number that was not shown before, so that what waits was never tried, and
  the timer divides all that waits into written and lost (`ReceiptsInv`).
* *Groups.* A list in progress is empty (`RoomsInv`).  An answer on its way tells what
  signald knows at present, or a report behind it corrects it, so the groups it names are
  expected; and an entry is added to one that is there only when that was overlooked
  (`ListsInv`).
  `NamedOrAsked` is inductive: whatever takes a name away requests the profile, and
  an answer is on its way until it is handled.
* *Contacts.* The three properties are inductive together with the types: a second
  buddy would take a number that only the first one is told of.  That the status is
  assumed needs the request, which reaches the buddies of earlier sessions, and every
  way to make a buddy later.

Model-checked only: everything under fairness (`NothingOverlooked`, `ResolvedIfSingle`,
`LoginResolves`, `SyncCompletes`, `CloseTerminates`, `AskedIsAnswered`,
`RequestSettled`), since liveness and ENABLED are beyond TLAPS.  All other properties of
the passing runs are theorems as well.

## 5. What is not modelled, and the plan

Not modelled: formatting and markup of messages (quotes, reactions, mentions), wording
and logging, titles, aliases and avatars, typing notifications, receipts received,
tables of options, the status (a request without a state), the JSON library, libpurple
itself beyond the calls the plugin makes.  Inline images are handed to libpurple at
once and change nothing else.

The modules meet at their edges only: `SignaldSession` leaves messages to
`SignaldMessages` and groups to `SignaldGroups`, and treats a request as written or
not, which `SignaldTransfer` works out.  What would add most, in this order:

1. An abstract life of a connection (connecting, connected, closed) that
   `SignaldSession` refines, with the proof.
2. The composition of `SignaldSession` and `SignaldMessages`, and conversations that
   are closed while a message waits.
3. Typing notifications and the text of quotes and mentions, as operators.
