--------------------------- MODULE SignaldConnect ---------------------------
(***************************************************************************)
(* Connecting to signald, src/src/login.c.  signald_connect_socket starts  *)
(* one thread for each possible location of the socket.  The threads share *)
(* sa->fd, sa->watcher and sa->socket_paths_count with each other and with *)
(* the main loop, and no lock protects them.  Each access to one of them   *)
(* is a step of its own.                                                   *)
(***************************************************************************)
EXTENDS Integers, FiniteSets

CONSTANTS Paths,         \* the locations of the socket
          Choices,       \* those tried: one if the user set "socket", else up to two
          NoFd,          \* sa->fd = -1
          Listening,     \* locations where a signald may be listening
          MaxTries,      \* SIGNALD_TIMEOUT_SECONDS
          SetupMayFail,  \* may a path be too long, a socket or a thread not be created?
          CloseEarly     \* may the user disconnect while threads are still trying?

ASSUME PathsAssumption == IsFiniteSet(Paths) /\ NoFd \notin Paths
ASSUME ChoicesAssumption == Choices \subseteq SUBSET Paths /\ {} \notin Choices
ASSUME ListeningAssumption == Listening \subseteq Paths
ASSUME MaxTriesAssumption == MaxTries \in Nat
ASSUME SwitchesAssumption == SetupMayFail \in BOOLEAN /\ CloseEarly \in BOOLEAN

VARIABLES
  sa,         \* the SignaldAccount: "live" or "freed"
  fd,         \* sa->fd
  watcher,    \* sa->watcher: the path whose socket it watches
  sources,    \* input sources installed in the main loop
  socket_paths_count,
  pc,         \* per thread: the next access to shared state
  try, err,   \* per thread: loop counter, last result of connect()
  reg,        \* per thread: socket_paths_count as loaded for the decrement
  queue,      \* display_connection_error calls waiting for the main loop
  reported,   \* kinds of errors handed to purple_connection_error (history)
  gaveUp,     \* locations not tried, or whose thread has decremented
              \* socket_paths_count (history)
  misused,    \* sa was accessed after it was freed (history)
  early       \* a disconnect was due while threads were at work, for another
              \* reason than an error of theirs (history)

threadVars == <<pc, try, err, reg>>
accountVars == <<fd, watcher, sources, socket_paths_count>>
mainVars == <<sa, queue, reported, gaveUp, misused, early>>
vars == <<threadVars, accountVars, mainVars>>

PCs == {"unused", "new", "setup", "loop", "connect", "connected?", "setfd", "watch", "store",
        "check", "load", "decrement", "zero?", "done"}
Kinds == {"setup", "thread", "unable", "lost"}

\* The counter never falls below zero, whatever decrements are lost.
TypeOK ==
  /\ sa \in {"live", "freed"}
  /\ fd \in Paths \union {NoFd} /\ watcher \in Paths \union {NoFd}
  /\ sources \subseteq Paths
  /\ socket_paths_count \in 0..Cardinality(Paths)
  /\ pc \in [Paths -> PCs]
  /\ try \in [Paths -> Nat]
  /\ err \in [Paths -> {-1, 0}]
  /\ reg \in [Paths -> 0..Cardinality(Paths)]
  /\ queue \subseteq Paths \X Kinds
  /\ reported \subseteq Kinds
  /\ gaveUp \subseteq Paths
  /\ misused \in BOOLEAN /\ early \in BOOLEAN

\* signald_connect_socket up to the first try_connect.
Init ==
  /\ sa = "live"
  /\ fd = NoFd /\ watcher = NoFd /\ sources = {}
  /\ \E tried \in Choices :
       /\ socket_paths_count = Cardinality(tried)
       /\ pc = [p \in Paths |-> IF p \in tried THEN "new" ELSE "unused"]
       /\ gaveUp = Paths \ tried
  /\ try = [p \in Paths |-> 1]
  /\ err = [p \in Paths |-> -1]
  /\ reg = [p \in Paths |-> 0]
  /\ queue = {} /\ reported = {} /\ misused = FALSE /\ early = FALSE

Goto(p, l) == pc' = [pc EXCEPT ![p] = l]

-----------------------------------------------------------------------------
(* do_try_connect.                                                         *)

\* try_connect, in the main thread.
Spawn(p) ==
  /\ pc[p] = "new"
  /\ \/ Goto(p, "setup") /\ UNCHANGED reported
     \/ SetupMayFail /\ Goto(p, "done") /\ reported' = reported \union {"thread"}
  /\ UNCHANGED <<try, err, reg, accountVars, sa, queue, gaveUp, misused, early>>

\* A mutant of Setup: a thread that reports an error goes on.
SetupGoesOn(p) ==
  /\ pc[p] = "setup"
  /\ Goto(p, "loop")
  /\ \/ UNCHANGED queue
     \/ SetupMayFail /\ queue' = queue \union {<<p, "setup">>}
  /\ UNCHANGED <<try, err, reg, accountVars, sa, reported, gaveUp, misused, early>>

\* The path is checked and the socket created.
Setup(p) ==
  /\ pc[p] = "setup"
  /\ \/ Goto(p, "loop") /\ UNCHANGED queue
     \/ SetupMayFail /\ Goto(p, "done") /\ queue' = queue \union {<<p, "setup">>}
  /\ UNCHANGED <<try, err, reg, accountVars, sa, reported, gaveUp, misused, early>>

\* The loop condition.  It reads sa->fd only if the other parts hold.
Trying(p) == try[p] <= MaxTries /\ err[p] # 0

LoopTest(p) ==
  /\ pc[p] = "loop"
  /\ Trying(p) => sa = "live"
  /\ Goto(p, IF Trying(p) /\ fd = NoFd THEN "connect" ELSE "connected?")
  /\ UNCHANGED <<try, err, reg, accountVars, mainVars>>

\* connect() succeeds only where signald listens; sleep(1) follows.
Connect(p) ==
  /\ pc[p] = "connect"
  /\ \/ p \in Listening /\ err' = [err EXCEPT ![p] = 0]
     \/ err' = [err EXCEPT ![p] = -1]
  /\ try' = [try EXCEPT ![p] = @ + 1]
  /\ Goto(p, "loop")
  /\ UNCHANGED <<reg, accountVars, mainVars>>

\* A mutant of Connected: the result of connect() is not looked at.
ConnectedIgnored(p) ==
  /\ pc[p] = "connected?"
  /\ Goto(p, "check")
  /\ UNCHANGED <<try, err, reg, accountVars, mainVars>>

Connected(p) ==
  /\ pc[p] = "connected?"
  /\ Goto(p, IF err[p] = 0 THEN "setfd" ELSE "check")
  /\ UNCHANGED <<try, err, reg, accountVars, mainVars>>

SetFd(p) ==
  /\ pc[p] = "setfd" /\ sa = "live"
  /\ fd' = p
  /\ Goto(p, "watch")
  /\ UNCHANGED <<try, err, reg, watcher, sources, socket_paths_count, mainVars>>

\* A mutant of AddWatch: only the first socket is watched.
AddWatchOnce(p) ==
  /\ pc[p] = "watch" /\ sa = "live"
  /\ sources' = IF sources = {} THEN {p} ELSE sources
  /\ Goto(p, "store")
  /\ UNCHANGED <<try, err, reg, fd, watcher, socket_paths_count, mainVars>>

\* purple_input_add, and the assignment of its result.
AddWatch(p) ==
  /\ pc[p] = "watch" /\ sa = "live"
  /\ sources' = sources \union {p}
  /\ Goto(p, "store")
  /\ UNCHANGED <<try, err, reg, fd, watcher, socket_paths_count, mainVars>>

\* A mutant of StoreWatch: the result of purple_input_add is not kept.
StoreWatchLost(p) ==
  /\ pc[p] = "store" /\ sa = "live"
  /\ Goto(p, "check")
  /\ UNCHANGED <<try, err, reg, accountVars, mainVars>>

StoreWatch(p) ==
  /\ pc[p] = "store" /\ sa = "live"
  /\ watcher' = p
  /\ Goto(p, "check")
  /\ UNCHANGED <<try, err, reg, fd, sources, socket_paths_count, mainVars>>

\* Has a concurrent attempt been successful by now?
Check(p) ==
  /\ pc[p] = "check" /\ sa = "live"
  /\ Goto(p, IF fd = NoFd THEN "load" ELSE "done")
  /\ UNCHANGED <<try, err, reg, accountVars, mainVars>>

\* socket_paths_count-- loads, subtracts and stores.
Load(p) ==
  /\ pc[p] = "load" /\ sa = "live"
  /\ reg' = [reg EXCEPT ![p] = socket_paths_count]
  /\ Goto(p, "decrement")
  /\ UNCHANGED <<try, err, accountVars, mainVars>>

\* A mutant of Decrement: the path is counted twice.
DecrementTwice(p) ==
  /\ pc[p] = "decrement" /\ sa = "live"
  /\ socket_paths_count' = reg[p] - 2
  /\ gaveUp' = gaveUp \union {p}
  /\ Goto(p, "zero?")
  /\ UNCHANGED <<try, err, reg, fd, watcher, sources, sa, queue, reported, misused, early>>

Decrement(p) ==
  /\ pc[p] = "decrement" /\ sa = "live"
  /\ socket_paths_count' = reg[p] - 1
  /\ gaveUp' = gaveUp \union {p}
  /\ Goto(p, "zero?")
  /\ UNCHANGED <<try, err, reg, fd, watcher, sources, sa, queue, reported, misused, early>>

\* The value compared with zero: the compiler may read it again or use the
\* one it has just stored.
CountSeen(p) == {socket_paths_count, reg[p] - 1}

\* A mutant of ZeroTest: every thread that gives up reports the failure.
ZeroTestSkipped(p) ==
  /\ pc[p] = "zero?" /\ sa = "live"
  /\ queue' = queue \union {<<p, "unable">>}
  /\ Goto(p, "done")
  /\ UNCHANGED <<try, err, reg, accountVars, sa, reported, gaveUp, misused, early>>

\* A mutant of ZeroTest: off by one.
ZeroTestLate(p) ==
  /\ pc[p] = "zero?" /\ sa = "live"
  /\ \E count \in CountSeen(p) :
       queue' = IF count = -1 THEN queue \union {<<p, "unable">>} ELSE queue
  /\ Goto(p, "done")
  /\ UNCHANGED <<try, err, reg, accountVars, sa, reported, gaveUp, misused, early>>

\* Are no trying threads remaining?
ZeroTest(p) ==
  /\ pc[p] = "zero?" /\ sa = "live"
  /\ \E count \in CountSeen(p) :
       queue' = IF count = 0 THEN queue \union {<<p, "unable">>} ELSE queue
  /\ Goto(p, "done")
  /\ UNCHANGED <<try, err, reg, accountVars, sa, reported, gaveUp, misused, early>>

\* A thread reaches an access to an account that signald_close has freed.
\* What would follow is undefined; the model stops the thread there.
ThreadMisuse(p) ==
  /\ sa = "freed"
  /\ \/ pc[p] = "loop" /\ Trying(p)
     \/ pc[p] \in {"setfd", "watch", "store", "check", "load", "decrement", "zero?"}
  /\ misused' = TRUE
  /\ Goto(p, "done")
  /\ UNCHANGED <<try, err, reg, accountVars, sa, queue, reported, gaveUp, early>>

Thread(p) ==
  \/ Setup(p) \/ LoopTest(p) \/ Connect(p) \/ Connected(p)
  \/ SetFd(p) \/ AddWatch(p) \/ StoreWatch(p)
  \/ Check(p) \/ Load(p) \/ Decrement(p) \/ ZeroTest(p)
  \/ ThreadMisuse(p)

-----------------------------------------------------------------------------
(* The main loop.  signald_connect_socket has returned to it once every    *)
(* thread was spawned.                                                     *)

MainLoop == \A p \in Paths : pc[p] # "new"
AllDone == \A p \in Paths : pc[p] \in {"done", "unused"}
Settled == AllDone /\ queue = {}

\* display_connection_error, which finds the connection through sa.
RunError ==
  /\ MainLoop
  /\ \E e \in queue :
       /\ queue' = queue \ {e}
       /\ IF sa = "live"
          THEN reported' = reported \union {e[2]} /\ UNCHANGED misused
          ELSE misused' = TRUE /\ UNCHANGED reported
  /\ UNCHANGED <<threadVars, accountVars, sa, gaveUp, early>>

\* signald_read_cb, called for any of the input sources, finds the end of file, or
\* the handler of a line reports an error.  That may be as soon as the source is
\* there, while the thread that added it still goes on.
ReadCb ==
  /\ MainLoop /\ sources # {}
  /\ IF sa = "live"
     THEN /\ reported' = reported \union {"lost"} /\ early' = (early \/ ~AllDone)
          /\ UNCHANGED misused
     ELSE misused' = TRUE /\ UNCHANGED <<reported, early>>
  /\ UNCHANGED <<threadVars, accountVars, sa, queue, gaveUp>>

\* signald_close: the disconnect that an error schedules, or the user's.
Close ==
  /\ MainLoop /\ sa = "live"
  /\ reported # {} \/ CloseEarly \/ Settled
  /\ sources' = sources \ {watcher}
  /\ watcher' = NoFd
  /\ sa' = "freed"
  /\ early' = (early \/ ~(reported # {} \/ Settled))
  /\ UNCHANGED <<threadVars, fd, socket_paths_count, queue, reported, gaveUp, misused>>

Terminated == AllDone /\ sa = "freed" /\ queue = {} /\ UNCHANGED vars

Next ==
  \/ \E p \in Paths : Spawn(p)
  \/ \E p \in Paths : Thread(p)
  \/ RunError
  \/ ReadCb
  \/ Close
  \/ Terminated

Spec == Init /\ [][Next]_vars

\* Threads are scheduled, the main loop runs what is queued for it.  Nothing
\* makes the user disconnect.
Fairness ==
  /\ \A p \in Paths : WF_vars(Spawn(p)) /\ WF_vars(Thread(p))
  /\ WF_vars(RunError)

FairSpec == Spec /\ Fairness

-----------------------------------------------------------------------------
(* Properties.                                                             *)

Unable == "unable" \in reported \/ \E p \in Paths : <<p, "unable">> \in queue

\* "Unable to connect to any socket location." is said only after every
\* thread has given up and while no socket is connected, although the
\* decrements and the tests of the counter interleave freely; and a thread that
\* has connected never counts as one that has given up.
GiveUpIsFinal == \A p \in gaveUp : err[p] # 0 /\ fd # p /\ p \notin sources
UnableMeansAll == Unable => gaveUp = Paths /\ fd = NoFd
UnableOnlyIfAllGaveUp == GiveUpIsFinal /\ UnableMeansAll

\* The socket the account reads from has an input source, once the threads
\* have come to an end: no connection is left that nobody listens to.
ConnectedIsWatched == AllDone /\ sa = "live" /\ fd # NoFd => fd \in sources

\* With one location, as when the user has set it, nothing is shared but with the
\* main loop.
Single == Cardinality({p \in Paths : pc[p] # "unused"}) = 1

\* The attempt comes to an end: a connection or an error.
Resolved == <>(reported # {} \/ fd # NoFd \/ sa = "freed")
ResolvedIfSingle == Single => Resolved

\* signald_close leaves nothing behind that refers to the account: no thread, queued
\* error or input source uses it once it is freed, and no input source is left
\* ("remove input watcher", login.c:232).  That is so if there is one location, and
\* neither the user nor signald_read_cb asks for the disconnect while the thread is
\* at work: a signald that hangs up right after purple_input_add has the
\* account closed before its watcher is stored and its fd tested (login.c:101-103).
ClosedIsReleased ==
  Single /\ ~early => ~misused /\ (sa = "freed" => sources = {})
=============================================================================
