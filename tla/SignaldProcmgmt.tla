--------------------------- MODULE SignaldProcmgmt ---------------------------
(***************************************************************************)
(* Starting and stopping the daemon, src/src/signald_procmgmt.c, and the   *)
(* places in signald_login and signald_close (login.c) that call it.  The  *)
(* daemon is a child process that saves its own pid in a file before it    *)
(* executes signald; parent and child run concurrently.                    *)
(*                                                                         *)
(* Pids are numbered in the order of the forks.                            *)
(***************************************************************************)
EXTENDS Integers, FiniteSets

CONSTANTS Accounts,   \* the Signal accounts of the program
          Managed,    \* those with the option "handle-signald" at login
          MaxForks,   \* bound: number of calls of fork
          MayFail     \* may fork, exec or an access to the pid file fail, or the
                      \* daemon exit by itself?

ASSUME AccountsAssumption == IsFiniteSet(Accounts) /\ Managed \subseteq Accounts
ASSUME MaxForksAssumption == MaxForks \in Nat
ASSUME MayFailAssumption == MayFail \in BOOLEAN

Absent == -1          \* there is no pid file
Empty == 0            \* the pid file names none of the children
Pids == 1..MaxForks

VARIABLES
  signald_usages,
  online,             \* accounts between signald_login and signald_close
  forks,              \* number of calls of fork, the pid of the last child
  child,              \* what became of each child
  pidfile,            \* Absent, Empty or the pid in the file
  saved,              \* children that have written their pid to the file (history)
  late,               \* children still about to save their pid at the last fork (history)
  kills               \* number of calls of signald_kill_process (history)

vars == <<signald_usages, online, forks, child, pidfile, saved, late, kills>>

\* Forked; with the pid file open, as a file name or after its removal; done with
\* the file, with or without success; as signald; ended.
ChildStates == {"none", "forked", "opened", "unlinked", "ready", "running", "dead"}
Saving == {"forked", "opened", "unlinked"}
Alive == Saving \union {"ready", "running"}

TypeOK ==
  /\ signald_usages \in 0..Cardinality(Accounts)
  /\ online \subseteq Accounts
  /\ forks \in 0..MaxForks
  /\ child \in [Pids -> ChildStates]
  /\ pidfile \in {Absent, Empty} \union 1..forks
  /\ saved \subseteq 1..forks /\ late \subseteq 1..forks
  /\ kills \in 0..forks

\* There may be a file of an earlier run of the program.
Init ==
  /\ signald_usages = 0 /\ online = {}
  /\ forks = 0 /\ child = [c \in Pids |-> "none"]
  /\ pidfile \in {Absent, Empty}
  /\ saved = {} /\ late = {} /\ kills = 0

-----------------------------------------------------------------------------
(* The parent: signald_signald_start and signald_connection_closed.        *)

\* fork, for the first account that wants the daemon.  The result is not
\* looked at: a fork that fails counts like one that succeeds.
Fork ==
  /\ forks < MaxForks
  /\ forks' = forks + 1
  /\ late' = {c \in Pids : child[c] \in Saving}
  /\ \/ child' = [child EXCEPT ![forks'] = "forked"]
     \/ MayFail /\ UNCHANGED child

NoFork == UNCHANGED <<forks, child, late>>

\* A mutant of Start: the use is counted only by the account that forks.
StartCountsForks ==
  IF signald_usages = 0 THEN Fork /\ signald_usages' = 1
                        ELSE NoFork /\ UNCHANGED signald_usages

Start ==
  /\ IF signald_usages = 0 THEN Fork ELSE NoFork
  /\ signald_usages' = signald_usages + 1

Login(a) ==
  /\ a \notin online
  /\ online' = online \union {a}
  /\ IF a \in Managed THEN Start ELSE NoFork /\ UNCHANGED signald_usages
  /\ UNCHANGED <<pidfile, saved, kills>>

\* signald_kill_process.  If the file cannot be read or holds no pid, the variable
\* that is given to kill() is not initialized: any process may get the signal,
\* or none.  Then the file is removed, under the hands of a child that has it open.
Victims == IF pidfile \in Pids /\ ~MayFail THEN {pidfile} ELSE Pids \union {Empty}

Kill ==
  /\ \E victim \in Victims, removed \in BOOLEAN :
       /\ removed \/ MayFail
       /\ child' = [c \in Pids |->
                     IF c = victim /\ child[c] \in Alive THEN "dead"
                     ELSE IF child[c] = "opened" /\ removed THEN "unlinked" ELSE child[c]]
       /\ pidfile' = IF removed THEN Absent ELSE pidfile
  /\ kills' = kills + 1

\* A mutant of ConnectionClosed: the file is removed by every account.
ConnectionClosedRemoves ==
  /\ signald_usages' = IF signald_usages > 0 THEN signald_usages - 1 ELSE 0
  /\ IF signald_usages = 1 THEN Kill ELSE pidfile' = Absent /\ UNCHANGED <<child, kills>>

\* A mutant of ConnectionClosed: killed by the first account that closes.
ConnectionClosedKills ==
  /\ signald_usages' = IF signald_usages > 0 THEN signald_usages - 1 ELSE 0
  /\ IF signald_usages > 0 THEN Kill ELSE UNCHANGED <<child, pidfile, kills>>

\* A mutant of ConnectionClosed: off by one, the last use is not taken back.
ConnectionClosedKeepsLast ==
  /\ signald_usages' = IF signald_usages > 1 THEN signald_usages - 1 ELSE signald_usages
  /\ IF signald_usages = 1 THEN Kill ELSE UNCHANGED <<child, pidfile, kills>>

ConnectionClosed ==
  /\ signald_usages' = IF signald_usages > 0 THEN signald_usages - 1 ELSE 0
  /\ IF signald_usages = 1 THEN Kill ELSE UNCHANGED <<child, pidfile, kills>>

\* signald_close ends with signald_connection_closed for every account.
Close(a) ==
  /\ a \in online
  /\ online' = online \ {a}
  /\ ConnectionClosed
  /\ UNCHANGED <<forks, saved, late>>

-----------------------------------------------------------------------------
(* The child, up to execlp and beyond.                                     *)

ChildGoto(c, s) == child' = [child EXCEPT ![c] = s]

\* A pid file that cannot be opened is skipped, and the child goes on.
OpenPidfile(c) ==
  /\ child[c] = "forked"
  /\ \/ ChildGoto(c, "opened") /\ pidfile' = Empty
     \/ MayFail /\ ChildGoto(c, "ready") /\ UNCHANGED pidfile
  /\ UNCHANGED <<signald_usages, online, forks, saved, late, kills>>

WritePid(c) ==
  /\ child[c] \in {"opened", "unlinked"}
  /\ ChildGoto(c, "ready")
  /\ \/ child[c] = "opened" /\ pidfile' = c /\ saved' = saved \union {c}
     \/ child[c] = "unlinked" /\ UNCHANGED <<pidfile, saved>>
     \/ MayFail /\ UNCHANGED <<pidfile, saved>>
  /\ UNCHANGED <<signald_usages, online, forks, late, kills>>

\* execlp only returns on error, then the child aborts.
Exec(c) ==
  /\ child[c] = "ready"
  /\ ChildGoto(c, "running") \/ (MayFail /\ ChildGoto(c, "dead"))
  /\ UNCHANGED <<signald_usages, online, forks, pidfile, saved, late, kills>>

DaemonExit(c) ==
  /\ MayFail /\ child[c] = "running"
  /\ ChildGoto(c, "dead")
  /\ UNCHANGED <<signald_usages, online, forks, pidfile, saved, late, kills>>

ChildStep(c) == OpenPidfile(c) \/ WritePid(c) \/ Exec(c)

\* The bound is reached and nobody is left.
Exhausted == forks = MaxForks /\ online = {} /\ UNCHANGED vars

Next ==
  \/ \E a \in Accounts : Login(a) \/ Close(a)
  \/ \E c \in Pids : ChildStep(c) \/ DaemonExit(c)
  \/ Exhausted

Spec == Init /\ [][Next]_vars

-----------------------------------------------------------------------------
(* Properties.                                                             *)

\* The daemon is never kept for an account that is gone: the count does not
\* exceed the number of accounts that want it, so that the last of them to
\* close finds it stopped or stops it.
NeverOvercounted == signald_usages <= Cardinality(online \intersect Managed)

\* signald_connection_closed: the daemon is killed only if "this was the last
\* account using the daemon".
KilledOnlyWhenUnused == [][kills' # kills => online' \intersect Managed = {}]_vars

\* The daemon is started by the first of the accounts that want it to log in and
\* stopped by the last to close, though all that is kept of them is their number:
\* never in between, and always then.
Usage == INSTANCE DaemonUse
           WITH users <- online \intersect Managed, starts <- forks, stops <- kills
UsedAsPromised == Usage!Spec

\* Once the daemon in use has saved its pid, the file keeps naming it, whoever comes
\* and goes meanwhile: closing the last account will find it.  Only a child
\* of an earlier use that was still about to save its own pid when the daemon was forked
\* can take the file over.  A daemon that could not save its pid is not found.
PidfileNamesDaemon ==
  signald_usages > 0 /\ forks \in saved =>
    pidfile = forks \/ (late # {} /\ pidfile \in late \union {Empty})
=============================================================================
