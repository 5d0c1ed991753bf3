------------------------ MODULE SignaldProcmgmt_Proofs ------------------------
(***************************************************************************)
(* Theorems about SignaldProcmgmt, for any set of accounts and any number  *)
(* of starts of the daemon.                                                *)
(***************************************************************************)
EXTENDS SignaldProcmgmt, FiniteSetTheorems, TLAPS

Users == online \intersect Managed

\* Every kill ends a use of the daemon that a call of fork began.
KillsPaired == kills + (IF signald_usages > 0 THEN 1 ELSE 0) <= forks

Typing ==
  /\ signald_usages \in Nat
  /\ online \subseteq Accounts
  /\ forks \in 0..MaxForks
  /\ child \in [Pids -> ChildStates]
  /\ \A c \in Pids : child[c] # "none" => c <= forks
  /\ pidfile \in {Absent, Empty} \union 1..forks
  /\ saved \subseteq 1..forks /\ late \subseteq 1..forks
  /\ kills \in Nat

\* Adding an account to and removing it from the users.
LEMMA UsersCardinality ==
  ASSUME NEW S, S \subseteq Accounts
  PROVE  /\ Cardinality(S) \in Nat
         /\ Cardinality(S) <= Cardinality(Accounts)
         /\ Cardinality(S) = 0 => S = {}
         /\ \A a \in Accounts \ S : Cardinality(S \union {a}) = Cardinality(S) + 1
         /\ \A a \in S : Cardinality(S \ {a}) = Cardinality(S) - 1
<1>1. IsFiniteSet(Accounts) /\ IsFiniteSet(S)
  BY AccountsAssumption, FS_Subset
<1>2. Cardinality(S) \in Nat /\ Cardinality(S) <= Cardinality(Accounts)
  BY <1>1, FS_Subset, FS_CardinalityType
<1>3. Cardinality(S) = 0 => S = {}
  BY <1>1, FS_EmptySet
<1>4. \A a \in Accounts \ S : Cardinality(S \union {a}) = Cardinality(S) + 1
  BY <1>1, FS_AddElement
<1>5. \A a \in S : Cardinality(S \ {a}) = Cardinality(S) - 1
  BY <1>1, FS_RemoveElement
<1> QED
  BY <1>2, <1>3, <1>4, <1>5

LEMMA TypingInvariant == Spec => [](Typing /\ KillsPaired)
<1> USE MaxForksAssumption, AccountsAssumption
<1> USE DEF Typing, KillsPaired, Pids, Absent, Empty, ChildStates
<1>1. Init => Typing /\ KillsPaired
  BY DEF Init
<1>2. Typing /\ KillsPaired /\ [Next]_vars => (Typing /\ KillsPaired)'
  <2> SUFFICES ASSUME Typing, KillsPaired, [Next]_vars PROVE (Typing /\ KillsPaired)'
    OBVIOUS
  <2>1. ASSUME NEW a \in Accounts, Login(a) PROVE (Typing /\ KillsPaired)'
    <3>1. CASE Fork /\ signald_usages = 0 /\ signald_usages' = signald_usages + 1
      <4>1. late' \subseteq 1..forks'
        BY <3>1 DEF Fork, Saving
      <4> QED
        BY <2>1, <3>1, <4>1 DEF Login, Fork
    <3>2. CASE NoFork /\ UNCHANGED signald_usages
      BY <2>1, <3>2 DEF Login, NoFork
    <3>3. CASE NoFork /\ signald_usages # 0 /\ signald_usages' = signald_usages + 1
      BY <2>1, <3>3 DEF Login, NoFork
    <3> QED
      BY <2>1, <3>1, <3>2, <3>3 DEF Login, Start
  <2>2. ASSUME NEW a \in Accounts, Close(a) PROVE (Typing /\ KillsPaired)'
    <3>1. /\ signald_usages' = IF signald_usages > 0 THEN signald_usages - 1 ELSE 0
          /\ online' \subseteq Accounts
          /\ UNCHANGED <<forks, saved, late>>
      BY <2>2 DEF Close, ConnectionClosed
    <3>2. CASE signald_usages = 1
      <4>1. Kill
        BY <2>2, <3>2 DEF Close, ConnectionClosed
      <4>2. /\ child' \in [Pids -> ChildStates]
            /\ \A c \in Pids : child'[c] # "none" => child[c] # "none"
        <5>1. PICK victim \in Victims : \E removed \in BOOLEAN :
                 /\ removed \/ MayFail
                 /\ child' = [c \in Pids |->
                      IF c = victim /\ child[c] \in Alive THEN "dead"
                      ELSE IF child[c] = "opened" /\ removed THEN "unlinked" ELSE child[c]]
                 /\ pidfile' = IF removed THEN Absent ELSE pidfile
          BY <4>1 DEF Kill
        <5> QED
          BY <5>1 DEF Alive, Saving
      <4>3. pidfile' \in {Absent, pidfile} /\ kills' = kills + 1
        BY <4>1 DEF Kill
      <4> QED
        BY <3>1, <3>2, <4>2, <4>3
    <3>3. CASE signald_usages # 1
      <4>1. UNCHANGED <<child, pidfile, kills>>
        BY <2>2, <3>3 DEF Close, ConnectionClosed
      <4> QED
        BY <3>1, <3>3, <4>1
    <3> QED
      BY <3>2, <3>3
  <2>3. ASSUME NEW c \in Pids, ChildStep(c) PROVE (Typing /\ KillsPaired)'
    <3>1. UNCHANGED <<signald_usages, online, forks, late, kills>>
      BY <2>3 DEF ChildStep, OpenPidfile, WritePid, Exec
    <3>2. child' \in [Pids -> ChildStates]
      BY <2>3 DEF ChildStep, OpenPidfile, WritePid, Exec, ChildGoto
    <3>3. ASSUME WritePid(c) PROVE c \in 1..forks
      BY <3>3 DEF WritePid
    <3>4. pidfile' \in {Absent, Empty} \union 1..forks /\ saved' \subseteq 1..forks
      BY <2>3, <3>3 DEF ChildStep, OpenPidfile, WritePid, Exec
    <3>5. \A d \in Pids : child'[d] # "none" => child[d] # "none"
      BY <2>3 DEF ChildStep, OpenPidfile, WritePid, Exec, ChildGoto
    <3> QED
      BY <3>1, <3>2, <3>4, <3>5
  <2>4. ASSUME NEW c \in Pids, DaemonExit(c) PROVE (Typing /\ KillsPaired)'
    BY <2>4 DEF DaemonExit, ChildGoto
  <2>5. CASE UNCHANGED vars
    BY <2>5 DEF vars
  <2> QED
    BY <2>1, <2>2, <2>3, <2>4, <2>5 DEF Next, Exhausted
<1> QED
  BY <1>1, <1>2, PTL DEF Spec

(***************************************************************************)
(* The count of uses.                                                      *)
(***************************************************************************)

\* signald_usages never exceeds the number of accounts that want the daemon,
\* also when accounts with and without the option are mixed.
THEOREM UsagesBounded == Spec => []NeverOvercounted
<1> USE AccountsAssumption
<1>1. Init => NeverOvercounted
  <2>1. Cardinality({} \intersect Managed) = 0
    BY FS_EmptySet
  <2> QED
    BY <2>1 DEF Init, NeverOvercounted
<1>2. Typing /\ NeverOvercounted /\ [Next]_vars => NeverOvercounted'
  <2> SUFFICES ASSUME Typing, NeverOvercounted, [Next]_vars PROVE NeverOvercounted'
    OBVIOUS
  <2>1. /\ signald_usages \in Nat
        /\ Users \subseteq Accounts
        /\ Cardinality(Users) \in Nat
        /\ signald_usages <= Cardinality(Users)
    BY UsersCardinality DEF Typing, NeverOvercounted, Users
  <2>2. ASSUME NEW a \in Accounts, Login(a) PROVE NeverOvercounted'
    <3>1. CASE a \in Managed
      <4>1. a \notin Users /\ Users' = Users \union {a}
        BY <2>2, <3>1 DEF Login, Users
      <4>2. Cardinality(Users') = Cardinality(Users) + 1
        BY <2>1, <4>1, UsersCardinality
      <4>3. signald_usages' = signald_usages + 1
        BY <2>2, <3>1 DEF Login, Start
      <4> QED
        BY <2>1, <4>2, <4>3 DEF NeverOvercounted, Users
    <3>2. CASE a \notin Managed
      <4>1. Users' = Users /\ UNCHANGED signald_usages
        BY <2>2, <3>2 DEF Login, Users
      <4> QED
        BY <2>1, <4>1 DEF NeverOvercounted, Users
    <3> QED
      BY <3>1, <3>2
  <2>3. ASSUME NEW a \in Accounts, Close(a) PROVE NeverOvercounted'
    <3>1. signald_usages' = IF signald_usages > 0 THEN signald_usages - 1 ELSE 0
      BY <2>3 DEF Close, ConnectionClosed
    <3>2. CASE a \in Users
      <4>1. Users' = Users \ {a}
        BY <2>3 DEF Close, Users
      <4>2. Cardinality(Users') = Cardinality(Users) - 1 /\ Cardinality(Users') \in Nat
        BY <2>1, <3>2, <4>1, UsersCardinality
      <4> QED
        BY <2>1, <3>1, <4>2 DEF NeverOvercounted, Users
    <3>3. CASE a \notin Users
      <4>1. Users' = Users
        BY <2>3, <3>3 DEF Close, Users
      <4>2. Cardinality(Users') = Cardinality(Users)
        BY <4>1
      <4>3. signald_usages' <= Cardinality(Users')
        BY <2>1, <3>1, <4>2
      <4> QED
        BY <4>3 DEF NeverOvercounted, Users
    <3> QED
      BY <3>2, <3>3
  <2>4. ASSUME UNCHANGED <<signald_usages, online>> PROVE NeverOvercounted'
    BY <2>4 DEF NeverOvercounted
  <2> QED
    BY <2>2, <2>3, <2>4
    DEF Next, ChildStep, OpenPidfile, WritePid, Exec, DaemonExit, Exhausted, vars
<1> QED
  BY <1>1, <1>2, TypingInvariant, PTL DEF Spec

\* Every reachable state is well typed; in particular signald_kill_process is
\* called at most once for each call of fork.
THEOREM TypeCorrect == Spec => []TypeOK
<1>1. Typing /\ KillsPaired /\ NeverOvercounted => TypeOK
  <2> SUFFICES ASSUME Typing, KillsPaired, NeverOvercounted PROVE TypeOK
    OBVIOUS
  <2>1. Users \subseteq Accounts
    BY DEF Users, Typing
  <2>2. Cardinality(Users) \in Nat /\ Cardinality(Users) <= Cardinality(Accounts)
    BY <2>1, UsersCardinality
  <2>3. Cardinality(Accounts) \in Nat
    BY AccountsAssumption, FS_CardinalityType
  <2>4. signald_usages \in 0..Cardinality(Accounts)
    BY <2>2, <2>3 DEF NeverOvercounted, Typing, Users
  <2>5. kills \in 0..forks
    BY MaxForksAssumption DEF Typing, KillsPaired
  <2> QED
    BY <2>4, <2>5 DEF Typing, TypeOK
<1> QED
  BY <1>1, TypingInvariant, UsagesBounded, PTL

(***************************************************************************)
(* The pid file.  The daemon in use is the child of the last fork.  Others *)
(* write the file only if they were about to when it was forked, and the   *)
(* file is removed only with the last use.                                 *)
(***************************************************************************)

Naming ==
  /\ \A c \in Pids : c # forks /\ child[c] \in Saving => c \in late
  /\ \A c \in Pids : child[c] \in {"none"} \union Saving => c \notin saved
  /\ signald_usages > 0 => forks > 0
  /\ PidfileNamesDaemon

LEMMA NamingStep ==
  ASSUME Typing, Naming, [Next]_vars PROVE Naming'
<1> USE MaxForksAssumption
<1> USE DEF Typing, Naming, PidfileNamesDaemon, Pids, Saving
\* The file is left alone, and no child starts to save its pid.
<1>1. ASSUME UNCHANGED <<signald_usages, forks, saved, late, pidfile>>,
             \A c \in Pids : \/ child'[c] = child[c]
                             \/ child'[c] \in {"ready", "running", "dead"}
      PROVE  Naming'
  BY <1>1
<1>2. ASSUME NEW a \in Accounts, Login(a) PROVE Naming'
  <2>1. CASE Fork /\ signald_usages = 0
    <3>1. /\ forks' = forks + 1 /\ forks' \in Pids /\ child[forks'] = "none"
          /\ late' = {c \in Pids : child[c] \in Saving}
          /\ child' = [child EXCEPT ![forks'] = "forked"] \/ UNCHANGED child
          /\ UNCHANGED saved
      BY <1>2, <2>1 DEF Fork, Login
    <3>2. child'[forks'] \in {"forked", "none"} /\ \A c \in Pids : c # forks' => child'[c] = child[c]
      BY <3>1
    <3>3. forks' \notin saved'
      BY <3>1
    <3> QED
      BY <3>1, <3>2, <3>3
  <2>2. CASE NoFork /\ UNCHANGED signald_usages
    BY <1>2, <2>2, <1>1 DEF Login, NoFork
  <2>3. CASE NoFork /\ signald_usages # 0
    BY <1>2, <2>3 DEF Login, NoFork, Start
  <2> QED
    BY <1>2, <2>1, <2>2, <2>3 DEF Login, Start
<1>3. ASSUME NEW a \in Accounts, Close(a) PROVE Naming'
  <2>1. UNCHANGED <<forks, saved, late>>
    BY <1>3 DEF Close
  <2>2. CASE signald_usages = 1
    <3>1. signald_usages' = 0 /\ Kill
      BY <1>3, <2>2 DEF Close, ConnectionClosed
    <3>2. PICK victim \in Victims : \E removed \in BOOLEAN :
             /\ removed \/ MayFail
             /\ child' = [c \in Pids |->
                  IF c = victim /\ child[c] \in Alive THEN "dead"
                  ELSE IF child[c] = "opened" /\ removed THEN "unlinked" ELSE child[c]]
             /\ pidfile' = IF removed THEN Absent ELSE pidfile
      BY <3>1 DEF Kill
    <3>3. \A c \in Pids : /\ child'[c] \in Saving => child[c] \in Saving
                          /\ child'[c] = "none" => child[c] = "none"
      BY <3>2
    <3> QED
      BY <2>1, <3>1, <3>3
  <2>3. CASE signald_usages # 1
    BY <1>3, <2>1, <2>3 DEF Close, ConnectionClosed
  <2> QED
    BY <2>2, <2>3
<1>4. ASSUME NEW c \in Pids, ChildStep(c) PROVE Naming'
  <2>1. CASE OpenPidfile(c)
    <3>1. child[c] = "forked" /\ UNCHANGED <<signald_usages, forks, saved, late>>
      BY <2>1 DEF OpenPidfile
    <3>2. CASE child' = [child EXCEPT ![c] = "opened"] /\ pidfile' = Empty
      BY <3>1, <3>2
    <3>3. CASE child' = [child EXCEPT ![c] = "ready"] /\ UNCHANGED pidfile
      BY <1>1, <3>1, <3>3
    <3> QED
      BY <2>1, <3>2, <3>3 DEF OpenPidfile, ChildGoto
  <2>2. CASE WritePid(c)
    <3>1. /\ child[c] \in {"opened", "unlinked"} /\ child' = [child EXCEPT ![c] = "ready"]
          /\ UNCHANGED <<signald_usages, forks, late>>
      BY <2>2 DEF WritePid, ChildGoto
    <3>2. CASE pidfile' = c /\ saved' = saved \union {c}
      BY <3>1, <3>2
    <3>3. CASE UNCHANGED <<pidfile, saved>>
      BY <1>1, <3>1, <3>3
    <3> QED
      BY <2>2, <3>2, <3>3 DEF WritePid
  <2>3. CASE Exec(c)
    BY <2>3, <1>1 DEF Exec, ChildGoto
  <2> QED
    BY <1>4, <2>1, <2>2, <2>3 DEF ChildStep
<1>5. ASSUME NEW c \in Pids, DaemonExit(c) PROVE Naming'
  BY <1>5, <1>1 DEF DaemonExit, ChildGoto
<1>6. CASE UNCHANGED vars
  BY <1>6 DEF vars
<1> QED
  BY <1>2, <1>3, <1>4, <1>5, <1>6 DEF Next, Exhausted

\* For any mix of accounts: once the daemon in use has saved its pid, the pid file
\* names it, so that the last account to close kills this process, unless a child of
\* an earlier use was still about to save its own when the daemon was forked: then the
\* file names either of them or is being written.
THEOREM PidfileIsCurrent == Spec => []PidfileNamesDaemon
<1>1. Init => Naming
  BY MaxForksAssumption DEF Init, Naming, PidfileNamesDaemon, Saving
<1>2. Typing /\ Naming /\ [Next]_vars => Naming'
  BY NamingStep
<1>3. Naming => PidfileNamesDaemon
  BY DEF Naming
<1> QED
  BY <1>1, <1>2, <1>3, TypingInvariant, PTL DEF Spec

(***************************************************************************)
(* When every account wants the daemon, the count is exact.                *)
(***************************************************************************)

Exact == signald_usages = Cardinality(online)

LEMMA ExactInvariant ==
  ASSUME Managed = Accounts
  PROVE  Spec => []Exact
<1> USE AccountsAssumption
<1>1. Init => Exact
  BY FS_EmptySet DEF Init, Exact
<1>2. Typing /\ Exact /\ [Next]_vars => Exact'
  <2> SUFFICES ASSUME Typing, Exact, [Next]_vars PROVE Exact'
    OBVIOUS
  <2>1. online \subseteq Accounts /\ Cardinality(online) \in Nat
    BY UsersCardinality DEF Typing
  <2>2. ASSUME NEW a \in Accounts, Login(a) PROVE Exact'
    <3>1. online' = online \union {a} /\ a \notin online /\ signald_usages' = signald_usages + 1
      BY <2>2 DEF Login, Start
    <3> QED
      BY <2>1, <3>1, UsersCardinality DEF Exact
  <2>3. ASSUME NEW a \in Accounts, Close(a) PROVE Exact'
    <3>1. /\ a \in online /\ online' = online \ {a}
          /\ signald_usages' = IF signald_usages > 0 THEN signald_usages - 1 ELSE 0
      BY <2>3 DEF Close, ConnectionClosed
    <3>2. Cardinality(online') = Cardinality(online) - 1 /\ Cardinality(online') \in Nat
      BY <2>1, <3>1, UsersCardinality
    <3> QED
      BY <2>1, <3>1, <3>2 DEF Exact
  <2>4. ASSUME UNCHANGED <<signald_usages, online>> PROVE Exact'
    BY <2>4 DEF Exact
  <2> QED
    BY <2>2, <2>3, <2>4
    DEF Next, ChildStep, OpenPidfile, WritePid, Exec, DaemonExit, Exhausted, vars
<1> QED
  BY <1>1, <1>2, TypingInvariant, PTL DEF Spec

\* If every account has the option set, signald_kill_process is called only by
\* the last account that closes.
THEOREM KillOnlyByLast ==
  ASSUME Managed = Accounts
  PROVE  Spec => KilledOnlyWhenUnused
<1>1. Typing /\ Exact /\ [Next]_vars => [kills' # kills => online' \intersect Managed = {}]_vars
  <2> SUFFICES ASSUME Typing, Exact, Next, kills' # kills PROVE online' \intersect Managed = {}
    BY DEF vars
  <2>1. PICK a \in Accounts : Close(a)
    BY DEF Next, Login, ChildStep, OpenPidfile, WritePid, Exec, DaemonExit, Exhausted, vars
  <2>2. signald_usages = 1 /\ a \in online /\ online' = online \ {a}
    BY <2>1 DEF Close, ConnectionClosed
  <2>3. online \subseteq Accounts /\ online' \subseteq Accounts
    BY <2>2 DEF Typing
  <2>4. Cardinality(online \ {a}) = Cardinality(online) - 1
    BY <2>2, <2>3, UsersCardinality
  <2>5. Cardinality(online') = 0
    BY <2>2, <2>4 DEF Exact
  <2> QED
    BY <2>3, <2>5, UsersCardinality
<1> QED
  BY <1>1, TypingInvariant, ExactInvariant, PTL DEF Spec, KilledOnlyWhenUnused

\* If every account has the option set, signald_usages (signald_procmgmt.c) stands
\* for the accounts that are online: the daemon is started for the first of them
\* and stopped for the last, and at no other time.
THEOREM UsesAreCounted ==
  ASSUME Managed = Accounts
  PROVE  Spec => UsedAsPromised
<1>1. Init => Usage!Init
  BY DEF Init, Usage!Init
<1>2. Typing /\ Exact /\ [Next]_vars => [Usage!Next]_(Usage!vars)
  <2> SUFFICES ASSUME Typing, Exact, [Next]_vars PROVE Usage!Next \/ UNCHANGED Usage!vars
    OBVIOUS
  <2>1. /\ online \subseteq Accounts /\ online \intersect Managed = online
        /\ forks \in Nat /\ kills \in Nat
        /\ signald_usages = Cardinality(online)
    BY MaxForksAssumption DEF Typing, Exact
  <2>2. signald_usages = 0 <=> online = {}
    BY <2>1, UsersCardinality, FS_EmptySet
  <2>3. ASSUME NEW a \in Accounts, Login(a) PROVE Usage!Use(a)
    <3>1. a \notin online /\ online' = online \union {a} /\ kills' = kills
      BY <2>3 DEF Login
    <3>2. forks' = IF online = {} THEN forks + 1 ELSE forks
      BY <2>2, <2>3 DEF Login, Start, Fork, NoFork
    <3>3. online' \intersect Managed = online'
      BY <2>1, <3>1
    <3> QED
      BY <2>1, <3>1, <3>2, <3>3 DEF Usage!Use
  <2>4. ASSUME NEW a \in Accounts, Close(a) PROVE Usage!Release(a)
    <3>1. a \in online /\ online' = online \ {a} /\ forks' = forks
      BY <2>4 DEF Close
    <3>2. online' \intersect Managed = online' /\ online' \subseteq Accounts
      BY <2>1, <3>1
    <3>3. signald_usages = 1 <=> online' = {}
      <4>1. Cardinality(online') = Cardinality(online) - 1
        BY <2>1, <3>1, UsersCardinality
      <4>2. Cardinality(online') = 0 <=> online' = {}
        BY <3>2, UsersCardinality, FS_EmptySet
      <4>3. Cardinality(online) \in Nat
        BY <2>1, UsersCardinality
      <4> QED
        BY <2>1, <4>1, <4>2, <4>3
    <3>4. kills' = IF online' = {} THEN kills + 1 ELSE kills
      BY <2>4, <3>3 DEF Close, ConnectionClosed, Kill
    <3> QED
      BY <2>1, <3>1, <3>2, <3>4 DEF Usage!Release
  <2>5. ASSUME UNCHANGED <<online, forks, kills>> PROVE UNCHANGED Usage!vars
    BY <2>5 DEF Usage!vars
  <2> QED
    BY <2>3, <2>4, <2>5
    DEF Next, ChildStep, OpenPidfile, WritePid, Exec, DaemonExit, Exhausted, vars, Usage!Next
<1> QED
  BY <1>1, <1>2, TypingInvariant, ExactInvariant, PTL DEF Spec, UsedAsPromised, Usage!Spec
=============================================================================
