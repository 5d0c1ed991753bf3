------------------------ MODULE SignaldConnect_Proofs ------------------------
(***************************************************************************)
(* Theorems about SignaldConnect, for any number of socket locations and   *)
(* of attempts, although no lock protects the counter of the threads.      *)
(***************************************************************************)
EXTENDS SignaldConnect, FiniteSetTheorems, TLAPS

N == Cardinality(Paths)

Typing ==
  /\ sa \in {"live", "freed"}
  /\ fd \in Paths \union {NoFd} /\ watcher \in Paths \union {NoFd}
  /\ sources \subseteq Paths
  /\ pc \in [Paths -> PCs]
  /\ try \in [Paths -> Nat]
  /\ err \in [Paths -> {-1, 0}]
  /\ queue \subseteq Paths \X Kinds
  /\ reported \subseteq Kinds
  /\ gaveUp \subseteq Paths
  /\ misused \in BOOLEAN /\ early \in BOOLEAN

\* A lost decrement leaves the counter too high, never too low: it and every
\* value a thread has loaded are at least the number of threads that have not
\* given up.
Counting ==
  /\ socket_paths_count \in 0..N
  /\ reg \in [Paths -> 0..N]
  /\ socket_paths_count >= N - Cardinality(gaveUp)
  /\ \A p \in Paths :
       /\ pc[p] = "decrement" => reg[p] >= N - Cardinality(gaveUp) /\ p \notin gaveUp
       /\ pc[p] = "load" => p \notin gaveUp
       /\ pc[p] = "zero?" => reg[p] - 1 >= N - Cardinality(gaveUp)
       /\ p \in gaveUp => pc[p] \in {"zero?", "done", "unused"}

\* What a thread does with the shared fields agrees with its connect().
Connecting ==
  /\ fd \in Paths => err[fd] = 0
  /\ \A p \in sources : err[p] = 0
  /\ \A p \in Paths :
       /\ pc[p] \in {"setfd", "watch", "store"} => err[p] = 0
       /\ pc[p] \in {"watch", "store"} => fd \in Paths
       /\ pc[p] = "check" /\ err[p] = 0 => fd \in Paths
       /\ pc[p] \in {"connect", "load", "decrement", "zero?"} => err[p] # 0
       /\ p \in gaveUp => err[p] # 0

LEMMA PathsCardinality == N \in Nat
BY PathsAssumption, FS_CardinalityType DEF N

LEMMA GaveUpCardinality ==
  ASSUME NEW S, S \subseteq Paths
  PROVE  /\ Cardinality(S) \in Nat /\ Cardinality(S) <= N
         /\ Cardinality(S) = N => S = Paths
         /\ \A p \in Paths \ S : Cardinality(S \union {p}) = Cardinality(S) + 1
<1>1. IsFiniteSet(Paths) /\ IsFiniteSet(S)
  BY PathsAssumption, FS_Subset
<1> QED
  BY <1>1, FS_Subset, FS_AddElement, FS_CardinalityType DEF N

(***************************************************************************)
(* Each part of the inductive invariant is preserved.                      *)
(***************************************************************************)

LEMMA TypingInvariant == Spec => []Typing
<1> USE PathsAssumption, ListeningAssumption
<1>1. Init => Typing
  <2>1. Init => pc \in [Paths -> PCs] /\ try \in [Paths -> Nat] /\ err \in [Paths -> {-1, 0}]
    BY DEF Init, PCs
  <2>2. Init => misused \in BOOLEAN /\ early \in BOOLEAN /\ gaveUp \subseteq Paths
    BY DEF Init
  <2> QED
    BY <2>1, <2>2 DEF Init, Typing
<1>2. Typing /\ [Next]_vars => Typing'
  <2> SUFFICES ASSUME Typing, [Next]_vars PROVE Typing'
    OBVIOUS
  <2> USE DEF Typing, PCs, Kinds, Goto, accountVars, mainVars, threadVars
  <2>1. ASSUME NEW p \in Paths, Spawn(p) PROVE Typing'
    BY <2>1 DEF Spawn
  <2>2. ASSUME NEW p \in Paths, Setup(p) PROVE Typing'
    BY <2>2 DEF Setup
  <2>3. ASSUME NEW p \in Paths, LoopTest(p) PROVE Typing'
    BY <2>3 DEF LoopTest
  <2>4. ASSUME NEW p \in Paths, Connect(p) PROVE Typing'
    BY <2>4 DEF Connect
  <2>5. ASSUME NEW p \in Paths, Connected(p) PROVE Typing'
    BY <2>5 DEF Connected
  <2>6. ASSUME NEW p \in Paths, SetFd(p) PROVE Typing'
    BY <2>6 DEF SetFd
  <2>7. ASSUME NEW p \in Paths, AddWatch(p) PROVE Typing'
    BY <2>7 DEF AddWatch
  <2>8. ASSUME NEW p \in Paths, StoreWatch(p) PROVE Typing'
    BY <2>8 DEF StoreWatch
  <2>9. ASSUME NEW p \in Paths, Check(p) PROVE Typing'
    BY <2>9 DEF Check
  <2>10. ASSUME NEW p \in Paths, Load(p) PROVE Typing'
    BY <2>10 DEF Load
  <2>11. ASSUME NEW p \in Paths, Decrement(p) PROVE Typing'
    BY <2>11 DEF Decrement
  <2>12. ASSUME NEW p \in Paths, ZeroTest(p) PROVE Typing'
    BY <2>12 DEF ZeroTest
  <2>13. ASSUME NEW p \in Paths, ThreadMisuse(p) PROVE Typing'
    BY <2>13 DEF ThreadMisuse
  <2>14. CASE RunError
    BY <2>14 DEF RunError
  <2>15. CASE Close
    BY <2>15 DEF Close
  <2>16. CASE ReadCb
    BY <2>16 DEF ReadCb
  <2>17. CASE UNCHANGED vars
    BY <2>17 DEF vars
  <2> QED
    BY <2>1, <2>2, <2>3, <2>4, <2>5, <2>6, <2>7, <2>8, <2>9, <2>10, <2>11, <2>12,
       <2>13, <2>14, <2>15, <2>16, <2>17
    DEF Next, Thread, Terminated
<1> QED
  BY <1>1, <1>2, PTL DEF Spec
LEMMA CountingInvariant == Spec => []Counting
<1> USE PathsAssumption, PathsCardinality
<1>1. Init => Counting
  <2> SUFFICES ASSUME Init PROVE Counting
    OBVIOUS
  <2>1. PICK tried \in Choices :
           /\ socket_paths_count = Cardinality(tried)
           /\ pc = [p \in Paths |-> IF p \in tried THEN "new" ELSE "unused"]
           /\ gaveUp = Paths \ tried
    BY DEF Init
  <2>2. Cardinality(tried) \in 0..N /\ Cardinality(tried) = N - Cardinality(gaveUp)
    <3>1. tried \subseteq Paths /\ tried \cap Paths = tried
      BY ChoicesAssumption
    <3>2. /\ Cardinality(Paths \ tried) = N - Cardinality(Paths \cap tried)
          /\ Cardinality(tried) \in Nat /\ Cardinality(tried) <= N
      BY <3>1, FS_Difference, GaveUpCardinality DEF N
    <3>3. Cardinality(gaveUp) = N - Cardinality(tried)
      BY <2>1, <3>1, <3>2
    <3> QED
      BY <3>2, <3>3
  <2>3. reg = [p \in Paths |-> 0]
    BY DEF Init
  <2>4. \A p \in Paths : pc[p] \in {"new", "unused"} /\ (p \in gaveUp => pc[p] = "unused")
    BY <2>1
  <2>5. reg \in [Paths -> 0..N]
    BY <2>3
  <2>6. Cardinality(gaveUp) \in Nat
    BY <2>1, GaveUpCardinality
  <2> QED
    BY <2>1, <2>2, <2>4, <2>5, <2>6 DEF Counting
<1>2. Typing /\ Counting /\ [Next]_vars => Counting'
  <2> SUFFICES ASSUME Typing, Counting, [Next]_vars PROVE Counting'
    OBVIOUS
  <2>1. gaveUp \subseteq Paths /\ pc \in [Paths -> PCs] /\ Cardinality(gaveUp) \in Nat
    BY GaveUpCardinality DEF Typing
  <2>2. ASSUME NEW p \in Paths, Load(p) PROVE Counting'
    BY <2>1, <2>2 DEF Load, Goto, Counting, accountVars, mainVars
  <2>3. ASSUME NEW p \in Paths, Decrement(p) PROVE Counting'
    <3>1. p \notin gaveUp /\ reg[p] \in 0..N /\ reg[p] >= N - Cardinality(gaveUp)
      BY <2>3 DEF Decrement, Counting
    <3>2. /\ gaveUp' = gaveUp \union {p}
          /\ Cardinality(gaveUp') = Cardinality(gaveUp) + 1
          /\ Cardinality(gaveUp') <= N
      BY <2>1, <2>3, <3>1, GaveUpCardinality DEF Decrement
    <3>3. socket_paths_count' = reg[p] - 1 /\ UNCHANGED reg
      BY <2>3 DEF Decrement
    <3>4. socket_paths_count' \in 0..N /\ socket_paths_count' >= N - Cardinality(gaveUp')
      <4>1. Cardinality(gaveUp) \in Nat /\ N \in Nat
        BY <2>1
      <4>2. reg[p] - 1 >= 0
        BY <3>1, <3>2, <4>1
      <4> QED
        BY <3>1, <3>2, <3>3, <4>1, <4>2
    <3>5. /\ pc[p] = "decrement" /\ pc'[p] = "zero?"
          /\ \A q \in Paths \ {p} : pc'[q] = pc[q]
      BY <2>1, <2>3 DEF Decrement, Goto
    <3>6. ASSUME NEW q \in Paths \ {p}
          PROVE  /\ pc'[q] = "decrement" => reg'[q] >= N - Cardinality(gaveUp') /\ q \notin gaveUp'
                 /\ pc'[q] = "load" => q \notin gaveUp'
                 /\ pc'[q] = "zero?" => reg'[q] - 1 >= N - Cardinality(gaveUp')
                 /\ q \in gaveUp' => pc'[q] \in {"zero?", "done", "unused"}
      <4>1. reg[q] \in 0..N
        BY DEF Counting
      <4> QED
        BY <2>1, <3>2, <3>3, <3>5, <4>1 DEF Counting
    <3>7. reg'[p] - 1 >= N - Cardinality(gaveUp')
      BY <3>1, <3>2, <3>3, <2>1
    <3> QED
      BY <3>2, <3>3, <3>4, <3>5, <3>6, <3>7 DEF Counting
  <2>4. ASSUME NEW p \in Paths, Check(p) PROVE Counting'
    BY <2>1, <2>4 DEF Check, Goto, Counting, accountVars, mainVars
  <2>5. ASSUME NEW p \in Paths, NEW l \in PCs,
               pc[p] \notin {"zero?", "done", "unused"} \/ l = "done",
               l \notin {"load", "decrement", "zero?"},
               Goto(p, l), UNCHANGED <<socket_paths_count, reg, gaveUp>>
        PROVE  Counting'
    <3>1. pc'[p] = l /\ \A q \in Paths \ {p} : pc'[q] = pc[q]
      BY <2>1, <2>5 DEF Goto
    <3> QED
      BY <2>5, <3>1 DEF Counting
  <2>6. ASSUME NEW p \in Paths,
               \/ Spawn(p) \/ Setup(p) \/ LoopTest(p) \/ Connect(p) \/ Connected(p)
               \/ SetFd(p) \/ AddWatch(p) \/ StoreWatch(p) \/ ZeroTest(p) \/ ThreadMisuse(p)
        PROVE  Counting'
    <3>1. PICK l \in PCs :
             /\ pc[p] \notin {"zero?", "done", "unused"} \/ l = "done"
             /\ l \notin {"load", "decrement", "zero?"}
             /\ Goto(p, l)
      BY <2>6 DEF Spawn, Setup, LoopTest, Connect, Connected, SetFd, AddWatch, StoreWatch,
                  ZeroTest, ThreadMisuse, PCs
    <3>2. UNCHANGED <<socket_paths_count, reg, gaveUp>>
      BY <2>6 DEF Spawn, Setup, LoopTest, Connect, Connected, SetFd, AddWatch, StoreWatch,
                  ZeroTest, ThreadMisuse, accountVars, mainVars
    <3> QED
      BY <2>5, <3>1, <3>2
  <2>7. ASSUME UNCHANGED <<pc, socket_paths_count, reg, gaveUp>> PROVE Counting'
    BY <2>7 DEF Counting
  <2> QED
    BY <2>2, <2>3, <2>4, <2>6, <2>7
    DEF Next, Thread, RunError, ReadCb, Close, Terminated, vars, threadVars, accountVars, mainVars
<1> QED
  BY <1>1, <1>2, TypingInvariant, PTL DEF Spec

LEMMA ConnectingInvariant == Spec => []Connecting
<1> USE PathsAssumption
<1>1. Init => Connecting
  BY DEF Init, Connecting
<1>2. Typing /\ Counting /\ Connecting /\ [Next]_vars => Connecting'
  <2> SUFFICES ASSUME Typing, Counting, Connecting, [Next]_vars PROVE Connecting'
    OBVIOUS
  <2> USE DEF Connecting, Goto, accountVars, mainVars
  <2>1. pc \in [Paths -> PCs] /\ err \in [Paths -> {-1, 0}] /\ fd \in Paths \union {NoFd}
    BY DEF Typing
  <2>2. ASSUME NEW p \in Paths, Spawn(p) PROVE Connecting'
    BY <2>1, <2>2 DEF Spawn
  <2>3. ASSUME NEW p \in Paths, Setup(p) PROVE Connecting'
    BY <2>1, <2>3 DEF Setup
  <2>4. ASSUME NEW p \in Paths, LoopTest(p) PROVE Connecting'
    BY <2>1, <2>4 DEF LoopTest, Trying
  <2>5. ASSUME NEW p \in Paths, Connect(p) PROVE Connecting'
    <3>1. pc[p] = "connect" /\ p \notin gaveUp /\ err[p] # 0
      BY <2>5 DEF Connect, Counting
    <3>2. /\ pc'[p] = "loop"
          /\ \A q \in Paths \ {p} : pc'[q] = pc[q] /\ err'[q] = err[q]
          /\ UNCHANGED <<fd, sources, gaveUp>>
      BY <2>1, <2>5 DEF Connect
    <3>3. sources \subseteq Paths
      BY DEF Typing
    <3> QED
      BY <3>1, <3>2, <3>3
  <2>6. ASSUME NEW p \in Paths, Connected(p) PROVE Connecting'
    BY <2>1, <2>6 DEF Connected
  <2>7. ASSUME NEW p \in Paths, SetFd(p) PROVE Connecting'
    BY <2>1, <2>7 DEF SetFd
  <2>8. ASSUME NEW p \in Paths, AddWatch(p) PROVE Connecting'
    BY <2>1, <2>8 DEF AddWatch
  <2>9. ASSUME NEW p \in Paths, StoreWatch(p) PROVE Connecting'
    BY <2>1, <2>9 DEF StoreWatch
  <2>10. ASSUME NEW p \in Paths, Check(p) PROVE Connecting'
    BY <2>1, <2>10 DEF Check
  <2>11. ASSUME NEW p \in Paths, Load(p) PROVE Connecting'
    BY <2>1, <2>11 DEF Load
  <2>12. ASSUME NEW p \in Paths, Decrement(p) PROVE Connecting'
    BY <2>1, <2>12 DEF Decrement
  <2>13. ASSUME NEW p \in Paths, ZeroTest(p) PROVE Connecting'
    BY <2>1, <2>13 DEF ZeroTest
  <2>14. ASSUME NEW p \in Paths, ThreadMisuse(p) PROVE Connecting'
    BY <2>1, <2>14 DEF ThreadMisuse
  <2>15. CASE RunError
    BY <2>15 DEF RunError, threadVars
  <2>16. CASE Close
    BY <2>16 DEF Close, threadVars
  <2>17. CASE ReadCb
    BY <2>17 DEF ReadCb, threadVars
  <2>18. CASE UNCHANGED vars
    BY <2>18 DEF vars, threadVars
  <2> QED
    BY <2>2, <2>3, <2>4, <2>5, <2>6, <2>7, <2>8, <2>9, <2>10, <2>11, <2>12, <2>13, <2>14,
       <2>15, <2>16, <2>17, <2>18
    DEF Next, Thread, Terminated
<1> QED
  BY <1>1, <1>2, TypingInvariant, CountingInvariant, PTL DEF Spec

(***************************************************************************)
(* The theorems.                                                           *)
(***************************************************************************)

\* Every reachable state is well typed; in particular socket_paths_count never
\* falls below zero, although its decrements are not atomic.
THEOREM TypeCorrect == Spec => []TypeOK
<1>1. Typing /\ Counting => TypeOK
  BY DEF Typing, Counting, TypeOK, N
<1> QED
  BY <1>1, TypingInvariant, CountingInvariant, PTL

\* A thread that has connected never counts as one that has given up.
THEOREM GivenUpIsNotConnected == Spec => []GiveUpIsFinal
<1>1. Typing /\ Connecting => GiveUpIsFinal
  BY DEF Typing, Connecting, GiveUpIsFinal
<1> QED
  BY <1>1, TypingInvariant, ConnectingInvariant, PTL

\* Failure of all locations is told only when all threads have given up.
LEMMA UnableInvariant == Spec => []UnableMeansAll
<1> USE PathsAssumption, PathsCardinality
<1>1. Init => UnableMeansAll
  BY DEF Init, UnableMeansAll, Unable
<1>2. Typing /\ Counting /\ Connecting /\ UnableMeansAll /\ [Next]_vars
        => UnableMeansAll'
  <2> SUFFICES ASSUME Typing, Counting, Connecting, UnableMeansAll, [Next]_vars, Unable'
               PROVE  gaveUp' = Paths /\ fd' = NoFd
    BY DEF UnableMeansAll
  <2>1. gaveUp \subseteq Paths /\ Cardinality(gaveUp) \in Nat /\ Cardinality(gaveUp) <= N
        /\ (Cardinality(gaveUp) = N => gaveUp = Paths) /\ fd \in Paths \union {NoFd}
    BY GaveUpCardinality DEF Typing
  <2>2. CASE \E p \in Paths : ZeroTest(p)
    <3>1. PICK p \in Paths : ZeroTest(p)
      BY <2>2
    <3>2. UNCHANGED <<gaveUp, fd, reported>>
      BY <3>1 DEF ZeroTest, accountVars
    <3>3. CASE Unable
      BY <3>2, <3>3 DEF UnableMeansAll
    <3>4. CASE ~Unable
      <4>1. 0 \in CountSeen(p)
        BY <3>1, <3>2, <3>4 DEF ZeroTest, Unable
      <4>2. socket_paths_count \in 0..N /\ reg[p] \in 0..N
            /\ socket_paths_count >= N - Cardinality(gaveUp)
            /\ reg[p] - 1 >= N - Cardinality(gaveUp)
        BY <3>1 DEF Counting, ZeroTest
      <4>3. socket_paths_count = 0 \/ reg[p] - 1 = 0
        BY <4>1 DEF CountSeen
      <4>4. gaveUp = Paths
        BY <2>1, <4>2, <4>3
      <4>5. fd = NoFd
        BY <2>1, <4>4 DEF Connecting
      <4> QED
        BY <3>2, <4>4, <4>5
    <3> QED
      BY <3>3, <3>4
  <2>3. ASSUME NEW p \in Paths, SetFd(p) PROVE FALSE
    <3>1. Unable
      BY <2>3 DEF SetFd, mainVars, Unable
    <3>2. pc[p] \in {"zero?", "done", "unused"}
      BY <3>1 DEF UnableMeansAll, Counting
    <3> QED
      BY <2>3, <3>2 DEF SetFd
  <2>4. ASSUME NEW p \in Paths, Decrement(p) PROVE FALSE
    <3>1. Unable
      BY <2>4 DEF Decrement, Unable
    <3>2. p \notin gaveUp
      BY <2>4 DEF Decrement, Counting
    <3> QED
      BY <3>1, <3>2 DEF UnableMeansAll
  <2>5. ASSUME UNCHANGED <<gaveUp, fd>>, Unable PROVE gaveUp' = Paths /\ fd' = NoFd
    BY <2>5 DEF UnableMeansAll
  <2>6. ASSUME NEW p \in Paths, Setup(p) \/ Spawn(p)
        PROVE  UNCHANGED <<gaveUp, fd>> /\ Unable
    BY <2>6 DEF Setup, Spawn, accountVars, Unable
  <2>7. CASE RunError
    <3>1. UNCHANGED <<gaveUp, fd>>
      BY <2>7 DEF RunError, accountVars
    <3>2. PICK e \in queue : /\ queue' = queue \ {e}
                            /\ (reported' = reported \union {e[2]} \/ UNCHANGED reported)
      BY <2>7 DEF RunError
    <3>3. PICK p \in Paths, k \in Kinds : e = <<p, k>>
      BY <3>2 DEF Typing
    <3>4. e[2] = k
      BY <3>3
    <3>5. ASSUME NEW q \in Paths, <<q, "unable">> \in queue' PROVE Unable
      BY <3>2, <3>5 DEF Unable
    <3>6. ASSUME "unable" \in reported', "unable" \notin reported PROVE Unable
      <4>1. k = "unable"
        BY <3>2, <3>4, <3>6
      <4> QED
        BY <3>2, <3>3, <4>1 DEF Unable
    <3>8. Unable
      BY <3>5, <3>6 DEF Unable
    <3> QED
      BY <2>5, <3>1, <3>8
  <2>8. ASSUME UNCHANGED <<gaveUp, fd, queue, reported>>
        PROVE  gaveUp' = Paths /\ fd' = NoFd
    BY <2>5, <2>8 DEF Unable
  <2>9. CASE ReadCb
    <3>1. /\ UNCHANGED <<gaveUp, fd, queue>>
          /\ reported' \in {reported, reported \union {"lost"}}
      BY <2>9 DEF ReadCb, accountVars
    <3>2. Unable
      BY <3>1 DEF Unable
    <3> QED
      BY <2>5, <3>1, <3>2
  <2> QED
    BY <2>2, <2>3, <2>4, <2>5, <2>6, <2>7, <2>8, <2>9
    DEF Next, Thread, LoopTest, Connect, Connected, AddWatch, StoreWatch, Check, Load,
        ThreadMisuse, Close, Terminated, vars, threadVars, accountVars, mainVars
<1> QED
  BY <1>1, <1>2, TypingInvariant, CountingInvariant, ConnectingInvariant, PTL DEF Spec

\* However the threads interleave, the account is told that no location can be
\* connected only after every thread has given up and while none is connected.
THEOREM UnableIsTrue == Spec => []UnableOnlyIfAllGaveUp
<1>1. GiveUpIsFinal /\ UnableMeansAll => UnableOnlyIfAllGaveUp
  BY DEF UnableOnlyIfAllGaveUp
<1> QED
  BY <1>1, GivenUpIsNotConnected, UnableInvariant, PTL

(***************************************************************************)
(* Input sources.                                                          *)
(***************************************************************************)

\* The socket in sa->fd has its input source, or its thread is about to add it.
Watching == sa = "live" /\ fd \in Paths => fd \in sources \/ pc[fd] = "watch"

LEMMA WatchingStep ==
  ASSUME Typing, Watching, [Next]_vars PROVE Watching'
<1> USE DEF Watching, Goto, accountVars, mainVars
<1>1. pc \in [Paths -> PCs] /\ fd \in Paths \union {NoFd} /\ NoFd \notin Paths
  BY PathsAssumption DEF Typing
<1>2. ASSUME NEW p \in Paths, NEW l, pc[p] # "watch", Goto(p, l), UNCHANGED <<sa, fd, sources>>
      PROVE  Watching'
  BY <1>1, <1>2
<1>3. ASSUME NEW p \in Paths, SetFd(p) PROVE Watching'
  BY <1>1, <1>3 DEF SetFd
<1>4. ASSUME NEW p \in Paths, AddWatch(p) PROVE Watching'
  BY <1>1, <1>4 DEF AddWatch
<1>5. ASSUME NEW p \in Paths, ThreadMisuse(p) PROVE Watching'
  BY <1>5 DEF ThreadMisuse
<1>6. ASSUME NEW p \in Paths, Spawn(p) \/ Setup(p) \/ LoopTest(p) \/ Connect(p) \/ Connected(p)
      PROVE  Watching'
  BY <1>2, <1>6 DEF Spawn, Setup, LoopTest, Connect, Connected
<1>7. ASSUME NEW p \in Paths, StoreWatch(p) \/ Check(p) \/ Load(p) \/ Decrement(p) \/ ZeroTest(p)
      PROVE  Watching'
  BY <1>2, <1>7 DEF StoreWatch, Check, Load, Decrement, ZeroTest
<1>8. CASE RunError
  BY <1>8 DEF RunError, threadVars
<1>9. CASE Close
  BY <1>9 DEF Close
<1>10. CASE ReadCb
  BY <1>10 DEF ReadCb, threadVars
<1>11. CASE UNCHANGED vars
  BY <1>11 DEF vars, threadVars
<1> QED
  BY <1>3, <1>4, <1>5, <1>6, <1>7, <1>8, <1>9, <1>10, <1>11 DEF Next, Thread, Terminated

\* When the threads have come to an end, the socket in use has an input source,
\* also if several of them connected.
THEOREM ConnectionIsWatched == Spec => []ConnectedIsWatched
<1>1. Init => Watching
  BY PathsAssumption DEF Init, Watching
<1>2. Typing /\ Watching /\ [Next]_vars => Watching'
  BY WatchingStep
<1>3. Typing /\ Watching => ConnectedIsWatched
  BY DEF Typing, Watching, ConnectedIsWatched, AllDone
<1> QED
  BY <1>1, <1>2, <1>3, TypingInvariant, PTL DEF Spec

(***************************************************************************)
(* The life of the account with one location.  The only thread reports at  *)
(* most one error, as its last act: a disconnect that follows this error   *)
(* or the end of the thread finds nobody left that knows the account.      *)
(***************************************************************************)

Alone(p) == \A q \in Paths \ {p} : pc[q] = "unused"

\* What signald_read_cb reports while the thread is at work makes the end of the
\* account early; a source is there only for a thread that queues no error.
Finishing(p) ==
  /\ queue # {} => /\ pc[p] = "done" /\ reported = {} /\ sources = {}
                   /\ \E e \in queue : queue = {e}
  /\ reported # {} /\ ~early => pc[p] = "done"
  /\ sources \subseteq {p}
  /\ sources # {} \/ reported # {} => /\ pc[p] \in {"store", "check", "done"}
                                      /\ pc[p] = "check" => fd # NoFd
  /\ sa = "live" /\ p \in sources => watcher = p \/ pc[p] = "store"
  /\ ~early => ~misused
  /\ ~early /\ sa = "freed" => pc[p] \in {"done", "unused"} /\ queue = {} /\ sources = {}

Releasing == \A p \in Paths : Alone(p) => Finishing(p)

LEMMA ReleasingStep ==
  ASSUME Typing, Connecting, Releasing, [Next]_vars PROVE Releasing'
<1> SUFFICES ASSUME NEW p \in Paths, Alone(p)' PROVE Finishing(p)'
  BY DEF Releasing
<1> USE DEF Goto, accountVars, mainVars, threadVars
<1>1. pc \in [Paths -> PCs] /\ NoFd \notin Paths
  BY PathsAssumption DEF Typing
\* Only this thread takes steps, for none becomes unused.
<1>2. ASSUME NEW q \in Paths, NEW l, Goto(q, l), l # "unused", pc[q] # "unused"
      PROVE  q = p /\ pc'[p] = l /\ Alone(p) /\ Finishing(p)
  <2>1. pc'[q] = l /\ \A r \in Paths \ {q} : pc'[r] = pc[r]
    BY <1>1, <1>2
  <2>2. q = p
    BY <1>2, <2>1 DEF Alone
  <2>3. Alone(p)
    BY <2>1, <2>2 DEF Alone
  <2> QED
    BY <2>1, <2>2, <2>3 DEF Releasing
<1>3. ASSUME UNCHANGED pc PROVE Finishing(p)
  BY <1>3 DEF Releasing, Alone
\* Steps of a thread that has no source.
<1>4. ASSUME NEW q \in Paths, NEW l \in PCs \ {"unused"},
             pc[q] \notin {"unused", "done", "store", "check"}, Goto(q, l),
             fd' = fd \/ fd' \in Paths,
             UNCHANGED <<queue, reported, sources, watcher, sa, early, misused>>
      PROVE  Finishing(p)'
  BY <1>2, <1>4 DEF Finishing
<1>5. ASSUME NEW q \in Paths, Spawn(q) PROVE Finishing(p)'
  BY <1>2, <1>5 DEF Spawn, Finishing
<1>6. ASSUME NEW q \in Paths, Setup(q) PROVE Finishing(p)'
  <2>1. /\ q = p /\ pc[p] = "setup" /\ Finishing(p)
        /\ UNCHANGED <<reported, sources, watcher, sa, early, misused>>
        /\ \/ pc'[p] = "loop" /\ UNCHANGED queue
           \/ pc'[p] = "done" /\ queue' = queue \union {<<p, "setup">>}
    BY <1>2, <1>6 DEF Setup
  <2>2. queue = {} /\ sources = {} /\ reported = {}
    BY <2>1 DEF Finishing
  <2>3. CASE pc'[p] = "loop" /\ UNCHANGED queue
    BY <2>1, <2>2, <2>3 DEF Finishing
  <2>4. CASE pc'[p] = "done" /\ queue' = {<<p, "setup">>}
    <3>1. early \/ sa = "live"
      BY <2>1 DEF Finishing, Typing
    <3> QED
      BY <2>1, <2>2, <2>4, <3>1 DEF Finishing
  <2> QED
    BY <2>1, <2>2, <2>3, <2>4
<1>7. ASSUME NEW q \in Paths, LoopTest(q) \/ Connect(q) \/ Connected(q) \/ SetFd(q)
      PROVE  Finishing(p)'
  BY <1>4, <1>7 DEF LoopTest, Connect, Connected, SetFd, PCs
<1>8. ASSUME NEW q \in Paths, Load(q) \/ Decrement(q) PROVE Finishing(p)'
  BY <1>4, <1>8 DEF Load, Decrement, PCs
<1>9. ASSUME NEW q \in Paths, AddWatch(q) PROVE Finishing(p)'
  BY <1>2, <1>9 DEF AddWatch, Finishing
<1>10. ASSUME NEW q \in Paths, StoreWatch(q) PROVE Finishing(p)'
  <2>1. fd # NoFd
    BY <1>1, <1>10 DEF StoreWatch, Connecting
  <2> QED
    BY <1>2, <1>10, <2>1 DEF StoreWatch, Finishing
<1>11. ASSUME NEW q \in Paths, ZeroTest(q) PROVE Finishing(p)'
  <2>1. /\ q = p /\ pc[p] = "zero?" /\ pc'[p] = "done" /\ Finishing(p)
        /\ UNCHANGED <<reported, sources, watcher, sa, early, misused>> /\ sa = "live"
        /\ queue' \in {queue, queue \union {<<p, "unable">>}}
    BY <1>2, <1>11 DEF ZeroTest
  <2> QED
    BY <2>1 DEF Finishing
<1>12. ASSUME NEW q \in Paths, ThreadMisuse(q) PROVE Finishing(p)'
  BY <1>2, <1>12 DEF ThreadMisuse, Finishing
<1>13. CASE RunError
  <2>1. PICK e \in queue :
          /\ queue' = queue \ {e}
          /\ IF sa = "live" THEN UNCHANGED misused ELSE misused' = TRUE
    BY <1>13 DEF RunError
  <2>2. Finishing(p) /\ UNCHANGED <<pc, sa, early, sources, watcher, fd>>
    BY <1>3, <1>13 DEF RunError
  <2>3. queue' = {} /\ pc[p] = "done" /\ (sa = "live" \/ early)
    BY <2>1, <2>2 DEF Finishing, Typing
  <2>4. early \/ UNCHANGED misused
    BY <2>1, <2>3
  <2> QED
    BY <2>2, <2>3, <2>4 DEF Finishing
<1>14. CASE Close
  <2>1. Finishing(p) /\ UNCHANGED <<pc, queue, reported, misused, fd>> /\ sa = "live" /\ sa' = "freed"
    BY <1>3, <1>14 DEF Close
  <2>2. sources' = sources \ {watcher} /\ early' = (early \/ ~(reported # {} \/ Settled))
    BY <1>14 DEF Close
  <2>3. ASSUME ~early, reported # {} \/ Settled
        PROVE  pc[p] \in {"done", "unused"} /\ queue = {} /\ sources' = {}
    <3>1. pc[p] \in {"done", "unused"} /\ queue = {}
      BY <2>1, <2>3 DEF Finishing, Settled, AllDone
    <3> QED
      BY <2>1, <2>2, <3>1 DEF Finishing
  <2> QED
    BY <2>1, <2>2, <2>3 DEF Finishing
<1>15. CASE ReadCb
  <2>1. /\ Finishing(p) /\ UNCHANGED <<pc, queue, sources, watcher, sa, fd>> /\ sources # {}
        /\ \/ sa = "live" /\ early' = (early \/ ~AllDone) /\ UNCHANGED misused
           \/ sa = "freed" /\ UNCHANGED <<early, reported>>
    BY <1>3, <1>15 DEF ReadCb, Typing
  <2>2. queue = {} /\ pc[p] # "unused" /\ (AllDone => pc[p] = "done")
    BY <2>1 DEF Finishing, AllDone
  <2>3. CASE sa = "live" /\ early' = (early \/ ~AllDone) /\ UNCHANGED misused
    BY <2>1, <2>2, <2>3 DEF Finishing
  <2>4. CASE sa = "freed" /\ UNCHANGED <<early, reported>>
    <3>1. early
      BY <2>1, <2>4 DEF Finishing
    <3> QED
      BY <2>1, <2>2, <2>4, <3>1 DEF Finishing
  <2> QED
    BY <2>1, <2>3, <2>4
<1>16. CASE UNCHANGED vars
  BY <1>3, <1>16 DEF vars, Finishing
<1>17. ASSUME NEW q \in Paths, Check(q) PROVE Finishing(p)'
  BY <1>2, <1>17 DEF Check, Finishing
<1> QED
  BY <1>5, <1>6, <1>7, <1>8, <1>9, <1>10, <1>11, <1>12, <1>13, <1>14, <1>15, <1>16, <1>17
  DEF Next, Thread, Terminated

\* With one location, signald_close leaves no input source behind, and nothing uses
\* the account after it was freed, unless the user or signald_read_cb asks for the
\* disconnect while the thread is at work.
THEOREM ReleasedIfSingle == Spec => []ClosedIsReleased
<1>1. Init => Releasing
  BY DEF Init, Releasing, Finishing
<1>2. Typing /\ Connecting /\ Releasing /\ [Next]_vars => Releasing'
  BY ReleasingStep
<1>3. Typing /\ Releasing => ClosedIsReleased
  <2> SUFFICES ASSUME Typing, Releasing, Single, ~early
               PROVE  ~misused /\ (sa = "freed" => sources = {})
    BY DEF ClosedIsReleased
  <2>1. {p \in Paths : pc[p] # "unused"} \subseteq Paths
    OBVIOUS
  <2>2. IsFiniteSet({p \in Paths : pc[p] # "unused"})
    BY <2>1, PathsAssumption, FS_Subset
  <2>3. PICK p : {q \in Paths : pc[q] # "unused"} = {p}
    BY <2>2, FS_Singleton DEF Single
  <2>4. p \in Paths /\ Alone(p)
    BY <2>3 DEF Alone
  <2> QED
    BY <2>4 DEF Releasing, Finishing
<1> QED
  BY <1>1, <1>2, <1>3, TypingInvariant, ConnectingInvariant, PTL DEF Spec
=============================================================================
