------------------------- MODULE ZephyrDomainProofs -------------------------
(***************************************************************************)
(* Proofs about ZephyrDomain, for every number of cores, tasks and pending *)
(* ticks: its type invariant, the shared count of tasks, the timer that    *)
(* ticks the cores with tasks, and that neither core of a source and a     *)
(* sink is in an LL cycle while the IPC thread connects them.              *)
(***************************************************************************)
EXTENDS ZephyrDomain, FiniteSetTheorems, TLAPS

\* Where an LL thread stands that starts no cycle while block is set.
Held == {"none", "idle", "check", "lock", "wait"}

\* While block is set, a core of source or sink that the IPC thread does not
\* wait for any more has an LL thread that is held: the IPC core from the start,
\* since its IPC thread runs only while the LL thread sleeps, another one from
\* its answer on.  The cores the bind does not concern may be in a cycle.
HeldCores == block => \A c \in binding \ awaited : ll[c] \in Held

DomainInv == TypeOK /\ HeldCores

-----------------------------------------------------------------------------
LEMMA InitInv == Init => DomainInv
<1> SUFFICES ASSUME Init PROVE DomainInv
  BY Zenon
<1>1. TypeOK
  <2>1. {user_data, timer, firing, block} \subseteq BOOLEAN
    BY Zenon DEF Init
  <2>2. 0 \in 0 .. TaskLimit /\ 0 \in 0 .. TickLimit
    BY BoundAssumption
  <2>3. handler \in [Core -> BOOLEAN] /\ watchdog \in [Core -> BOOLEAN]
    BY Zenon DEF Init
  <2> QED
    BY <2>1, <2>2, <2>3 DEF Init, TypeOK
<1>2. HeldCores
  BY Zenon DEF Init, HeldCores
<1> QED
  BY <1>1, <1>2, Zenon DEF DomainInv

\* Registration and the timer move an LL thread at most from "none" to "idle".
LEMMA RegisterStep ==
    ASSUME DomainInv,
           Timer \/ \E c \in Core : Insert(c) \/ Register(c)
    PROVE  DomainInv'
<1> USE BoundAssumption DEF DomainInv, TypeOK, HeldCores, Held, tasks, ticking, threads, bind
<1>1. ASSUME NEW c \in Core, Insert(c) PROVE DomainInv'
  BY <1>1 DEF Insert
<1>2. ASSUME NEW c \in Core, RegisterThread(c) PROVE DomainInv'
  <2>1. CASE handler[c]
    BY <1>2, <2>1, Zenon DEF RegisterThread
  <2>2. CASE ~handler[c]
    <3>1. handler' \in [Core -> BOOLEAN]
      BY <1>2, <2>2, Zenon DEF RegisterThread
    <3>2. sem' \in [Core -> 0 .. TickLimit]
      BY <1>2, <2>2 DEF RegisterThread
    <3> QED
      BY <1>2, <2>2, <3>1, <3>2 DEF RegisterThread
  <2> QED
    BY <2>1, <2>2, Zenon
<1>3. ASSUME NEW c \in Core, RegisterTimer(c) PROVE DomainInv'
  BY <1>3, Zenon DEF RegisterTimer
<1>4. ASSUME NEW c \in Core, RegisterCount(c) PROVE DomainInv'
  BY <1>4 DEF RegisterCount
<1>5. CASE TimerExpires
  BY <1>5, Zenon DEF TimerExpires
<1>6. CASE TimerFn
  <2>1. sem' \in [Core -> 0 .. TickLimit]
    BY <1>6 DEF TimerFn
  <2>2. {user_data', timer', firing', block'} \subseteq BOOLEAN
    BY <1>6, Zenon DEF TimerFn
  <2> QED
    BY <1>6, <2>1, <2>2, Zenon DEF TimerFn
<1> QED
  BY <1>1, <1>2, <1>3, <1>4, <1>5, <1>6, Zenon DEF Register, Timer

\* The LL thread reads block before every cycle but the one it is woken for,
\* and it is woken only by the end of a block.
LEMMA ThreadStep ==
    ASSUME DomainInv, NEW c \in Core,
           LLThread(c) \/ TaskDone(c) \/ TaskFree(c) \/ Unregister(c)
    PROVE  DomainInv'
<1> USE BoundAssumption
    DEF DomainInv, TypeOK, HeldCores, Held, tasks, ticking, threads, bind, Move
<1>1. CASE LLTake(c)
  BY <1>1 DEF LLTake
<1>2. CASE LLCheck(c)
  BY <1>2, Zenon DEF LLCheck
<1>3. CASE LLLock(c)
  BY <1>3, Zenon DEF LLLock
<1>4. CASE LLWoken(c)
  BY <1>4, Zenon DEF LLWoken
<1>5. CASE LLFinish(c)
  BY <1>5, Zenon DEF LLFinish
<1>6. CASE UnregisterStop(c)
  BY <1>6, Zenon DEF UnregisterStop
<1>7. CASE UnregisterEnd(c)
  BY <1>7, Zenon DEF UnregisterEnd
<1>8. CASE TaskDone(c)
  BY <1>8 DEF TaskDone, EndTask
<1>9. CASE TaskFree(c)
  <2>1. fresh[c] \in Nat /\ fresh[c] > 0
    BY <1>9 DEF TaskFree
  <2> QED
    BY <1>9, <2>1 DEF TaskFree, EndTask
<1> QED
  BY <1>1, <1>2, <1>3, <1>4, <1>5, <1>6, <1>7, <1>8, <1>9, Zenon DEF LLThread, Unregister

\* The IPC thread starts to wait for the other cores only while the LL thread
\* of its own core sleeps, and stops waiting for a core only while it sleeps.
LEMMA BlockStep ==
    ASSUME DomainInv,
           \/ Unblock
           \/ \E source, sink \in Core : Block(source, sink)
           \/ \E c \in Core : WaitFinished(c)
    PROVE  DomainInv'
<1> USE CoreAssumption
    DEF DomainInv, TypeOK, HeldCores, Held, tasks, ticking, threads, bind, Sleeps
<1>1. ASSUME NEW source \in Core, NEW sink \in Core, Block(source, sink) PROVE DomainInv'
  BY <1>1, Zenon DEF Block
<1>2. CASE Unblock
  BY <1>2, Zenon DEF Unblock
<1>3. ASSUME NEW c \in Core, WaitFinished(c) PROVE DomainInv'
  BY <1>3, Zenon DEF WaitFinished
<1> QED
  BY <1>1, <1>2, <1>3, Zenon

\* Init establishes the invariant and every step keeps it.
THEOREM Invariance == Spec => []DomainInv
<1>1. DomainInv /\ [Next]_vars => DomainInv'
  <2> SUFFICES ASSUME DomainInv, [Next]_vars PROVE DomainInv'
    BY Zenon
  <2>1. CASE UNCHANGED vars
    BY <2>1, Zenon DEF DomainInv, TypeOK, HeldCores, vars, tasks, ticking, threads, bind
  <2> QED
    BY <2>1, RegisterStep, ThreadStep, BlockStep, Zenon DEF Next
<1> QED
  BY InitInv, <1>1, PTL DEF Spec

\* Every variable of the domain keeps its type; the semaphores of the LL
\* threads stay within their limit.
THEOREM TypeCorrect == Spec => []TypeOK
<1>1. DomainInv => TypeOK
  BY Zenon DEF DomainInv
<1> QED
  BY Invariance, <1>1, PTL

\* Once ll_wait_finished_on_core has returned for the cores of source and sink,
\* neither is in an LL cycle until zephyr_domain_unblock, however many cores
\* there are and whether or not the IPC thread's own core is one of the two.
THEOREM ConnectsAlone == Spec => []NoCycleWhileConnecting
<1>1. DomainInv => NoCycleWhileConnecting
  BY Zenon DEF DomainInv, HeldCores, Held, NoCycleWhileConnecting
<1> QED
  BY Invariance, <1>1, PTL

-----------------------------------------------------------------------------
(* The shared count.                                                       *)

LEMMA FiniteCounts ==
    ASSUME TypeOK
    PROVE  /\ IsFiniteSet(Listed) /\ Cardinality(Listed) \in Nat
           /\ IsFiniteSet(Uncounted) /\ Cardinality(Uncounted) \in Nat
<1>1. TaskLimit \in Nat /\ IsFiniteSet(Core)
  BY BoundAssumption, CoreAssumption, Zenon
<1>2. IsFiniteSet(1 .. TaskLimit)
  BY <1>1, FS_Interval
<1>3. IsFiniteSet(Core \X (1 .. TaskLimit))
  BY <1>1, <1>2, FS_Product, Zenon
<1>4. Listed \in SUBSET (Core \X (1 .. TaskLimit)) /\ Uncounted \in SUBSET Core
  BY Zenon DEF Listed, Uncounted
<1>5. IsFiniteSet(Listed) /\ IsFiniteSet(Uncounted)
  BY <1>1, <1>3, <1>4, FS_Subset, Zenon
<1> QED
  BY <1>5, FS_CardinalityType, Zenon

\* A core gets one more task, or one less.
LEMMA OneMore ==
    ASSUME TypeOK, NEW c \in Core, n_tasks[c] < TaskLimit,
           n_tasks' = [n_tasks EXCEPT ![c] = @ + 1]
    PROVE  Cardinality(Listed') = Cardinality(Listed) + 1
<1> DEFINE p == <<c, n_tasks[c] + 1>>
<1>1. TaskLimit \in Nat /\ n_tasks[c] \in Nat /\ \A d \in Core : n_tasks[d] \in Nat
  BY BoundAssumption DEF TypeOK
<1>2. Listed' = Listed \union {p}
  <2>1. ASSUME NEW d \in Core, NEW i \in 1 .. TaskLimit
        PROVE  i <= n_tasks'[d] <=> i <= n_tasks[d] \/ <<d, i>> = p
    <3>1. CASE d = c
      BY <1>1, <3>1 DEF TypeOK
    <3>2. CASE d # c
      BY <1>1, <3>2, Zenon DEF TypeOK
    <3> QED
      BY <3>1, <3>2, Zenon
  <2>2. p \in Core \X (1 .. TaskLimit)
    BY <1>1
  <2> QED
    BY <2>1, <2>2 DEF Listed
<1>3. p \notin Listed
  BY <1>1 DEF Listed
<1> HIDE DEF p
<1> QED
  BY <1>2, <1>3, FiniteCounts, FS_AddElement, Zenon

LEMMA OneLess ==
    ASSUME TypeOK, NEW c \in Core, n_tasks[c] > 0,
           n_tasks' = [n_tasks EXCEPT ![c] = @ - 1]
    PROVE  Cardinality(Listed') = Cardinality(Listed) - 1
<1> DEFINE p == <<c, n_tasks[c]>>
<1>1. TaskLimit \in Nat /\ n_tasks[c] \in 0 .. TaskLimit /\ \A d \in Core : n_tasks[d] \in Nat
  BY BoundAssumption DEF TypeOK
<1>2. Listed' = Listed \ {p}
  <2>1. ASSUME NEW d \in Core, NEW i \in 1 .. TaskLimit
        PROVE  i <= n_tasks'[d] <=> i <= n_tasks[d] /\ <<d, i>> # p
    <3>1. CASE d = c
      BY <1>1, <3>1 DEF TypeOK
    <3>2. CASE d # c
      BY <1>1, <3>2, Zenon DEF TypeOK
    <3> QED
      BY <3>1, <3>2, Zenon
  <2> QED
    BY <2>1 DEF Listed
<1>3. p \in Listed
  BY <1>1 DEF Listed
<1> HIDE DEF p
<1> QED
  BY <1>2, <1>3, FiniteCounts, FS_RemoveElement, Zenon

\* Each step that links, counts or ends a task changes both sides alike.
LEMMA CountStep == DomainInv /\ CountsTasks /\ [Next]_vars => CountsTasks'
<1> SUFFICES ASSUME DomainInv, CountsTasks, [Next]_vars PROVE CountsTasks'
  BY Zenon
<1>0. TypeOK /\ total_num_tasks \in Int
  BY Zenon DEF DomainInv, TypeOK
<1>1. ASSUME NEW c \in Core, Insert(c) PROVE CountsTasks'
  <2>1. Cardinality(Listed') = Cardinality(Listed) + 1
    BY <1>0, <1>1, OneMore, Zenon DEF Insert
  <2>2. Uncounted' = Uncounted \union {c} /\ c \notin Uncounted
    BY <1>0, <1>1, Zenon DEF Insert, Uncounted, TypeOK
  <2>3. Cardinality(Uncounted') = Cardinality(Uncounted) + 1
    BY <1>0, <2>2, FiniteCounts, FS_AddElement, Zenon
  <2>4. total_num_tasks' = total_num_tasks
    BY <1>1, Zenon DEF Insert
  <2> QED
    BY <1>0, <2>1, <2>3, <2>4, FiniteCounts DEF CountsTasks
<1>2. ASSUME NEW c \in Core, RegisterCount(c) PROVE CountsTasks'
  <2>1. Listed' = Listed
    BY <1>2, Zenon DEF RegisterCount, Listed
  <2>2. Uncounted' = Uncounted \ {c} /\ c \in Uncounted
    BY <1>0, <1>2, Zenon DEF RegisterCount, Uncounted, TypeOK
  <2>3. Cardinality(Uncounted') = Cardinality(Uncounted) - 1
    BY <1>0, <2>2, FiniteCounts, FS_RemoveElement, Zenon
  <2>4. total_num_tasks' = total_num_tasks + 1
    BY <1>2, Zenon DEF RegisterCount
  <2> QED
    BY <1>0, <2>1, <2>3, <2>4, FiniteCounts DEF CountsTasks
<1>3. ASSUME NEW c \in Core, TaskDone(c) \/ TaskFree(c) PROVE CountsTasks'
  <2>1. Cardinality(Listed') = Cardinality(Listed) - 1
    BY <1>0, <1>3, OneLess, Zenon DEF TaskDone, TaskFree, EndTask
  <2>2. Uncounted' = Uncounted /\ total_num_tasks' = total_num_tasks - 1
    BY <1>3, Zenon DEF TaskDone, TaskFree, EndTask, Uncounted
  <2> QED
    BY <1>0, <2>1, <2>2, FiniteCounts DEF CountsTasks
<1>4. ASSUME NEW c \in Core, RegisterThread(c) \/ RegisterTimer(c) PROVE CountsTasks'
  <2>1. Uncounted' = Uncounted
    BY <1>0, <1>4, Zenon DEF RegisterThread, RegisterTimer, Uncounted, TypeOK
  <2>2. UNCHANGED tasks
    BY <1>4, Zenon DEF RegisterThread, RegisterTimer
  <2> QED
    BY <2>1, <2>2, Zenon DEF CountsTasks, Listed, tasks
<1>5. CASE UNCHANGED <<n_tasks, total_num_tasks, client>>
  BY <1>5, Zenon DEF CountsTasks, Listed, Uncounted
<1>6. ASSUME \/ Timer \/ Unblock
             \/ \E source, sink \in Core : Block(source, sink)
             \/ \E c \in Core : LLThread(c) \/ Unregister(c) \/ WaitFinished(c)
      PROVE  UNCHANGED <<n_tasks, total_num_tasks, client>>
  BY <1>6, Zenon DEF tasks, threads, Timer, TimerExpires, TimerFn, Block, Unblock, WaitFinished,
              LLThread, LLTake, LLCheck, LLLock, LLWoken, LLFinish, Move,
              Unregister, UnregisterStop, UnregisterEnd
<1>7. CASE UNCHANGED vars
  BY <1>5, <1>7, Zenon DEF vars, tasks, threads
<1> QED
  BY <1>1, <1>2, <1>3, <1>4, <1>5, <1>6, <1>7, Zenon DEF Next, Register

\* total_num_tasks, which decides whether zephyr_domain_unregister stops the
\* timer, is the number of tasks of all cores less the domain_register calls
\* that have yet to add theirs, however the cores interleave.
THEOREM CountKept == Spec => []CountsTasks
<1>1. Init => CountsTasks
  <2> SUFFICES ASSUME Init PROVE CountsTasks
    OBVIOUS
  <2>1. Listed = {} /\ Uncounted = {} /\ total_num_tasks = 0
    BY BoundAssumption DEF Init, Listed, Uncounted
  <2> QED
    BY <2>1, FS_EmptySet DEF CountsTasks
<1> QED
  BY <1>1, CountStep, Invariance, PTL DEF Spec

-----------------------------------------------------------------------------
(* The timer, when no core registers a task while another one unregisters  *)
(* its last.                                                               *)

\* Without a registration under way a count of 0 says that no core has tasks.
LEMMA CountedOut ==
    ASSUME TypeOK, CountsTasks, ~Registering, total_num_tasks = 0, NEW d \in Core
    PROVE  n_tasks[d] = 0
<1>1. Uncounted = {}
  BY Zenon DEF Registering, Uncounted
<1>2. Cardinality(Listed) = 0
  BY <1>1, FS_EmptySet, FiniteCounts DEF CountsTasks
<1>3. Listed = {}
  BY <1>2, FS_EmptySet, FiniteCounts, Zenon
<1>4. n_tasks[d] \in 0 .. TaskLimit /\ TaskLimit \in Nat \ {0}
  BY BoundAssumption, Zenon DEF TypeOK
<1>5. CASE n_tasks[d] > 0
  <2>1. <<d, 1>> \in Listed
    BY <1>4, <1>5 DEF Listed
  <2> QED
    BY <1>3, <2>1, Zenon
<1> QED
  BY <1>4, <1>5

LEMMA TimerStep ==
    ASSUME ~Overlap, TypeOK, CountsTasks, TimerInv, [Next]_vars
    PROVE  TimerInv'
<1> USE BoundAssumption DEF TypeOK, TimerInv, Ending, Registering, tasks, ticking, threads, bind
<1>1. ASSUME NEW c \in Core, Insert(c) PROVE TimerInv'
  BY <1>1 DEF Insert
<1>2. ASSUME NEW c \in Core, RegisterThread(c) PROVE TimerInv'
  BY <1>2 DEF RegisterThread, Sleeps
<1>3. ASSUME NEW c \in Core, RegisterTimer(c) PROVE TimerInv'
  BY <1>3, Zenon DEF RegisterTimer
<1>4. ASSUME NEW c \in Core, RegisterCount(c) PROVE TimerInv'
  BY <1>4, Zenon DEF RegisterCount
<1>5. CASE TimerExpires
  BY <1>5, Zenon DEF TimerExpires
<1>6. CASE TimerFn
  BY <1>6, Zenon DEF TimerFn
<1>7. ASSUME NEW c \in Core, NEW from \in {"idle", "check", "lock", "woken", "run"},
             NEW to \in {"idle", "check", "lock", "wait", "run"}, Move(c, from, to)
      PROVE  TimerInv'
  BY <1>7 DEF Move
<1>8. ASSUME NEW c \in Core, EndTask(c) PROVE TimerInv'
  BY <1>8 DEF EndTask
<1>9. ASSUME NEW c \in Core, UnregisterStop(c) PROVE TimerInv'
  <2>1. total_num_tasks = 0 => \A d \in Core : n_tasks[d] = 0
    BY <1>9, CountedOut, Zenon DEF UnregisterStop
  <2> QED
    BY <1>9, <2>1 DEF UnregisterStop
<1>10. ASSUME NEW c \in Core, UnregisterEnd(c) PROVE TimerInv'
  BY <1>10 DEF UnregisterEnd
<1>11. ASSUME NEW source \in Core, NEW sink \in Core, Block(source, sink) PROVE TimerInv'
  BY <1>11, Zenon DEF Block
<1>12. CASE Unblock
  BY <1>12, Zenon DEF Unblock
<1>13. ASSUME NEW c \in Core, WaitFinished(c) PROVE TimerInv'
  BY <1>13, Zenon DEF WaitFinished
<1>14. CASE UNCHANGED vars
  BY <1>14, Zenon DEF vars
<1>15. ASSUME NEW c \in Core, LLThread(c) PROVE TimerInv'
  BY <1>7, <1>15, Zenon DEF LLThread, LLTake, LLCheck, LLLock, LLWoken, LLFinish
<1> QED
  BY <1>1, <1>2, <1>3, <1>4, <1>5, <1>6, <1>8, <1>9, <1>10, <1>11, <1>12, <1>13, <1>14, <1>15, Zenon
  DEF Next, Timer, Register, TaskDone, TaskFree, Unregister

\* When no core registers a task while another unregisters its last one, a core
\* with registered tasks is ticked: zephyr_domain_unregister never stops the
\* timer it depends on.
THEOREM TickedWhenSerial ==
    ASSUME ~Overlap
    PROVE  Spec => []TimerForTasks
<1>1. Init => TimerInv
  BY Zenon DEF Init, TimerInv, Ending, Registering
<1>2. DomainInv /\ CountsTasks /\ TimerInv /\ [Next]_vars => TimerInv'
  BY TimerStep, Zenon DEF DomainInv
<1>3. TimerInv => TimerForTasks
  BY DEF TimerInv, TimerForTasks
<1> QED
  BY <1>1, <1>2, <1>3, CountKept, Invariance, PTL DEF Spec
=============================================================================
