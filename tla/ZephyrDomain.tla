---------------------------- MODULE ZephyrDomain ----------------------------
(***************************************************************************)
(* The timer domain that drives the low-latency scheduler of every core    *)
(* (src/src/schedule/zephyr_domain.c, ll_schedule_domain.h): one timer and *)
(* one task count shared by all cores, one LL thread per core, and the     *)
(* block that keeps LL cycles from starting while the IPC thread connects  *)
(* components of two cores (src/src/ipc/ipc4/helper.c).                    *)
(*                                                                         *)
(* The cores run in parallel.  On one core the LL thread is cooperative    *)
(* and has the highest priority: another thread of the core takes a step   *)
(* only while the LL thread sleeps.  Here the scheduler of a core is just  *)
(* its number of tasks; module ZephyrLL has its lists.                     *)
(***************************************************************************)
EXTENDS Integers, FiniteSets

CONSTANTS Core,
          IpcCore,    \* the core whose IPC thread binds components
          TaskLimit,  \* bound: tasks of one core
          TotalLimit, \* bound: tasks of all cores
          TickLimit,  \* the limit of a domain thread's semaphore, 10
          Overlap     \* a core registers tasks while a core unregisters its
                      \* last one

ASSUME CoreAssumption == IsFiniteSet(Core) /\ IpcCore \in Core
ASSUME BoundAssumption == {TaskLimit, TotalLimit, TickLimit} \subseteq Nat \ {0}
ASSUME OverlapAssumption == Overlap \in BOOLEAN

VARIABLES
    n_tasks,          \* sch->n_tasks of each core
    fresh,            \* how many of these no cycle has run yet
    total_num_tasks,  \* domain->total_num_tasks
    handler,          \* dt->handler # NULL
    sem,              \* the count of dt->sem
    user_data,        \* k_timer_user_data_get(timer) # NULL
    timer,            \* the timer is in the kernel's timeout list
    firing,           \* the timer interrupt runs, zephyr_domain_timer_fn not yet
    watchdog,         \* the core's watchdog is armed
    client,           \* a thread of the core in zephyr_ll_task_schedule_common:
                      \* "idle", before domain_register ("op"), before its
                      \* locked part ("timer") or before its "count"
    ll,               \* the LL thread: "none", "idle" on its semaphore, to
                      \* "check" or "lock" and check domain->block, in "wait"
                      \* on the condition variable, "woken" from it, or in a
                      \* "run"
    unregister,       \* the thread of the core that ends its last task: "no",
                      \* before the lock of zephyr_domain_unregister ("stop")
                      \* or before its end, with the timer stopped ("unset")
                      \* or not ("leave")
    block,            \* zephyr_domain->block
    binding,          \* the cores of source and sink of the bind under way
    awaited           \* those the IPC thread has yet to wait for

tasks == <<n_tasks, fresh, total_num_tasks>>
ticking == <<user_data, timer, firing>>
threads == <<client, ll, unregister>>
bind == <<block, binding, awaited>>
vars == <<tasks, handler, sem, ticking, watchdog, threads, bind>>

Init ==
    /\ n_tasks = [c \in Core |-> 0] /\ fresh = [c \in Core |-> 0]
    /\ total_num_tasks = 0
    /\ handler = [c \in Core |-> FALSE]
    /\ sem = [c \in Core |-> 0]
    /\ user_data = FALSE /\ timer = FALSE /\ firing = FALSE
    /\ watchdog = [c \in Core |-> FALSE]
    /\ client = [c \in Core |-> "idle"]
    /\ ll = [c \in Core |-> "none"]
    /\ unregister = [c \in Core |-> "no"]
    /\ block = FALSE /\ binding = {} /\ awaited = {}

\* The LL thread of c sleeps and the other threads of its core may run: none
\* of them is in the part of zephyr_ll_task_free with interrupts off.
Sleeps(c) == ll[c] \in {"none", "idle", "wait"} /\ unregister[c] = "no"

\* domain->lock is free: no core is between the two locked steps of its
\* zephyr_domain_unregister.
LockFree == \A c \in Core : unregister[c] \notin {"unset", "leave"}

Ending == \E c \in Core : unregister[c] # "no"
Registering == \E c \in Core : client[c] # "idle"

\* The tasks on all cores, each as its core and its number there, and the calls
\* of domain_register under way.
Listed == {p \in Core \X (1 .. TaskLimit) : p[2] <= n_tasks[p[1]]}
Uncounted == {c \in Core : client[c] # "idle"}

-----------------------------------------------------------------------------
(* A thread of a core schedules a task.                                    *)

\* zephyr_ll_task_schedule_common puts the task on the list.
Insert(c) ==
    /\ Sleeps(c) /\ client[c] = "idle"
    /\ n_tasks[c] < TaskLimit /\ Cardinality(Listed) < TotalLimit
    /\ Overlap \/ ~Ending
    /\ n_tasks' = [n_tasks EXCEPT ![c] = @ + 1]
    /\ fresh' = [fresh EXCEPT ![c] = @ + 1]
    /\ client' = [client EXCEPT ![c] = "op"]
    /\ UNCHANGED <<total_num_tasks, handler, sem, ticking, watchdog, ll, unregister, bind>>

\* zephyr_domain_register, up to the start of the thread.
RegisterThread(c) ==
    /\ Sleeps(c) /\ client[c] = "op"
    /\ \/ /\ handler[c]
          /\ client' = [client EXCEPT ![c] = "count"]
          /\ UNCHANGED <<handler, sem, ll>>
       \/ /\ ~handler[c]
          /\ handler' = [handler EXCEPT ![c] = TRUE]
          /\ sem' = [sem EXCEPT ![c] = 0]
          /\ ll' = [ll EXCEPT ![c] = "idle"]
          /\ client' = [client EXCEPT ![c] = "timer"]
    /\ UNCHANGED <<tasks, ticking, watchdog, unregister, bind>>

\* Its locked part: the first core to come starts the timer.
RegisterTimer(c) ==
    /\ Sleeps(c) /\ client[c] = "timer" /\ LockFree
    /\ user_data' = TRUE
    /\ IF user_data THEN UNCHANGED <<timer, watchdog>>
       ELSE timer' = TRUE /\ watchdog' = [watchdog EXCEPT ![c] = TRUE]
    /\ client' = [client EXCEPT ![c] = "count"]
    /\ UNCHANGED <<tasks, handler, sem, firing, ll, unregister, bind>>

\* domain_register counts the task.
RegisterCount(c) ==
    /\ Sleeps(c) /\ client[c] = "count"
    /\ total_num_tasks' = total_num_tasks + 1
    /\ client' = [client EXCEPT ![c] = "idle"]
    /\ UNCHANGED <<n_tasks, fresh, handler, sem, ticking, watchdog, ll, unregister, bind>>

-----------------------------------------------------------------------------
(* The timer.                                                              *)

\* The kernel takes the timer from its list and enters the interrupt.
TimerExpires ==
    /\ timer /\ ~firing
    /\ firing' = TRUE
    /\ UNCHANGED <<tasks, handler, sem, user_data, timer, watchdog, threads, bind>>

\* Mutant of TimerFn: a timer without user data is not stopped.
TimerFnReAdds ==
    /\ firing
    /\ firing' = FALSE
    /\ timer' = TRUE
    /\ sem' = [c \in Core |-> IF user_data /\ handler[c] /\ sem[c] < TickLimit
                              THEN sem[c] + 1 ELSE sem[c]]
    /\ UNCHANGED <<tasks, handler, user_data, watchdog, threads, bind>>

\* The kernel adds the timer to its list again and calls zephyr_domain_timer_fn,
\* which stops a timer without user data.
TimerFn ==
    /\ firing
    /\ firing' = FALSE
    /\ timer' = user_data
    /\ sem' = [c \in Core |-> IF user_data /\ handler[c] /\ sem[c] < TickLimit
                              THEN sem[c] + 1 ELSE sem[c]]
    /\ UNCHANGED <<tasks, handler, user_data, watchdog, threads, bind>>

-----------------------------------------------------------------------------
(* The LL thread.                                                          *)

\* A step that only moves the LL thread of c; a cycle runs every task.
Move(c, from, to) ==
    /\ ll[c] = from /\ unregister[c] = "no"
    /\ ll' = [ll EXCEPT ![c] = to]
    /\ fresh' = IF to = "run" THEN [fresh EXCEPT ![c] = 0] ELSE fresh
    /\ UNCHANGED <<n_tasks, total_num_tasks, handler, ticking, watchdog, client, unregister, bind>>

\* zephyr_domain_thread_fn takes its semaphore.
LLTake(c) ==
    /\ sem[c] > 0
    /\ sem' = [sem EXCEPT ![c] = @ - 1]
    /\ Move(c, "idle", "check")

\* Mutant of LLCheck: the thread starts its cycle whatever block says.
LLCheckNot(c) ==
    /\ Move(c, "check", "run")
    /\ UNCHANGED sem

\* The check of block without the mutex.
LLCheck(c) ==
    /\ Move(c, "check", IF block THEN "lock" ELSE "run")
    /\ UNCHANGED sem

\* The check of block under the mutex.
LLLock(c) ==
    /\ Move(c, "lock", IF block THEN "wait" ELSE "run")
    /\ UNCHANGED sem

\* The condition variable wakes the thread; block is not read again.
LLWoken(c) ==
    /\ Move(c, "woken", "run")
    /\ UNCHANGED sem

\* The cycle ends and the thread feeds the watchdog.
LLFinish(c) ==
    /\ Move(c, "run", "idle")
    /\ UNCHANGED sem

-----------------------------------------------------------------------------
(* A task ends.                                                            *)

\* zephyr_ll_task_done, and domain_unregister up to the domain's own operation,
\* which does nothing while the core has tasks.
EndTask(c) ==
    /\ unregister[c] = "no" /\ n_tasks[c] > 0
    /\ Overlap \/ n_tasks[c] > 1 \/ ~Registering
    /\ n_tasks' = [n_tasks EXCEPT ![c] = @ - 1]
    /\ total_num_tasks' = total_num_tasks - 1
    /\ unregister' = [unregister EXCEPT ![c] = IF n_tasks[c] = 1 THEN "stop" ELSE "no"]
    /\ UNCHANGED <<handler, sem, ticking, watchdog, client, ll, bind>>

\* A task completes, or is found cancelled, in a cycle.
TaskDone(c) ==
    /\ ll[c] = "run"
    /\ EndTask(c)
    /\ UNCHANGED fresh

\* zephyr_ll_task_free ends a task that has never run by itself; one that has
\* run is left to the next cycle.  Nobody frees the task whose registration is
\* under way.
TaskFree(c) ==
    /\ Sleeps(c) /\ fresh[c] > (IF client[c] = "idle" THEN 0 ELSE 1)
    /\ EndTask(c)
    /\ fresh' = [fresh EXCEPT ![c] = @ - 1]

\* zephyr_domain_unregister takes the lock; without any task left the
\* watchdog of this core is disabled and the timer stopped.
UnregisterStop(c) ==
    /\ unregister[c] = "stop" /\ LockFree
    /\ IF total_num_tasks = 0
       THEN /\ timer' = FALSE
            /\ watchdog' = [watchdog EXCEPT ![c] = FALSE]
            /\ unregister' = [unregister EXCEPT ![c] = "unset"]
       ELSE /\ unregister' = [unregister EXCEPT ![c] = "leave"]
            /\ UNCHANGED <<timer, watchdog>>
    /\ UNCHANGED <<tasks, handler, sem, user_data, firing, client, ll, bind>>

\* Mutant of UnregisterEnd: the timer keeps its user data.
UnregisterEndKeepsData(c) ==
    /\ unregister[c] \in {"unset", "leave"}
    /\ handler' = [handler EXCEPT ![c] = FALSE]
    /\ ll' = [ll EXCEPT ![c] = "none"]
    /\ unregister' = [unregister EXCEPT ![c] = "no"]
    /\ UNCHANGED <<tasks, sem, ticking, watchdog, client, bind>>

\* The rest of zephyr_domain_unregister: a stopped timer loses its user data,
\* the core its handler and its LL thread.
UnregisterEnd(c) ==
    /\ unregister[c] \in {"unset", "leave"}
    /\ user_data' = (user_data /\ unregister[c] # "unset")
    /\ handler' = [handler EXCEPT ![c] = FALSE]
    /\ ll' = [ll EXCEPT ![c] = "none"]
    /\ unregister' = [unregister EXCEPT ![c] = "no"]
    /\ UNCHANGED <<tasks, sem, timer, firing, watchdog, client, bind>>

-----------------------------------------------------------------------------
(* The IPC thread connects components of two cores.                        *)

\* ipc_comp_connect for a source and a sink on different cores, of which its
\* own may be one: ll_block sets domain->block, and it will wait for the others.
\* ipc_comp_disconnect does the same.
Block(source, sink) ==
    /\ source # sink
    /\ Sleeps(IpcCore) /\ ~block
    /\ block' = TRUE
    /\ binding' = {source, sink}
    /\ awaited' = {source, sink} \ {IpcCore}
    /\ UNCHANGED <<tasks, handler, sem, ticking, watchdog, threads>>

\* ll_wait_finished_on_core: a blocking IDC message has been handled by a
\* thread of core c.
WaitFinished(c) ==
    /\ Sleeps(IpcCore) /\ block /\ c \in awaited
    /\ Sleeps(c)
    /\ awaited' = awaited \ {c}
    /\ UNCHANGED <<tasks, handler, sem, ticking, watchdog, threads, block, binding>>

\* Mutant of Unblock: the condition variable is not signalled.
UnblockSilent ==
    /\ Sleeps(IpcCore) /\ block
    /\ block' = FALSE
    /\ binding' = {} /\ awaited' = {}
    /\ UNCHANGED <<tasks, handler, sem, ticking, watchdog, threads>>

\* ll_unblock: zephyr_domain_unblock, when the components are connected or
\* when a wait has failed.
Unblock ==
    /\ Sleeps(IpcCore) /\ block
    /\ block' = FALSE
    /\ binding' = {} /\ awaited' = {}
    /\ ll' = [c \in Core |-> IF ll[c] = "wait" THEN "woken" ELSE ll[c]]
    /\ UNCHANGED <<tasks, handler, sem, ticking, watchdog, client, unregister>>

-----------------------------------------------------------------------------
Timer == TimerExpires \/ TimerFn

Register(c) == RegisterThread(c) \/ RegisterTimer(c) \/ RegisterCount(c)

LLThread(c) ==
    \/ LLTake(c) \/ LLCheck(c) \/ LLLock(c) \/ LLWoken(c) \/ LLFinish(c)

Unregister(c) == UnregisterStop(c) \/ UnregisterEnd(c)

Next ==
    \/ Timer \/ Unblock
    \/ \E source, sink \in Core : Block(source, sink)
    \/ \E c \in Core :
          \/ Insert(c) \/ Register(c)
          \/ LLThread(c) \/ TaskDone(c) \/ TaskFree(c) \/ Unregister(c)
          \/ WaitFinished(c)

Spec == Init /\ [][Next]_vars

\* The timer ticks, threads that are not preempted go on, and a bind that has
\* blocked the LL threads ends.  A thread below the LL thread is preempted now
\* and then, so it needs strong fairness.
FairSpec ==
    /\ Spec
    /\ WF_vars(Timer) /\ SF_vars(Unblock)
    /\ \A c \in Core :
          WF_vars(LLThread(c)) /\ WF_vars(Unregister(c)) /\ SF_vars(Register(c))

-----------------------------------------------------------------------------
(* Properties.                                                             *)

\* Every variable keeps its type; total_num_tasks is not bounded by 0, since a
\* task may end before domain_register has counted it.
TypeOK ==
    /\ n_tasks \in [Core -> 0 .. TaskLimit] /\ fresh \in [Core -> Nat]
    /\ total_num_tasks \in Int
    /\ {user_data, timer, firing, block} \subseteq BOOLEAN
    /\ handler \in [Core -> BOOLEAN] /\ watchdog \in [Core -> BOOLEAN]
    /\ sem \in [Core -> 0 .. TickLimit]
    /\ client \in [Core -> {"idle", "op", "timer", "count"}]
    /\ ll \in [Core -> {"none", "idle", "check", "lock", "wait", "woken", "run"}]
    /\ unregister \in [Core -> {"no", "stop", "unset", "leave"}]
    /\ binding \subseteq Core /\ awaited \subseteq binding

\* The shared count, which decides whether the timer is stopped, is the number
\* of tasks on all cores less the calls of domain_register that have yet to add
\* theirs.
CountsTasks ==
    total_num_tasks = Cardinality(Listed) - Cardinality(Uncounted)

\* A core with a handler, whose registration is done and which is not on its
\* way to unregister, is ticked: the timer runs or its interrupt is being
\* served, and it has its user data (zephyr_domain_register starts the timer
\* for the first core, zephyr_domain_unregister stops it for the last).
TimerForTasks ==
    \A c \in Core :
        handler[c] /\ client[c] = "idle" /\ n_tasks[c] > 0
        => user_data /\ (timer \/ firing)

\* While the IPC thread connects the two ends of a buffer neither of their cores
\* is in an LL cycle: zephyr_domain_block keeps the next one from starting, and
\* ll_wait_finished_on_core lets the current one finish.
NoCycleWhileConnecting ==
    block /\ awaited = {} => \A c \in binding : ll[c] # "run"

\* The watchdog of a core is armed only while the core has an LL thread that
\* feeds it.  The code does not keep this: see the README.
WatchdogGuardsThread ==
    \A c \in Core : watchdog[c] => handler[c]

\* A task that is on a core's list is reached by an LL cycle, or freed before:
\* the core has a thread, the timer wakes it, and a block does not hold it for
\* ever.
ScheduledRuns ==
    \A c \in Core : n_tasks[c] > 0 ~> ll[c] = "run" \/ n_tasks[c] = 0

\* An inductive invariant for cores of which none registers a task while
\* another unregisters its last one.  A timer with user data is being served,
\* or stopped by the core that is about to clear the data, which finds no task
\* on any core.
TimerInv ==
    /\ ~(Ending /\ Registering)
    /\ user_data => timer \/ firing \/ \E c \in Core : unregister[c] = "unset"
    /\ \A c \in Core :
          /\ unregister[c] = "unset" => \A d \in Core : n_tasks[d] = 0
          /\ unregister[c] # "no" => n_tasks[c] = 0
          /\ handler[c] /\ n_tasks[c] = 0 => unregister[c] # "no"
          /\ client[c] # "idle" => n_tasks[c] > 0
          /\ handler[c] /\ client[c] # "timer" /\ n_tasks[c] > 0 => user_data

\* A timer that has lost its user data is stopped for good or started anew,
\* even when its interrupt was being served as zephyr_domain_unregister stopped
\* it.
OrphanTimerStops == ~user_data ~> (~timer \/ user_data)
=============================================================================
