------------------------------ MODULE ZephyrLL ------------------------------
(***************************************************************************)
(* The low-latency scheduler of one core (src/src/schedule/zephyr_ll.c)    *)
(* and the domain thread that drives it (zephyr_domain.c).                 *)
(*                                                                         *)
(* The lock is "interrupts off on this core": a stretch of code under the  *)
(* lock is one step, and what other threads and interrupts do happens      *)
(* between such stretches, also while a task's .run() executes.  The       *)
(* domain's handler pointer is set exactly while its thread exists.        *)
(* Calls that are refused (-EDEADLK, -EEXIST, "already scheduled") change  *)
(* nothing and are stuttering steps.                                       *)
(***************************************************************************)
EXTENDS Integers, SequencesExt

CONSTANTS Task,
          None,
          Priority,    \* task->priority; 0 is run first
          TickLimit,   \* the limit of the domain thread's semaphore, 10
          References,  \* clients use schedule_task_before/after: "none",
                       \* "any", or "patient", letting the task run once
                       \* before they schedule or free it again
          Revival,     \* clients reschedule a cancelled task within the cycle
                       \* that still has it on the temporary list
          Overrun      \* a task may stay in .run() for 100 periods

ASSUME TaskAssumption == None \notin Task /\ Priority \in [Task -> Nat]
ASSUME LimitAssumption == TickLimit \in Nat \ {0}
ASSUME ClientAssumption ==
    /\ References \in {"none", "patient", "any"}
    /\ {Revival, Overrun} \subseteq BOOLEAN

VARIABLES
    tasks,       \* sch->tasks
    temp,        \* task_head, the temporary list of zephyr_ll_run
    n_tasks,
    state,       \* task->state
    priv_data,   \* task->priv_data # NULL
    run, freeing, sem,  \* the members of zephyr_ll_pdata
    llpc,        \* the domain thread: "none", "idle" on its semaphore,
                 \* "head" of the loop with the lock held, "exec" in .run()
    current,     \* the task in .run()
    ticks,       \* the count of the domain thread's semaphore
    registering, \* tasks queued by schedule_common before domain_register
    freer        \* zephyr_ll_task_free: "no" call, "wait"ing, to "finish"

lists == <<tasks, temp, n_tasks>>
pdata == <<priv_data, run, freeing, sem>>
thread == <<llpc, current, ticks>>
vars == <<lists, state, pdata, thread, registering, freer>>

States == {"INIT", "QUEUED", "RUNNING", "CANCEL", "FREE"}
Unlocked == llpc # "head"
OnList(t) == Contains(tasks, t) \/ Contains(temp, t)

\* task_is_active
IsActive(t) == state[t] \in {"QUEUED", "RUNNING"}

Init ==
    /\ tasks = <<>> /\ temp = <<>> /\ n_tasks = 0
    /\ state = [t \in Task |-> "INIT"]
    /\ priv_data = [t \in Task |-> FALSE]
    /\ run = [t \in Task |-> FALSE]
    /\ freeing = [t \in Task |-> FALSE]
    /\ sem = [t \in Task |-> 0]
    /\ llpc = "none" /\ current = None /\ ticks = 0
    /\ registering = {}
    /\ freer = [t \in Task |-> "no"]

-----------------------------------------------------------------------------
(* Pieces of the handlers.                                                 *)

\* Mutant of TaskDone: the thread is aborted one task too early.
TaskDoneEarlyAbort(t, pc) ==
    /\ priv_data[t] /\ n_tasks > 0
    /\ tasks' = RemoveFirst(tasks, t) /\ temp' = RemoveFirst(temp, t)
    /\ n_tasks' = n_tasks - 1
    /\ state' = [state EXCEPT ![t] = "FREE"]
    /\ sem' = [sem EXCEPT ![t] = IF freeing[t] THEN 1 ELSE @]
    /\ llpc' = IF n_tasks <= 2 THEN "none" ELSE pc
    /\ current' = IF llpc' = "exec" THEN current ELSE None

\* zephyr_ll_task_done, with domain_unregister: without tasks the thread is
\* aborted, else it goes on at pc.  A task whose pdata is gone, or a count of
\* 0, stops the firmware.
TaskDone(t, pc) ==
    /\ priv_data[t] /\ n_tasks > 0
    /\ tasks' = RemoveFirst(tasks, t) /\ temp' = RemoveFirst(temp, t)
    /\ n_tasks' = n_tasks - 1
    /\ state' = [state EXCEPT ![t] = "FREE"]
    /\ sem' = [sem EXCEPT ![t] = IF freeing[t] THEN 1 ELSE @]
    /\ llpc' = IF n_tasks = 1 THEN "none" ELSE pc
    /\ current' = IF llpc' = "exec" THEN current ELSE None

\* zephyr_ll_task_insert_unlocked: before the first task of a lower priority.
InsertByPriority(t) ==
    LET pos == SelectInSeq(tasks, LAMBDA u : Priority[t] < Priority[u])
    IN  /\ tasks' = IF pos = 0 THEN Append(tasks, t) ELSE InsertAt(tasks, pos, t)
        /\ state' = [state EXCEPT ![t] = "QUEUED"]
        /\ UNCHANGED temp

\* s with t put offset places after ref, which may not be in s.
InsertNextTo(s, t, ref, offset) ==
    IF Contains(s, ref)
    THEN InsertAt(s, SelectInSeq(s, LAMBDA u : u = ref) + offset, t)
    ELSE s

\* zephyr_ll_task_insert_before_unlocked (offset 0), _after_ (offset 1).
InsertByReference(t, ref, offset) ==
    /\ tasks' = InsertNextTo(tasks, t, ref, offset)
    /\ temp' = InsertNextTo(temp, t, ref, offset)
    /\ UNCHANGED state

-----------------------------------------------------------------------------
(* The clients' calls.                                                     *)

\* zephyr_ll_task_init; the allocation of pdata may fail.
TaskInit(t) ==
    /\ Unlocked /\ ~priv_data[t]
    /\ state' = [state EXCEPT ![t] = "INIT"]
    /\ \/ /\ priv_data' = [priv_data EXCEPT ![t] = TRUE]
          /\ run' = [run EXCEPT ![t] = FALSE]
          /\ freeing' = [freeing EXCEPT ![t] = FALSE]
          /\ sem' = [sem EXCEPT ![t] = 0]
       \/ UNCHANGED pdata
    /\ UNCHANGED <<lists, thread, registering, freer>>

\* A task queued by reference keeps its state until it is run.
InLimbo(t) == OnList(t) /\ state[t] \in {"INIT", "FREE"}
Patient(t) == References = "patient" => ~InLimbo(t)

\* pipeline_schedule_copy does not schedule an active task, and
\* zephyr_ll_task_schedule_common refuses a task being freed.
MaySchedule(t) ==
    /\ Unlocked /\ ~IsActive(t)
    /\ priv_data[t] /\ ~freeing[t] /\ Patient(t)

\* Mutant of ScheduleCancelled: the task is put on the list again.
ScheduleCancelledTwice(t) ==
    /\ MaySchedule(t) /\ state[t] = "CANCEL"
    /\ InsertByPriority(t)
    /\ n_tasks' = n_tasks + 1
    /\ UNCHANGED <<pdata, thread, registering, freer>>

\* schedule_common, the task was cancelled and is still on a list.
ScheduleCancelled(t) ==
    /\ MaySchedule(t) /\ state[t] = "CANCEL"
    /\ Contains(temp, t) => Revival
    /\ state' = [state EXCEPT ![t] = "QUEUED"]
    /\ UNCHANGED <<lists, pdata, thread, registering, freer>>

\* The end of schedule_common for a task that is not on sch->tasks.
Queued(t) ==
    /\ n_tasks' = n_tasks + 1
    /\ registering' = registering \union {t}
    /\ UNCHANGED <<pdata, thread, freer>>

\* schedule_task
Schedule(t) ==
    /\ MaySchedule(t) /\ state[t] # "CANCEL" /\ ~Contains(tasks, t)
    /\ InsertByPriority(t)
    /\ Queued(t)

\* schedule_task_before, schedule_task_after an active reference
ScheduleByReference(t, ref, offset) ==
    /\ References # "none"
    /\ MaySchedule(t) /\ state[t] # "CANCEL" /\ ~Contains(tasks, t)
    /\ ref # t /\ IsActive(ref)
    /\ InsertByReference(t, ref, offset)
    /\ Queued(t)

\* domain_register: the first task of a core starts its thread.
Register(t) ==
    /\ Unlocked /\ t \in registering
    /\ registering' = registering \ {t}
    /\ IF llpc = "none"
       THEN llpc' = "idle" /\ current' = None /\ ticks' = 0
       ELSE UNCHANGED thread
    /\ UNCHANGED <<lists, state, pdata, freer>>

\* Mutant of TaskCancel: also assigns CANCEL to tasks that are on no list.
TaskCancelAnyState(t) ==
    /\ Unlocked /\ freer[t] = "no" /\ priv_data[t]
    /\ state' = [state EXCEPT ![t] = "CANCEL"]
    /\ UNCHANGED <<lists, pdata, thread, registering, freer>>

\* zephyr_ll_task_cancel
TaskCancel(t) ==
    /\ Unlocked /\ freer[t] = "no" /\ priv_data[t]
    /\ state[t] \notin {"INIT", "FREE"}
    /\ state' = [state EXCEPT ![t] = "CANCEL"]
    /\ UNCHANGED <<lists, pdata, thread, registering, freer>>

\* zephyr_ll_task_free: the switch on task->state.
MustWait(t) ==
    \/ state[t] = "CANCEL" /\ run[t]
    \/ state[t] = "RUNNING"

\* zephyr_ll_task_free up to the semaphore.
FreeStart(t) ==
    /\ Unlocked /\ freer[t] = "no" /\ priv_data[t] /\ Patient(t)
    /\ freer' = [freer EXCEPT ![t] = IF MustWait(t) THEN "wait" ELSE "finish"]
    /\ freeing' = [freeing EXCEPT ![t] = TRUE]
    /\ IF state[t] \in {"INIT", "FREE"} \/ MustWait(t)
       THEN UNCHANGED <<lists, state, sem, thread>>
       ELSE TaskDone(t, llpc) /\ UNCHANGED ticks
    /\ UNCHANGED <<priv_data, run, registering>>

\* Mutant of FreeWake: the semaphore is not waited for.
FreeWakeAtOnce(t) ==
    /\ Unlocked /\ freer[t] = "wait"
    /\ freer' = [freer EXCEPT ![t] = "finish"]
    /\ UNCHANGED <<lists, state, pdata, thread, registering>>

\* k_sem_take returns: signalled, or after 100 periods.
FreeWake(t) ==
    /\ Unlocked /\ freer[t] = "wait"
    /\ sem[t] > 0 \/ Overrun
    /\ sem' = [sem EXCEPT ![t] = 0]
    /\ freer' = [freer EXCEPT ![t] = "finish"]
    /\ UNCHANGED <<lists, state, priv_data, run, freeing, thread, registering>>

\* The end of zephyr_ll_task_free.
FreeFinish(t) ==
    /\ Unlocked /\ freer[t] = "finish"
    /\ priv_data' = [priv_data EXCEPT ![t] = FALSE]
    /\ freer' = [freer EXCEPT ![t] = "no"]
    /\ UNCHANGED <<lists, state, run, freeing, sem, thread, registering>>

-----------------------------------------------------------------------------
(* The timer and the domain thread.                                        *)

\* zephyr_domain_timer_fn
Tick ==
    /\ Unlocked /\ llpc # "none" /\ ticks < TickLimit
    /\ ticks' = ticks + 1
    /\ UNCHANGED <<lists, state, pdata, llpc, current, registering, freer>>

\* zephyr_domain_thread_fn: take the semaphore, enter zephyr_ll_run.
CycleStart ==
    /\ llpc = "idle" /\ ticks > 0
    /\ ticks' = ticks - 1
    /\ llpc' = "head"
    /\ UNCHANGED <<lists, state, pdata, current, registering, freer>>

\* A cancelled task at the head of the list is dropped.
LoopCancel ==
    /\ llpc = "head" /\ tasks # <<>>
    /\ state[Head(tasks)] = "CANCEL"
    /\ TaskDone(Head(tasks), "head")
    /\ UNCHANGED <<priv_data, run, freeing, ticks, registering, freer>>

\* Mutant of LoopRun: the task is run whatever its state.
LoopRunCancelled ==
    /\ llpc = "head" /\ tasks # <<>>
    /\ priv_data[Head(tasks)]
    /\ run' = [run EXCEPT ![Head(tasks)] = TRUE]
    /\ state' = [state EXCEPT ![Head(tasks)] = "RUNNING"]
    /\ tasks' = Tail(tasks) /\ temp' = Append(temp, Head(tasks))
    /\ llpc' = "exec" /\ current' = Head(tasks)
    /\ UNCHANGED <<n_tasks, priv_data, freeing, sem, ticks, registering, freer>>

\* Any other one moves to the temporary list and is run without the lock.
LoopRun ==
    /\ llpc = "head" /\ tasks # <<>>
    /\ state[Head(tasks)] # "CANCEL"
    /\ priv_data[Head(tasks)]
    /\ run' = [run EXCEPT ![Head(tasks)] = TRUE]
    /\ state' = [state EXCEPT ![Head(tasks)] = "RUNNING"]
    /\ tasks' = Tail(tasks) /\ temp' = Append(temp, Head(tasks))
    /\ llpc' = "exec" /\ current' = Head(tasks)
    /\ UNCHANGED <<n_tasks, priv_data, freeing, sem, ticks, registering, freer>>

\* Mutant of RunReturn: a waiting zephyr_ll_task_free is not noticed.
RunReturnNotFreeing(completed) ==
    /\ llpc = "exec"
    /\ IF completed \/ state[current] = "CANCEL"
       THEN TaskDone(current, "head")
       ELSE llpc' = "head" /\ current' = None /\ UNCHANGED <<lists, state, sem>>
    /\ UNCHANGED <<priv_data, run, freeing, ticks, registering, freer>>

\* .run() returned COMPLETED, or RESCHEDULE, which an invalid value counts as.
\* A read of freed pdata gives either value.
RunReturn(completed) ==
    /\ llpc = "exec"
    /\ \E seen \in IF priv_data[current] THEN {freeing[current]} ELSE BOOLEAN :
          IF seen \/ completed \/ state[current] = "CANCEL"
          THEN TaskDone(current, "head")
          ELSE llpc' = "head" /\ current' = None /\ UNCHANGED <<lists, state, sem>>
    /\ UNCHANGED <<priv_data, run, freeing, ticks, registering, freer>>

\* Every task was run: they move back, in the order they were run.
LoopEnd ==
    /\ llpc = "head" /\ tasks = <<>>
    /\ tasks' = temp /\ temp' = <<>>
    /\ llpc' = "idle"
    /\ UNCHANGED <<n_tasks, state, pdata, current, ticks, registering, freer>>

LLThread ==
    \/ CycleStart \/ LoopCancel \/ LoopRun \/ LoopEnd
    \/ \E completed \in BOOLEAN : RunReturn(completed)

Client(t) ==
    \/ TaskInit(t) \/ ScheduleCancelled(t) \/ Schedule(t)
    \/ \E ref \in Task, offset \in {0, 1} : ScheduleByReference(t, ref, offset)
    \/ Register(t) \/ TaskCancel(t)
    \/ FreeStart(t) \/ FreeWake(t) \/ FreeFinish(t)

Next == Tick \/ LLThread \/ \E t \in Task : Client(t)

Spec == Init /\ [][Next]_vars

\* The timer keeps firing, .run() returns, and a client that began a call goes
\* on with it: strong fairness, since each time the domain thread has the lock
\* the client's next step is disabled.  Nobody has to begin a call.
FairSpec ==
    /\ Spec
    /\ WF_vars(LLThread) /\ SF_vars(Tick)
    /\ \A t \in Task : SF_vars(Register(t)) /\ SF_vars(FreeWake(t)) /\ SF_vars(FreeFinish(t))

-----------------------------------------------------------------------------
(* Every variable keeps its type; pending ticks stay within the semaphore's *)
(* limit.                                                                   *)
TypeOK ==
    /\ tasks \in Seq(Task) /\ temp \in Seq(Task)
    /\ n_tasks \in Nat
    /\ state \in [Task -> States]
    /\ priv_data \in [Task -> BOOLEAN]
    /\ run \in [Task -> BOOLEAN] /\ freeing \in [Task -> BOOLEAN]
    /\ sem \in [Task -> {0, 1}]
    /\ llpc \in {"none", "idle", "head", "exec"}
    /\ current \in Task \union {None}
    /\ ticks \in 0 .. TickLimit
    /\ registering \subseteq Task
    /\ freer \in [Task -> {"no", "wait", "finish"}]

(* No task is linked twice, on one list or on both, and n_tasks, which      *)
(* decides when the thread is aborted, counts them all: the lists survive   *)
(* whatever clients do while the lock is dropped in zephyr_ll_run.          *)
ListAccounting ==
    /\ IsInjective(tasks \o temp)
    /\ n_tasks = Len(tasks) + Len(temp)

(* The state tells whether the task is on a list, as the comment on the     *)
(* task state machine says (zephyr_ll_task_free and _cancel rely on it),    *)
(* but for a task queued by reference that was not run yet.                 *)
StateTellsList ==
    \A t \in Task :
        /\ OnList(t) /\ ~InLimbo(t) <=> state[t] \in {"QUEUED", "RUNNING", "CANCEL"}
        /\ References = "none" => ~InLimbo(t)

(* "This is synchronous - after this returns the object can be destroyed!": *)
(* once zephyr_ll_task_free has dropped pdata the scheduler neither links   *)
(* the task nor is about to come back from its .run().                      *)
FreeIsSynchronous ==
    \A t \in Task : ~priv_data[t] => ~OnList(t) /\ current # t

(* As long as there are tasks there is a thread to run them, once the       *)
(* domain_register calls under way are through: an unregister of the last   *)
(* task never takes the thread away from one that was just queued.          *)
ThreadForTasks ==
    n_tasks > 0 /\ registering = {} => llpc # "none"

(* "List order defines schedule order. Priority 0 indicates highest         *)
(* priority and is run first": between cycles the list is in priority       *)
(* order.  The code does not keep this: see the README.                     *)
PriorityOrder ==
    llpc = "idle" => \A i, j \in 1 .. Len(tasks) :
                        i < j => Priority[tasks[i]] <= Priority[tasks[j]]

(* zephyr_ll_task_free gets its semaphore: with fair ticks and tasks that   *)
(* return, it does not need its timeout of 100 periods.                     *)
FreeReturns ==
    \A t \in Task : freer[t] = "wait" ~> freer[t] = "no"

(* A cancelled task leaves the scheduler, unless it is scheduled again.     *)
CancelTakesEffect ==
    \A t \in Task : state[t] = "CANCEL" ~> state[t] \in {"FREE", "QUEUED"}

-----------------------------------------------------------------------------
(* An inductive invariant, for clients without Revival and Overrun that are *)
(* patient or do not use references.                                        *)

\* No task is linked twice, and all are counted.
Linked ==
    /\ IsInjective(tasks) /\ IsInjective(temp)
    /\ \A t \in Task : ~(Contains(tasks, t) /\ Contains(temp, t))
    /\ n_tasks = Len(tasks) + Len(temp)

\* A task's state tells where it is; those on the temporary list were run in
\* this cycle, but for one in limbo.
Placed(t) ==
    /\ OnList(t) => priv_data[t]
    /\ OnList(t) /\ state[t] \in {"INIT", "FREE"} => References # "none"
    /\ state[t] \in {"QUEUED", "RUNNING", "CANCEL"} => OnList(t)
    /\ Contains(temp, t) => state[t] # "QUEUED" /\ (state[t] \in {"RUNNING", "CANCEL"} => run[t])

\* A call of zephyr_ll_task_free has its task still on a list, with the
\* semaphore yet to be given, or off the lists for good.
FreePlaced(t) ==
    /\ freer[t] # "no" => priv_data[t] /\ freeing[t]
    /\ freeing[t] /\ priv_data[t] => freer[t] # "no"
    /\ freer[t] = "finish" => state[t] \in {"INIT", "FREE"} /\ ~OnList(t)
    /\ freer[t] = "wait" => IF sem[t] = 0 THEN state[t] \in {"RUNNING", "CANCEL"}
                            ELSE state[t] = "FREE" /\ ~OnList(t)
    /\ sem[t] # 0 => freer[t] = "wait"

\* The task in .run() is on the temporary list.
AtWork ==
    IF llpc = "exec"
    THEN Contains(temp, current) /\ state[current] \in {"RUNNING", "CANCEL"}
    ELSE current = None

LLInv ==
    /\ TypeOK /\ Linked /\ AtWork
    /\ \A t \in Task : Placed(t) /\ FreePlaced(t)
=============================================================================
