------------------------------ MODULE ZephyrDP ------------------------------
(***************************************************************************)
(* The data processing scheduler of one core                               *)
(* (src/src/schedule/zephyr_dp_schedule.c): a preemptible thread per task, *)
(* triggered after each cycle of the LL scheduler of the core.             *)
(*                                                                         *)
(* The lock is irq_lock(): code under it is one step.  The thread reads    *)
(* task->state without it.  ll_tick_src is the only LL task assumed on the *)
(* core, the case in which the DP scheduler depends on it.                 *)
(***************************************************************************)
EXTENDS Integers

CONSTANTS Task,
          Period,        \* the period each task is scheduled with, in us
          LLTimerPeriod, \* LL_TIMER_PERIOD_US
          Results,       \* what .run() returns
          FreeUnstarted  \* components are freed that were never started

ASSUME PeriodAssumption ==
    /\ Period \in [Task -> Nat]
    /\ LLTimerPeriod \in Nat \ {0}
ASSUME ClientAssumption ==
    /\ Results \subseteq {"RESCHEDULE", "COMPLETED", "CANCEL"}
    /\ FreeUnstarted \in BOOLEAN

VARIABLES
    listed,      \* the tasks on dp_sch->tasks
    tick_src,    \* ll_tick_src is scheduled
    state,       \* task->state
    linked,      \* task->list was ever initialised, by linking it
    sem,         \* pdata->sem, limit 1
    pc,          \* dp_thread_fn: "none", "wait" for the semaphore, "check" the
                 \* state, "run", "post" it; "panic", and "fault" in a caller
    result,      \* its local variable state
    ll_cycles_to_start,
    dp_startup_delay,
    due          \* history: a tick has triggered the task since it was
                 \* scheduled, and no .run() has returned since the trigger

sched == <<listed, tick_src>>
thread == <<pc, result>>
startup == <<ll_cycles_to_start, dp_startup_delay>>
vars == <<sched, state, linked, sem, thread, startup, due>>

States == {"INIT", "QUEUED", "RUNNING", "CANCEL", "COMPLETED"}

\* k_panic, or a fault: the firmware stops.
Halted == \E t \in Task : pc[t] \in {"panic", "fault"}

Init ==
    /\ listed = {} /\ tick_src = FALSE
    /\ state = [t \in Task |-> "INIT"]
    /\ linked = [t \in Task |-> FALSE]
    /\ sem = [t \in Task |-> 0]
    /\ pc = [t \in Task |-> "none"]
    /\ result = [t \in Task |-> "INIT"]
    /\ ll_cycles_to_start = [t \in Task |-> 0]
    /\ dp_startup_delay = [t \in Task |-> FALSE]
    /\ due = [t \in Task |-> FALSE]

-----------------------------------------------------------------------------
(* Calls of the components, from comp_trigger_local and comp_free.         *)

\* scheduler_dp_task_init; when it fails everything is undone.
TaskInit(t) ==
    /\ pc[t] = "none"
    /\ state' = [state EXCEPT ![t] = "INIT"]
    /\ linked' = [linked EXCEPT ![t] = FALSE]
    /\ sem' = [sem EXCEPT ![t] = 0]
    /\ pc' = [pc EXCEPT ![t] = "wait"]
    /\ result' = [result EXCEPT ![t] = "INIT"]
    /\ due' = [due EXCEPT ![t] = FALSE]
    /\ UNCHANGED <<sched, startup>>

\* scheduler_dp_task_shedule: nothing keeps a component from starting again
\* before the thread has noticed that it was stopped.
TaskSchedule(t) ==
    /\ pc[t] # "none"
    /\ state[t] \in {"INIT", "CANCEL", "COMPLETED"}
    /\ tick_src' = (tick_src \/ listed = {})
    /\ listed' = listed \union {t}
    /\ state' = [state EXCEPT ![t] = "QUEUED"]
    /\ linked' = [linked EXCEPT ![t] = TRUE]
    /\ ll_cycles_to_start' = [ll_cycles_to_start EXCEPT ![t] = Period[t] \div LLTimerPeriod]
    /\ dp_startup_delay' = [dp_startup_delay EXCEPT ![t] = TRUE]
    /\ due' = [due EXCEPT ![t] = FALSE]
    /\ UNCHANGED <<sem, thread>>

\* Mutant of Unschedule: the tick source is cancelled with every task.
UnscheduleTick(t) ==
    /\ listed' = listed \ {t}
    /\ tick_src' = FALSE
    /\ state' = [state EXCEPT ![t] = "CANCEL"]

\* scheduler_dp_task_cancel, under the lock
Unschedule(t) ==
    /\ listed' = listed \ {t}
    /\ tick_src' = (tick_src /\ listed \ {t} # {})
    /\ state' = [state EXCEPT ![t] = "CANCEL"]

\* scheduler_dp_task_cancel, when the component stops
TaskCancel(t) ==
    /\ pc[t] # "none" /\ linked[t]
    /\ Unschedule(t)
    /\ UNCHANGED <<linked, sem, thread, startup, due>>

\* scheduler_dp_task_free: cancel and abort the thread.  Nothing refers to the
\* task in between.  list_item_del of a zeroed list item is a fault.
TaskFree(t) ==
    /\ pc[t] # "none"
    /\ linked[t] \/ FreeUnstarted
    /\ IF linked[t]
       THEN Unschedule(t) /\ pc' = [pc EXCEPT ![t] = "none"]
       ELSE pc' = [pc EXCEPT ![t] = "fault"] /\ UNCHANGED <<sched, state>>
    /\ UNCHANGED <<linked, sem, result, startup, due>>

-----------------------------------------------------------------------------
(* scheduler_dp_ll_tick                                                    *)

\* LL cycles till the first deadline of every listed task
Countdown ==
    LET counting == {t \in listed : ll_cycles_to_start[t] > 0}
    IN  /\ ll_cycles_to_start' = [t \in Task |->
              IF t \in counting THEN ll_cycles_to_start[t] - 1 ELSE ll_cycles_to_start[t]]
        /\ dp_startup_delay' = [t \in Task |->
              dp_startup_delay[t] /\ ~(t \in counting /\ ll_cycles_to_start[t] = 1)]

Triggered(ready) == {t \in ready \intersect listed : state[t] = "QUEUED"}

\* Mutant of LLTick: the semaphore is given only after the startup delay.
LLTickSilent(ready) ==
    /\ tick_src
    /\ Countdown
    /\ state' = [t \in Task |-> IF t \in Triggered(ready) THEN "RUNNING" ELSE state[t]]
    /\ sem' = [t \in Task |->
          IF t \in Triggered(ready) /\ ~dp_startup_delay[t] THEN 1 ELSE sem[t]]
    /\ due' = [t \in Task |-> due[t] \/ t \in Triggered(ready)]
    /\ UNCHANGED <<sched, linked, thread>>

\* ready are the tasks whose modules have their data and space.
LLTick(ready) ==
    /\ tick_src
    /\ Countdown
    /\ state' = [t \in Task |-> IF t \in Triggered(ready) THEN "RUNNING" ELSE state[t]]
    /\ sem' = [t \in Task |-> IF t \in Triggered(ready) THEN 1 ELSE sem[t]]
    /\ due' = [t \in Task |-> due[t] \/ t \in Triggered(ready)]
    /\ UNCHANGED <<sched, linked, thread>>

-----------------------------------------------------------------------------
(* dp_thread_fn                                                            *)

SemTake(t) ==
    /\ pc[t] = "wait" /\ sem[t] > 0
    /\ sem' = [sem EXCEPT ![t] = 0]
    /\ pc' = [pc EXCEPT ![t] = "check"]
    /\ UNCHANGED <<sched, state, linked, result, startup, due>>

\* Mutant of Check: whoever gives the semaphore makes the task run.
CheckNot(t) ==
    /\ pc[t] = "check"
    /\ pc' = [pc EXCEPT ![t] = "run"]
    /\ result' = [result EXCEPT ![t] = state[t]]
    /\ UNCHANGED <<sched, state, linked, sem, startup, due>>

\* "to avoid undefined variable warning" the state is taken as the result.
Check(t) ==
    /\ pc[t] = "check"
    /\ pc' = [pc EXCEPT ![t] = IF state[t] = "RUNNING" THEN "run" ELSE "post"]
    /\ result' = [result EXCEPT ![t] = state[t]]
    /\ UNCHANGED <<sched, state, linked, sem, startup, due>>

RunReturn(t, r) ==
    /\ pc[t] = "run"
    /\ pc' = [pc EXCEPT ![t] = "post"]
    /\ result' = [result EXCEPT ![t] = r]
    /\ due' = [due EXCEPT ![t] = FALSE]
    /\ UNCHANGED <<sched, state, linked, sem, startup>>

\* Mutant of PostResult: a task to be rescheduled is not marked for it.
PostResultKeeps(t) ==
    /\ state' = [state EXCEPT ![t] = IF result[t] = "RESCHEDULE" THEN @ ELSE result[t]]
    /\ listed' = IF result[t] \in {"COMPLETED", "CANCEL"} THEN listed \ {t} ELSE listed
    /\ pc' = [pc EXCEPT ![t] =
          IF result[t] \in {"RESCHEDULE", "COMPLETED", "CANCEL"} THEN "wait" ELSE "panic"]

\* What the thread makes of the result when the task is still RUNNING.
PostResult(t) ==
    /\ state' = [state EXCEPT ![t] =
          IF result[t] = "RESCHEDULE" THEN "QUEUED" ELSE result[t]]
    /\ listed' = IF result[t] \in {"COMPLETED", "CANCEL"} THEN listed \ {t} ELSE listed
    /\ pc' = [pc EXCEPT ![t] =
          IF result[t] \in {"RESCHEDULE", "COMPLETED", "CANCEL"} THEN "wait" ELSE "panic"]

\* Mutant of Post: the state is not checked again under the lock.
PostUnchecked(t) ==
    /\ pc[t] = "post"
    /\ PostResult(t)
    /\ UNCHANGED <<tick_src, linked, sem, result, startup, due>>

\* The locked end of the loop; task_complete has no handler in the firmware.
Post(t) ==
    /\ pc[t] = "post"
    /\ IF state[t] = "RUNNING" THEN PostResult(t)
       ELSE pc' = [pc EXCEPT ![t] = "wait"] /\ UNCHANGED <<state, listed>>
    /\ UNCHANGED <<tick_src, linked, sem, result, startup, due>>

Thread(t) ==
    \/ SemTake(t) \/ Check(t) \/ Post(t)
    \/ \E r \in Results : RunReturn(t, r)

Client(t) == TaskInit(t) \/ TaskSchedule(t) \/ TaskCancel(t) \/ TaskFree(t)

Next ==
    /\ ~Halted
    /\ \/ \E ready \in SUBSET Task : LLTick(ready)
       \/ \E t \in Task : Client(t) \/ Thread(t)

Spec == Init /\ [][Next]_vars

\* LL cycles go on while ll_tick_src is scheduled, and a thread that can run is
\* eventually given the core.
FairSpec ==
    /\ Spec
    /\ WF_vars(\E ready \in SUBSET Task : LLTick(ready))
    /\ \A t \in Task : WF_vars(Thread(t))

-----------------------------------------------------------------------------
(* Every variable keeps its type; a semaphore is binary.                    *)
TypeOK ==
    /\ listed \subseteq Task /\ tick_src \in BOOLEAN
    /\ state \in [Task -> States]
    /\ linked \in [Task -> BOOLEAN]
    /\ sem \in [Task -> {0, 1}]
    /\ pc \in [Task -> {"none", "wait", "check", "run", "post", "panic", "fault"}]
    /\ result \in [Task -> States \union {"RESCHEDULE"}]
    /\ ll_cycles_to_start \in [Task -> Nat]
    /\ dp_startup_delay \in [Task -> BOOLEAN]
    /\ due \in [Task -> BOOLEAN]

(* As long as a task waits to be triggered the LL task that produces the    *)
(* ticks is scheduled: cancelling other tasks never takes it away.          *)
TickForTasks == listed # {} => tick_src

(* A triggered task is not forgotten: the tick only triggers QUEUED tasks,  *)
(* so a RUNNING one whose thread slept without the semaphore would never    *)
(* run again.                                                               *)
NoStrandedTask ==
    \A t \in Task : state[t] = "RUNNING" => sem[t] = 1 \/ pc[t] # "wait"

(* Exactly the tasks to be triggered or triggered are on the list the tick  *)
(* goes through, whatever scheduling, cancelling and late ends of .run()    *)
(* came in between.                                                         *)
ListMatchesState ==
    \A t \in Task : t \in listed <=> state[t] \in {"QUEUED", "RUNNING"}

(* .run() is entered only for a trigger of the tick, which looks for data   *)
(* and space, and a trigger is good for one pass: a semaphore that was      *)
(* given before the task was cancelled and scheduled again, or during the   *)
(* pass of another trigger, does not run the module on data it has already  *)
(* consumed.                                                                *)
RunsOnTrigger ==
    [][\A t \in Task : pc[t] = "check" /\ pc'[t] = "run" => due[t]]_vars

(* "illegal state, serious defect, won't happen": dp_thread_fn never finds  *)
(* a state to post that .run() may not return.  The code does not keep      *)
(* this: see the README.                                                    *)
NoPanic == \A t \in Task : pc[t] # "panic"

(* Only what .run() returned makes the thread take its task off the list:   *)
(* a task that was scheduled and whose .run() asks to be rescheduled stays  *)
(* until somebody cancels it ("calling schedule_task will add the task to   *)
(* processing again").  The code does not keep this: see the README.        *)
KeepsSchedule ==
    [][\A t \in Task : Post(t) => listed' = listed]_vars

(* scheduler_dp_task_free "frees task's resources" without a fault.  The    *)
(* code does not keep this when FreeUnstarted: see the README.              *)
FreeSucceeds == \A t \in Task : pc[t] # "fault"

(* A triggered task gets to .run(), or is cancelled before, unless the      *)
(* firmware stops.                                                          *)
TriggeredRuns ==
    \A t \in Task :
        state[t] = "RUNNING" ~> pc[t] = "run" \/ state[t] # "RUNNING" \/ Halted

(* The first deadline comes: the data of a task that stays scheduled is not *)
(* held back for ever (dp_startup_delay: "this DP module did not yet reach  *)
(* its first deadline").                                                    *)
StartupDelayEnds ==
    \A t \in Task : t \in listed /\ dp_startup_delay[t]
                        ~> t \notin listed \/ ~dp_startup_delay[t] \/ Halted
=============================================================================
