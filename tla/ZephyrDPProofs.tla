--------------------------- MODULE ZephyrDPProofs ---------------------------
(***************************************************************************)
(* Proofs about ZephyrDP, for any number of tasks, any periods and clients *)
(* that cancel, restart and free tasks at any time.                        *)
(***************************************************************************)
EXTENDS ZephyrDP, TLAPS

\* A task without a thread is neither to be triggered nor triggered.
NoThreadNoTask ==
    \A t \in Task : pc[t] = "none" => state[t] \notin {"QUEUED", "RUNNING"}

\* The thread of a task that was not scheduled since TaskInit sleeps, so that
\* INIT is never what it has to post.
InitSleeps ==
    \A t \in Task :
        /\ state[t] = "INIT" => sem[t] = 0 /\ pc[t] \notin {"check", "run", "post"}
        /\ pc[t] = "post" => result[t] # "INIT"

\* A RUNNING task that the thread has yet to look at was triggered for this
\* very look.
DueBeforeRun ==
    \A t \in Task : state[t] = "RUNNING" /\ pc[t] \in {"wait", "check"} => due[t]

DPInv ==
    /\ TypeOK /\ NoThreadNoTask /\ InitSleeps /\ DueBeforeRun
    /\ TickForTasks /\ ListMatchesState /\ NoStrandedTask

-----------------------------------------------------------------------------
LEMMA CyclesType ==
    ASSUME NEW t \in Task
    PROVE  Period[t] \div LLTimerPeriod \in Nat
BY PeriodAssumption

\* Init of scheduler_dp_init establishes the invariant.
LEMMA InitInv == Init => DPInv
<1> SUFFICES ASSUME Init PROVE DPInv
  BY Zenon
<1>1. TypeOK
  BY Zenon DEF Init, TypeOK, States
<1>2. NoThreadNoTask /\ TickForTasks
  BY Zenon DEF Init, NoThreadNoTask, TickForTasks
<1>3. ListMatchesState /\ NoStrandedTask
  BY Zenon DEF Init, ListMatchesState, NoStrandedTask
<1>4. InitSleeps /\ DueBeforeRun
  BY Zenon DEF Init, InitSleeps, DueBeforeRun
<1> QED
  BY <1>1, <1>2, <1>3, <1>4, Zenon DEF DPInv

\* Every step keeps it.
LEMMA StepInv == DPInv /\ [Next]_vars => DPInv'
<1> SUFFICES ASSUME DPInv, [Next]_vars PROVE DPInv'
  BY Zenon
<1> USE DEF DPInv, TypeOK, NoThreadNoTask, InitSleeps, DueBeforeRun, TickForTasks,
            ListMatchesState, NoStrandedTask, States, sched, thread, startup
<1>1. ASSUME NEW t \in Task, TaskInit(t) PROVE DPInv'
  BY <1>1, Zenon DEF TaskInit
<1>2. ASSUME NEW t \in Task, TaskSchedule(t) PROVE DPInv'
  BY <1>2, CyclesType, Zenon DEF TaskSchedule
<1>3. ASSUME NEW t \in Task, TaskCancel(t) PROVE DPInv'
  BY <1>3, Zenon DEF TaskCancel, Unschedule
<1>4. ASSUME NEW t \in Task, TaskFree(t) PROVE DPInv'
  <2>1. CASE linked[t]
    BY <1>4, <2>1 DEF TaskFree, Unschedule
  <2>2. CASE ~linked[t]
    BY <1>4, <2>2 DEF TaskFree
  <2> QED
    BY <2>1, <2>2, Zenon
<1>5. ASSUME NEW ready \in SUBSET Task, LLTick(ready) PROVE DPInv'
  <2>1. /\ ll_cycles_to_start' \in [Task -> Nat]
        /\ dp_startup_delay' \in [Task -> BOOLEAN]
    BY <1>5 DEF LLTick, Countdown
  <2>2. state' \in [Task -> States] /\ sem' \in [Task -> {0, 1}]
    BY <1>5, Zenon DEF LLTick
  <2>3. due' \in [Task -> BOOLEAN]
    BY <1>5, Zenon DEF LLTick
  <2>4. /\ UNCHANGED <<sched, linked, thread>>
        /\ \A t \in Triggered(ready) :
              t \in listed /\ state[t] = "QUEUED" /\ state'[t] = "RUNNING" /\ sem'[t] = 1 /\ due'[t]
        /\ \A t \in Task \ Triggered(ready) :
              state'[t] = state[t] /\ sem'[t] = sem[t] /\ due'[t] = due[t]
    BY <1>5, Zenon DEF LLTick, Triggered
  <2>5. TypeOK'
    BY <2>1, <2>2, <2>3, <2>4, Zenon
  <2>6. NoThreadNoTask' /\ InitSleeps' /\ TickForTasks'
    BY <2>4, Zenon
  <2>7. ListMatchesState' /\ NoStrandedTask' /\ DueBeforeRun'
    BY <2>4, Zenon
  <2> QED
    BY <2>5, <2>6, <2>7, Zenon
<1>6. ASSUME NEW t \in Task, SemTake(t) PROVE DPInv'
  <2>1. sem[t] = 1
    BY <1>6 DEF SemTake
  <2>2. state[t] # "INIT"
    BY <2>1
  <2> QED
    BY <1>6, <2>2, Zenon DEF SemTake
<1>7. ASSUME NEW t \in Task, Check(t) PROVE DPInv'
  BY <1>7, Zenon DEF Check
<1>8. ASSUME NEW t \in Task, NEW r \in Results, RunReturn(t, r) PROVE DPInv'
  BY <1>8, ClientAssumption, Zenon DEF RunReturn
<1>9. ASSUME NEW t \in Task, Post(t) PROVE DPInv'
  BY <1>9 DEF Post, PostResult
<1>10. CASE UNCHANGED vars
  BY <1>10, Zenon DEF vars
<1> QED
  BY <1>1, <1>2, <1>3, <1>4, <1>5, <1>6, <1>7, <1>8, <1>9, <1>10, Zenon DEF Next, Client, Thread

\* The inductive invariant holds in every reachable state.
THEOREM Invariance == Spec => []DPInv
BY InitInv, StepInv, PTL DEF Spec

\* TypeOK of scheduler and task data, whatever the clients do.
THEOREM TypeCorrect == Spec => []TypeOK
<1>1. DPInv => TypeOK
  BY Zenon DEF DPInv
<1> QED
  BY Invariance, <1>1, PTL

\* The tick source is scheduled as long as a task is listed
\* (scheduler_dp_task_cancel takes it away with the last one).
THEOREM TickStays == Spec => []TickForTasks
<1>1. DPInv => TickForTasks
  BY Zenon DEF DPInv
<1> QED
  BY Invariance, <1>1, PTL

\* The list and the states agree, also after a task was cancelled and
\* scheduled again under a thread that is in its .run().
THEOREM ListsAgree == Spec => []ListMatchesState
<1>1. DPInv => ListMatchesState
  BY Zenon DEF DPInv
<1> QED
  BY Invariance, <1>1, PTL

\* No task is left RUNNING with its thread asleep and its semaphore taken.
THEOREM NotStranded == Spec => []NoStrandedTask
<1>1. DPInv => NoStrandedTask
  BY Zenon DEF DPInv
<1> QED
  BY Invariance, <1>1, PTL

\* dp_thread_fn enters .run() only for a trigger that came after the task was
\* scheduled and after the last .run() returned.
THEOREM RunsWhenTriggered == Spec => RunsOnTrigger
<1>1. DPInv /\ [Next]_vars
      => [\A t \in Task : pc[t] = "check" /\ pc'[t] = "run" => due[t]]_vars
  <2> SUFFICES ASSUME DPInv, Next, NEW t \in Task, pc[t] = "check", pc'[t] = "run"
               PROVE  due[t]
    BY Zenon
  <2>1. state[t] = "RUNNING"
    <3>1. PICK u \in Task : Check(u) \/ TaskInit(u) \/ TaskFree(u) \/ SemTake(u) \/ Post(u)
                            \/ \E r \in Results : RunReturn(u, r)
      BY Zenon DEF Next, Client, Thread, TaskSchedule, TaskCancel, LLTick, thread
    <3> QED
      BY <3>1
      DEF DPInv, TypeOK, Check, TaskInit, TaskFree, SemTake, Post, PostResult, RunReturn
  <2> QED
    BY <2>1, Zenon DEF DPInv, DueBeforeRun
<1> QED
  BY Invariance, <1>1, PTL DEF Spec, RunsOnTrigger
=============================================================================
