--------------------------- MODULE PipelineProofs ---------------------------
(***************************************************************************)
(* Proofs about Pipeline, for every set of pipelines, chain length,        *)
(* topology, delay and choice of faults: its type invariant, and that a    *)
(* pipeline between the two stages of its start keeps a task and a         *)
(* trigger.  When all pipelines are on one core and the wait has time for  *)
(* their delays (Timely): that one trigger is executed at a time, and what *)
(* a command that is answered with success has done to the components of   *)
(* its pipelines.                                                          *)
(***************************************************************************)
EXTENDS Pipeline, TLAPS

\* Only a task on the list of the scheduler is run.
TodoHasTask == \A p \in todo : task[p]

\* The handler holds a trigger when it is about to leave it with a pipeline.
Chosen == request.cmd \in Command /\ (pc = "act" => act \in Trigger)

\* What DelayedStartPending needs to be inductive: no xrun is recorded during
\* the delay, neither by the pipeline itself nor by one it feeds, so that the
\* trigger is neither answered early nor executed by the handler.
DelayedStart(p) ==
    delay[p] > 0 => status[p] = "PRE_ACTIVE" /\ ~xrun[p] /\ trig[p] # "none" /\ task[p]

PplInv ==
    /\ TypeOK
    /\ delay \in [Ppl -> Nat]
    /\ TodoHasTask
    /\ Chosen
    /\ \A p \in Ppl : DelayedStart(p)

-----------------------------------------------------------------------------
(* The operators of the module keep their types.                           *)

LEMMA RequestedType ==
    ASSUME NEW cmd \in Trigger \union {"PREPARE"}
    PROVE  Requested[cmd] \in State
BY DEF Requested, Trigger, State

LEMMA WalkType ==
    ASSUME NEW p, NEW cmd \in Trigger \union {"PREPARE"},
           NEW cs \in [1 .. N -> State], NEW f
    PROVE  Walk(p, cmd, cs, f).comp \in [1 .. N -> State]
<1>1. Requested[cmd] \in State /\ "ACTIVE" \in State
  BY RequestedType, Zenon DEF State
<1> QED
  BY <1>1, Zenon DEF Walk

LEMMA ResetChainType ==
    ASSUME NEW cs \in [1 .. N -> State], NEW f
    PROVE  ResetChain(cs, f) \in [1 .. N -> State]
BY Zenon DEF ResetChain, State

LEMMA ChoiceType ==
    ASSUME NEW cmd \in Command, NEW s \in State
    PROVE  Choice(cmd, s) \in Trigger \union {"none", "refuse"}
BY Zenon DEF Choice, Command, State, Trigger

LEMMA FinalType ==
    ASSUME NEW cmd
    PROVE  Final(cmd) \in Trigger
BY Zenon DEF Final, Trigger

LEMMA FinalRequests ==
    ASSUME NEW cmd
    PROVE  Requested[Final(cmd)] = "ACTIVE"
<1>1. CASE Final(cmd) = "START"
  BY <1>1 DEF Requested
<1>2. CASE Final(cmd) = "RELEASE"
  BY <1>2 DEF Requested
<1> QED BY <1>1, <1>2, Zenon DEF Final

-----------------------------------------------------------------------------
LEMMA InitInv == Init => PplInv
<1> SUFFICES ASSUME Init PROVE PplInv
  BY Zenon
<1> USE DEF Init
<1>1. status \in [Ppl -> State] /\ comp \in [Ppl -> [1 .. N -> State]]
  BY Zenon DEF State
<1>2. task \in [Ppl -> BOOLEAN] /\ xrun \in [Ppl -> BOOLEAN] /\ delayed_error \in BOOLEAN
  BY Zenon
<1>3. delay \in [Ppl -> Nat] /\ \A p \in Ppl : delay[p] \in 0 .. Delay[p]
  BY DelayAssumption
<1>4. waited \in 0 .. WaitTicks
  BY DelayAssumption
<1>5. TypeOK
  BY <1>1, <1>2, <1>3, <1>4 DEF TypeOK
<1>6. TodoHasTask /\ Chosen
  BY Zenon DEF TodoHasTask, Chosen, Command
<1>7. \A p \in Ppl : DelayedStart(p)
  BY DEF DelayedStart
<1> QED
  BY <1>3, <1>5, <1>6, <1>7, Zenon DEF PplInv

\* A step of the handler that leaves the pipelines and todo alone.
LEMMA HandlerOnly ==
    ASSUME PplInv, UNCHANGED <<ppls, todo>>,
           delayed_reply' \in Int, delayed_error' \in BOOLEAN,
           waited' \in 0 .. WaitTicks, Chosen'
    PROVE  PplInv'
BY Zenon DEF PplInv, TypeOK, TodoHasTask, DelayedStart, ppls

\* A step on one pipeline p keeps the invariant if it keeps the types and
\* what the invariant says of p.
LEMMA OnePipeline ==
    ASSUME PplInv, NEW p \in Ppl,
           TypeOK', delay' \in [Ppl -> Nat], Chosen',
           \A q \in Ppl \ {p} : /\ status'[q] = status[q] /\ xrun'[q] = xrun[q]
                               /\ trig'[q] = trig[q] /\ delay'[q] = delay[q]
                               /\ task'[q] = task[q],
           todo' \subseteq todo, p \in todo' => task'[p],
           DelayedStart(p)'
    PROVE  PplInv'
<1>1. TodoHasTask'
  BY Zenon DEF PplInv, TypeOK, TodoHasTask
<1>2. ASSUME NEW q \in Ppl PROVE DelayedStart(q)'
  BY Zenon DEF PplInv, DelayedStart
<1> QED
  BY <1>1, <1>2, Zenon DEF PplInv

LEMMA MsgReplyType ==
    ASSUME TypeOK, NEW e \in BOOLEAN, MsgReply(e)
    PROVE  delayed_reply' \in Int /\ delayed_error' \in BOOLEAN
BY DEF TypeOK, MsgReply, compound

\* The task's steps leave the handler's variables alone.
LEMMA ChosenStays ==
    ASSUME PplInv, UNCHANGED handler
    PROVE  Chosen' /\ waited' \in 0 .. WaitTicks
BY Zenon DEF PplInv, TypeOK, Chosen, handler

-----------------------------------------------------------------------------
(* The pipeline task.                                                      *)

\* What the invariant asks of the scheduler's lists after a step of the task.
ListsKept(p) ==
    /\ task' \in [Ppl -> BOOLEAN] /\ \A q \in Ppl \ {p} : task'[q] = task[q]
    /\ todo' \subseteq todo /\ (p \in todo' => task'[p])

LEMMA CompletedLists ==
    ASSUME PplInv, NEW p \in Ppl, Completed(p)
    PROVE  ListsKept(p)
BY Zenon DEF Completed, ListsKept, PplInv, TypeOK

LEMMA RescheduleLists ==
    ASSUME PplInv, NEW p \in Ppl, UNCHANGED task, todo' \subseteq todo
    PROVE  ListsKept(p)
BY Zenon DEF ListsKept, PplInv, TypeOK, TodoHasTask

\* A run of the task of p, with p not between the stages of a start.
LEMMA TaskOver ==
    ASSUME PplInv, NEW p \in Ppl, delay[p] = 0 \/ xrun[p],
           NEW s \in State, NEW cs \in [1 .. N -> State],
           status' = [status EXCEPT ![p] = s], comp' = [comp EXCEPT ![p] = cs],
           trig' = [trig EXCEPT ![p] = "none"], UNCHANGED <<delay, xrun, handler>>,
           ListsKept(p),
           delayed_reply' \in Int, delayed_error' \in BOOLEAN
    PROVE  PplInv'
<1>1. delay[p] = 0
  BY DEF PplInv, TypeOK, DelayedStart
<1>2. Chosen' /\ waited' \in 0 .. WaitTicks
  BY ChosenStays, Zenon
<1>3. TypeOK'
  BY <1>2, Zenon DEF PplInv, TypeOK, ListsKept
<1>4. DelayedStart(p)'
  BY <1>1 DEF DelayedStart
<1>5. todo' \subseteq todo /\ (p \in todo' => task'[p])
  BY Zenon DEF ListsKept
<1>6. \A q \in Ppl \ {p} : /\ status'[q] = status[q] /\ xrun'[q] = xrun[q]
                            /\ trig'[q] = trig[q] /\ delay'[q] = delay[q]
                            /\ task'[q] = task[q]
  BY Zenon DEF PplInv, TypeOK, ListsKept
<1> QED
  BY <1>2, <1>3, <1>4, <1>5, <1>6, OnePipeline, Zenon DEF PplInv

LEMMA TaskXrunStep ==
    ASSUME PplInv, NEW p \in Ppl, TaskXrun(p)
    PROVE  PplInv'
<1>1. PICK f \in Failing("RESET") : Reset(p, f)
  BY Zenon DEF TaskXrun
<1>2. delayed_reply' \in Int /\ delayed_error' \in BOOLEAN
  BY MsgReplyType, Zenon DEF TaskXrun, PplInv, TypeOK, compound
<1> DEFINE s == IF f = 0 THEN "READY" ELSE status[p]
           cs == ResetChain(comp[p], f)
<1>3. s \in State /\ cs \in [1 .. N -> State]
  BY ResetChainType, Zenon DEF PplInv, TypeOK, State
<1>4. status' = [status EXCEPT ![p] = s] /\ comp' = [comp EXCEPT ![p] = cs]
  BY <1>1, Zenon DEF Reset
<1> HIDE DEF s, cs
<1> QED
  BY <1>2, <1>3, <1>4, CompletedLists, TaskOver, Zenon DEF TaskXrun

LEMMA TaskDelayStep ==
    ASSUME PplInv, NEW p \in Ppl, TaskDelay(p)
    PROVE  PplInv'
<1>1. Chosen' /\ waited' \in 0 .. WaitTicks
  BY ChosenStays, Zenon DEF TaskDelay
<1>2. delay' \in [Ppl -> Nat] /\ \A q \in Ppl : delay'[q] \in 0 .. Delay[q]
  <2>1. delay[p] \in Nat /\ delay[p] > 0 /\ delay' = [delay EXCEPT ![p] = delay[p] - 1]
    BY Zenon DEF TaskDelay, PplInv
  <2>2. ASSUME NEW q \in Ppl PROVE delay[q] \in 0 .. Delay[q] /\ Delay[q] \in Nat
    BY DelayAssumption, Zenon DEF PplInv, TypeOK
  <2>3. ASSUME NEW q \in Ppl PROVE delay'[q] \in 0 .. Delay[q]
    BY <2>1, <2>2 DEF PplInv
  <2>4. delay' \in [Ppl -> Nat]
    BY <2>1 DEF PplInv
  <2> QED
    BY <2>3, <2>4, Zenon
<1>3. TypeOK'
  BY <1>1, <1>2, Zenon DEF TaskDelay, Reschedule, compound, PplInv, TypeOK
<1>4. DelayedStart(p)'
  <2>1. DelayedStart(p) /\ delay[p] > 0
    BY Zenon DEF TaskDelay, PplInv
  <2>2. status' = status /\ xrun' = xrun /\ trig' = trig /\ task' = task
    BY Zenon DEF TaskDelay, Reschedule
  <2> QED
    BY <2>1, <2>2, Zenon DEF DelayedStart
<1>5. todo' \subseteq todo /\ p \notin todo'
  BY Zenon DEF TaskDelay, Reschedule
<1>6. \A q \in Ppl \ {p} : /\ status'[q] = status[q] /\ xrun'[q] = xrun[q]
                            /\ trig'[q] = trig[q] /\ delay'[q] = delay[q]
                            /\ task'[q] = task[q]
  BY Zenon DEF TaskDelay, Reschedule, PplInv
<1> QED
  BY <1>1, <1>2, <1>3, <1>4, <1>5, <1>6, OnePipeline, Zenon

\* The step that sets the delay: no xrun is recorded, the trigger is replaced
\* by its second stage and the task stays on the list.
LEMMA SecondStageStep ==
    ASSUME PplInv, NEW p \in Ppl, Executes(p), SecondStage(p),
           NEW cs \in [1 .. N -> State], comp' = [comp EXCEPT ![p] = cs],
           UNCHANGED <<xrun, handler>>
    PROVE  PplInv'
<1>1. Chosen' /\ waited' \in 0 .. WaitTicks
  BY ChosenStays, Zenon
<1>2. delay' \in [Ppl -> Nat] /\ \A q \in Ppl : delay'[q] \in 0 .. Delay[q]
  <2>1. delay' = [delay EXCEPT ![p] = Delay[p]]
    BY Zenon DEF SecondStage
  <2>2. ASSUME NEW q \in Ppl PROVE delay[q] \in 0 .. Delay[q] /\ Delay[q] \in Nat
    BY DelayAssumption, Zenon DEF PplInv, TypeOK
  <2>3. ASSUME NEW q \in Ppl PROVE delay'[q] \in 0 .. Delay[q]
    BY <2>1, <2>2 DEF PplInv
  <2>4. delay' \in [Ppl -> Nat]
    BY <2>1, <2>2, Zenon DEF PplInv
  <2> QED
    BY <2>3, <2>4, Zenon
<1>3. /\ trig'[p] \in Trigger /\ trig'[p] # "none"
      /\ trig' \in [Ppl -> Trigger \union {"none"}]
  BY FinalType, Zenon DEF SecondStage, PplInv, TypeOK, Trigger
<1>4. TypeOK'
  BY <1>1, <1>2, <1>3, Zenon DEF SecondStage, Reschedule, compound, PplInv, TypeOK, State
<1>5. status'[p] = "PRE_ACTIVE" /\ ~xrun'[p] /\ task'[p]
  BY Zenon DEF Executes, SecondStage, Reschedule, PplInv, TypeOK, TodoHasTask
<1>6. DelayedStart(p)'
  BY <1>3, <1>5, Zenon DEF DelayedStart
<1>7. todo' \subseteq todo /\ p \notin todo'
  BY Zenon DEF SecondStage, Reschedule
<1>8. \A q \in Ppl \ {p} : /\ status'[q] = status[q] /\ xrun'[q] = xrun[q]
                            /\ trig'[q] = trig[q] /\ delay'[q] = delay[q]
                            /\ task'[q] = task[q]
  BY Zenon DEF SecondStage, Reschedule, PplInv, TypeOK
<1> QED
  BY <1>1, <1>2, <1>4, <1>6, <1>7, <1>8, OnePipeline, Zenon

LEMMA TaskStartStep ==
    ASSUME PplInv, NEW p \in Ppl, TaskStart(p)
    PROVE  PplInv'
<1> DEFINE pre == Final(trig[p]) # trig[p]
           w(f) == Walk(p, trig[p], comp[p], f)
           v(f, g) == IF pre /\ w(f).result = "ok" /\ Delay[p] = 0
                      THEN Walk(p, Final(trig[p]), w(f).comp, g) ELSE w(f)
<1>1. PICK f \in Failing(trig[p]), g \in Failing(Final(trig[p])) :
        /\ comp' = [comp EXCEPT ![p] = v(f, g).comp]
        /\ \/ /\ trig' = [trig EXCEPT ![p] = "none"]
              /\ MsgReply(TRUE) /\ Completed(p)
              /\ UNCHANGED <<status, delay>>
           \/ SecondStage(p)
           \/ /\ status' = [status EXCEPT ![p] = "ACTIVE"]
              /\ trig' = [trig EXCEPT ![p] = "none"]
              /\ MsgReply(FALSE)
              /\ UNCHANGED <<delay, task, todo>>
  BY Zenon DEF TaskStart
<1> DEFINE cs == v(f, g).comp
<1>2. trig[p] \in Trigger /\ Executes(p) /\ delay[p] = 0 /\ UNCHANGED <<xrun, handler>>
  BY Zenon DEF TaskStart, Executes, PplInv, TypeOK
<1>3. cs \in [1 .. N -> State]
  <2>1. w(f).comp \in [1 .. N -> State]
    BY <1>2, WalkType, Zenon DEF PplInv, TypeOK
  <2> HIDE DEF w
  <2>2. Walk(p, Final(trig[p]), w(f).comp, g).comp \in [1 .. N -> State]
    BY <2>1, FinalType, WalkType, SMTT(30)
  <2> QED
    BY <2>1, <2>2, Zenon
<1>4. comp' = [comp EXCEPT ![p] = cs]
  BY <1>1, Zenon
<1> HIDE DEF cs
<1>5. CASE /\ trig' = [trig EXCEPT ![p] = "none"] /\ MsgReply(TRUE) /\ Completed(p)
           /\ UNCHANGED <<status, delay>>
  <2>1. status' = [status EXCEPT ![p] = status[p]] /\ status[p] \in State
    BY <1>5, Zenon DEF PplInv, TypeOK
  <2>2. delayed_reply' \in Int /\ delayed_error' \in BOOLEAN
    BY <1>5, MsgReplyType, Zenon DEF PplInv
  <2> QED
    BY <1>2, <1>3, <1>4, <1>5, <2>1, <2>2, CompletedLists, TaskOver, Zenon
<1>6. CASE SecondStage(p)
  BY <1>2, <1>3, <1>4, <1>6, SecondStageStep, Zenon
<1>7. CASE /\ status' = [status EXCEPT ![p] = "ACTIVE"]
           /\ trig' = [trig EXCEPT ![p] = "none"] /\ MsgReply(FALSE)
           /\ UNCHANGED <<delay, task, todo>>
  <2>1. delayed_reply' \in Int /\ delayed_error' \in BOOLEAN
    BY <1>7, MsgReplyType, Zenon DEF PplInv
  <2> DEFINE s == "ACTIVE"
  <2>2. s \in State
    BY Zenon DEF State
  <2>3. /\ status' = [status EXCEPT ![p] = s] /\ trig' = [trig EXCEPT ![p] = "none"]
        /\ UNCHANGED <<delay, xrun, handler>>
    BY <1>2, <1>7, Zenon
  <2>4. ListsKept(p)
    BY <1>7, RescheduleLists, Zenon
  <2> HIDE DEF s
  <2> QED
    BY <1>2, <1>3, <1>4, <2>1, <2>2, <2>3, <2>4, TaskOver, Zenon
<1> QED
  BY <1>1, <1>5, <1>6, <1>7, Zenon

\* A pause or stop that every component has obeyed, or that one refused.
LEMMA TaskStopStep ==
    ASSUME PplInv, NEW p \in Ppl,
           TaskPause(p) \/ TaskStop(p) \/ TaskStopFails(p) \/ TaskPauseAborted(p)
    PROVE  PplInv'
<1> USE DEF Executes
<1>1. comp[p] \in [1 .. N -> State] /\ status[p] \in State /\ trig[p] \in Trigger \union {"none"}
  BY Zenon DEF PplInv, TypeOK
<1>2. CASE TaskPause(p)
  <2> DEFINE cs == Walk(p, "PAUSE", comp[p], 0).comp
             s == "PAUSED"
  <2>1. s \in State /\ cs \in [1 .. N -> State]
    BY <1>1, WalkType, Zenon DEF Trigger, State
  <2>2. status' = [status EXCEPT ![p] = s] /\ comp' = [comp EXCEPT ![p] = cs]
    BY <1>2, Zenon DEF TaskPause
  <2>3. delayed_reply' \in Int /\ delayed_error' \in BOOLEAN
    BY <1>2, MsgReplyType, Zenon DEF TaskPause, PplInv
  <2> HIDE DEF s, cs
  <2> QED
    BY <1>2, <2>1, <2>2, <2>3, CompletedLists, TaskOver, Zenon DEF TaskPause
<1>3. CASE TaskStop(p)
  <2> DEFINE w == Walk(p, "STOP", comp[p], 0)
  <2>1. PICK f \in Failing("RESET") :
          /\ comp' = [comp EXCEPT ![p] = ResetChain(w.comp, f)]
          /\ status' = [status EXCEPT ![p] = IF f = 0 THEN "READY" ELSE "PAUSED"]
          /\ MsgReply(f # 0)
    BY <1>3, Zenon DEF TaskStop
  <2> DEFINE cs == ResetChain(w.comp, f)
             s == IF f = 0 THEN "READY" ELSE "PAUSED"
  <2>2. w.comp \in [1 .. N -> State]
    BY <1>1, WalkType, Zenon DEF Trigger
  <2>3. s \in State /\ cs \in [1 .. N -> State]
    BY <2>2, ResetChainType, Zenon DEF State
  <2>4. status' = [status EXCEPT ![p] = s] /\ comp' = [comp EXCEPT ![p] = cs]
    BY <2>1, Zenon
  <2>5. delayed_reply' \in Int /\ delayed_error' \in BOOLEAN
    BY <2>1, MsgReplyType, Zenon DEF PplInv
  <2> HIDE DEF s, cs
  <2> QED
    BY <1>3, <2>3, <2>4, <2>5, CompletedLists, TaskOver, Zenon DEF TaskStop
<1>4. CASE TaskStopFails(p)
  <2> DEFINE w(f) == Walk(p, trig[p], comp[p], f)
  <2>1. PICK f \in Failing(trig[p]) :
          /\ comp' = [comp EXCEPT ![p] = w(f).comp]
          /\ status' = [status EXCEPT ![p] = IF w(f).begun THEN "PAUSED" ELSE @]
    BY <1>4, Zenon DEF TaskStopFails
  <2> DEFINE cs == w(f).comp
             s == IF w(f).begun THEN "PAUSED" ELSE status[p]
  <2>2. s \in State
    BY <1>1, Zenon DEF State
  <2>3. cs \in [1 .. N -> State]
    BY <1>1, <1>4, WalkType, Zenon DEF TaskStopFails
  <2>4. status' = [status EXCEPT ![p] = s] /\ comp' = [comp EXCEPT ![p] = cs]
    BY <2>1, Zenon
  <2>5. delayed_reply' \in Int /\ delayed_error' \in BOOLEAN
    BY <1>4, MsgReplyType, Zenon DEF TaskStopFails, PplInv
  <2> HIDE DEF s, cs
  <2> QED
    BY <1>4, <2>2, <2>3, <2>4, <2>5, CompletedLists, TaskOver, Zenon DEF TaskStopFails
<1>5. CASE TaskPauseAborted(p)
  <2> DEFINE cs == Walk(p, "PAUSE", comp[p], 0).comp
             s == "ACTIVE"
  <2>1. s \in State /\ cs \in [1 .. N -> State]
    BY <1>1, WalkType, Zenon DEF Trigger, State
  <2>2. status' = [status EXCEPT ![p] = s] /\ comp' = [comp EXCEPT ![p] = cs]
    BY <1>5, Zenon DEF TaskPauseAborted
  <2>3. delayed_reply' \in Int /\ delayed_error' \in BOOLEAN
    BY <1>5, MsgReplyType, Zenon DEF TaskPauseAborted, PplInv
  <2>4. ListsKept(p)
    BY <1>5, RescheduleLists, Zenon DEF TaskPauseAborted
  <2> HIDE DEF s, cs
  <2> QED
    BY <1>5, <2>1, <2>2, <2>3, <2>4, TaskOver, Zenon DEF TaskPauseAborted
<1> QED
  BY <1>2, <1>3, <1>4, <1>5, Zenon

\* A copy, which may fail and reset the pipeline.
LEMMA TaskCopyStep ==
    ASSUME PplInv, NEW p \in Ppl, TaskCopy(p) \/ TaskCopyFails(p)
    PROVE  PplInv'
<1>1. /\ comp[p] \in [1 .. N -> State] /\ status[p] \in State
      /\ delayed_reply' \in Int /\ delayed_error' \in BOOLEAN
  BY Zenon DEF TaskCopy, TaskCopyFails, compound, PplInv, TypeOK
<1>2. trig' = [trig EXCEPT ![p] = "none"] /\ delay[p] = 0 /\ UNCHANGED <<delay, xrun, handler>>
  BY Zenon DEF TaskCopy, TaskCopyFails, Copies, PplInv, TypeOK
<1>3. CASE TaskCopy(p)
  <2>1. status' = [status EXCEPT ![p] = status[p]] /\ comp' = [comp EXCEPT ![p] = comp[p]]
    BY <1>3, Zenon DEF TaskCopy, PplInv, TypeOK
  <2>2. ListsKept(p)
    BY <1>3, CompletedLists, RescheduleLists, Zenon DEF TaskCopy, Reschedule
  <2> QED
    BY <1>1, <1>2, <2>1, <2>2, TaskOver, Zenon
<1>4. CASE TaskCopyFails(p)
  <2>1. PICK f \in Failing("RESET") : Reset(p, f)
    BY <1>4, Zenon DEF TaskCopyFails
  <2> DEFINE s == IF f = 0 THEN "READY" ELSE status[p]
             cs == ResetChain(comp[p], f)
  <2>2. s \in State /\ cs \in [1 .. N -> State]
    BY <1>1, ResetChainType, Zenon DEF State
  <2>3. status' = [status EXCEPT ![p] = s] /\ comp' = [comp EXCEPT ![p] = cs]
    BY <2>1, Zenon DEF Reset
  <2>4. ListsKept(p)
    BY <1>4, CompletedLists, Zenon DEF TaskCopyFails
  <2> HIDE DEF s, cs
  <2> QED
    BY <1>1, <1>2, <2>2, <2>3, <2>4, TaskOver, Zenon
<1> QED
  BY <1>3, <1>4, Zenon

\* An xrun is recorded for a pipeline that copies, or for an ACTIVE or PREPARE
\* one that feeds it, so never for one between the stages of its start.
LEMMA TaskCopyXrunStep ==
    ASSUME PplInv, NEW p \in Ppl, TaskCopyXrun(p)
    PROVE  PplInv'
<1>1. PICK f \in Failing("RESET") : Reset(p, f)
  BY Zenon DEF TaskCopyXrun
<1>2. Chosen' /\ waited' \in 0 .. WaitTicks
  BY ChosenStays, Zenon DEF TaskCopyXrun
<1>3. ListsKept(p)
  BY CompletedLists, Zenon DEF TaskCopyXrun
<1>4. status' \in [Ppl -> State]
  BY <1>1, Zenon DEF Reset, PplInv, TypeOK, State
<1>5. comp' \in [Ppl -> [1 .. N -> State]]
  BY <1>1, ResetChainType, Zenon DEF Reset, PplInv, TypeOK
<1>6. xrun' \in [Ppl -> BOOLEAN]
  BY Zenon DEF TaskCopyXrun
<1>7. TypeOK'
  BY <1>2, <1>3, <1>4, <1>5, <1>6, Zenon DEF TaskCopyXrun, ListsKept, compound, PplInv, TypeOK
<1>8. TodoHasTask'
  BY <1>3, Zenon DEF ListsKept, TodoHasTask, PplInv, TypeOK
<1>9. ASSUME NEW q \in Ppl, delay[q] > 0
      PROVE  q # p /\ ~xrun'[q]
  <2>1. status[q] = "PRE_ACTIVE" /\ ~xrun[q]
    BY <1>9, Zenon DEF PplInv, DelayedStart
  <2>2. q # p
    BY <1>9 DEF TaskCopyXrun, Copies
  <2>3. q # XrunRoot(p)
    BY <2>1, <2>2, Zenon DEF XrunRoot
  <2> QED
    BY <2>1, <2>2, <2>3, Zenon DEF TaskCopyXrun
<1>10. ASSUME NEW q \in Ppl PROVE DelayedStart(q)'
  <2>1. trig' = trig /\ delay' = delay
    BY Zenon DEF TaskCopyXrun
  <2>2. q # p => status'[q] = status[q] /\ task'[q] = task[q]
    BY <1>1, <1>3, Zenon DEF Reset, ListsKept, PplInv, TypeOK
  <2>3. DelayedStart(q)
    BY Zenon DEF PplInv
  <2> QED
    BY <1>9, <2>1, <2>2, <2>3, Zenon DEF DelayedStart
<1> QED
  BY <1>2, <1>7, <1>8, <1>10, Zenon DEF TaskCopyXrun, PplInv

\* An LL cycle runs the tasks that are on the list when it begins.
LEMMA TickStep ==
    ASSUME PplInv, NEW c, Tick(c)
    PROVE  PplInv'
<1>1. waited' \in 0 .. WaitTicks
  BY DelayAssumption DEF Tick, PplInv, TypeOK
<1>2. TodoHasTask'
  BY Zenon DEF Tick, ppls, PplInv, TypeOK, TodoHasTask
<1>3. TypeOK' /\ (delay \in [Ppl -> Nat])' /\ Chosen'
  BY <1>1, Zenon DEF Tick, ppls, compound, PplInv, TypeOK, Chosen
<1>4. \A q \in Ppl : DelayedStart(q)'
  BY Zenon DEF Tick, ppls, PplInv, DelayedStart
<1> QED
  BY <1>2, <1>3, <1>4, Zenon DEF PplInv

-----------------------------------------------------------------------------
(* The handler.                                                            *)

\* A step that changes the status only of a pipeline outside the delay.
LEMMA StatusStep ==
    ASSUME PplInv,
           status' \in [Ppl -> State], comp' \in [Ppl -> [1 .. N -> State]],
           \A q \in Ppl : delay[q] > 0 => status'[q] = status[q],
           UNCHANGED <<task, trig, delay, xrun, todo>>,
           delayed_reply' \in Int, delayed_error' \in BOOLEAN,
           waited' \in 0 .. WaitTicks, Chosen'
    PROVE  PplInv'
<1>1. TypeOK' /\ (delay \in [Ppl -> Nat])' /\ TodoHasTask'
  BY Zenon DEF PplInv, TypeOK, TodoHasTask
<1>2. \A q \in Ppl : DelayedStart(q)'
  BY Zenon DEF PplInv, DelayedStart
<1> QED
  BY <1>1, <1>2, Zenon DEF PplInv

\* The end of a pass of the prepare phase.
LEMMA PreparedType ==
    ASSUME PplInv, NEW res, Prepared(res)
    PROVE  /\ UNCHANGED todo /\ Chosen' /\ waited' \in 0 .. WaitTicks
           /\ delayed_reply' \in Int /\ delayed_error' \in BOOLEAN
<1>1. 0 \in 0 .. WaitTicks
  BY DelayAssumption
<1> QED
  BY <1>1, Zenon DEF Prepared, Advance, compound, PplInv, TypeOK, Chosen

LEMMA PrepareStep ==
    ASSUME PplInv, Prepare
    PROVE  PplInv'
<1>1. CASE PrepareNot
  <2>1. PICK res : Prepared(res)
    BY <1>1, Zenon DEF PrepareNot
  <2> QED
    BY <1>1, <2>1, PreparedType, HandlerOnly, Zenon DEF PrepareNot
<1>2. CASE PrepareComplete
  <2>1. status' \in [Ppl -> State] /\ comp' \in [Ppl -> [1 .. N -> State]]
    BY <1>2, Zenon DEF PrepareComplete, PplInv, TypeOK, State
  <2>2. \A q \in Ppl : delay[q] > 0 => status'[q] = status[q]
    BY <1>2, Zenon DEF PrepareComplete, PplInv, TypeOK, DelayedStart
  <2>3. UNCHANGED <<task, trig, delay, xrun>> /\ Prepared("ok")
    BY <1>2, Zenon DEF PrepareComplete
  <2> QED
    BY <2>1, <2>2, <2>3, PreparedType, StatusStep, Zenon
<1>3. CASE PrepareParams
  <2>1. PICK f \in Failing("PREPARE") :
          LET w == Walk(ThisPpl, "PREPARE", comp[ThisPpl], f) IN
            \/ /\ w.result = "ok"
               /\ comp' = [comp EXCEPT ![ThisPpl] = w.comp]
               /\ status' = [status EXCEPT ![ThisPpl] = "PREPARE"]
               /\ Prepared("ok")
            \/ /\ w.result = "error"
               /\ Reset(ThisPpl, 0)
               /\ Prepared("error")
    BY <1>3, Zenon DEF PrepareParams
  <2> DEFINE cs == Walk(ThisPpl, "PREPARE", comp[ThisPpl], f).comp
  <2>2. ThisPpl \in Ppl => cs \in [1 .. N -> State]
    BY WalkType, Zenon DEF PplInv, TypeOK
  <2>3. ThisPpl \in Ppl => ResetChain(comp[ThisPpl], 0) \in [1 .. N -> State]
    BY ResetChainType, Zenon DEF PplInv, TypeOK
  <2>4. \/ comp' = [comp EXCEPT ![ThisPpl] = cs]
        \/ comp' = [comp EXCEPT ![ThisPpl] = ResetChain(comp[ThisPpl], 0)]
    BY <2>1, Zenon DEF Reset
  <2> HIDE DEF cs
  <2>5. comp' \in [Ppl -> [1 .. N -> State]]
    BY <2>2, <2>3, <2>4, Zenon DEF PplInv, TypeOK
  <2>6. \/ status' = [status EXCEPT ![ThisPpl] = "PREPARE"]
        \/ status' = [status EXCEPT ![ThisPpl] = "READY"]
    BY <2>1, Zenon DEF Reset
  <2>7. status' \in [Ppl -> State]
    BY <2>6, Zenon DEF PplInv, TypeOK, State
  <2>8. \A q \in Ppl : delay[q] > 0 => status'[q] = status[q]
    BY <1>3, <2>6, Zenon DEF PrepareParams, PplInv, TypeOK, DelayedStart
  <2>9. \E res : Prepared(res)
    BY <2>1, Zenon
  <2> QED
    BY <1>3, <2>5, <2>7, <2>8, <2>9, PreparedType, StatusStep, Zenon DEF PrepareParams
<1> QED
  BY <1>1, <1>2, <1>3, Zenon DEF Prepare

\* The handler executes a pause or stop itself only for a pipeline that is
\* PAUSED or in an xrun.
LEMMA TriggerInlineStep ==
    ASSUME PplInv, TriggerInline
    PROVE  PplInv'
<1> DEFINE p == ThisPpl
           ignored == act = "STOP" /\ xrun[p] /\ status[p] = "PAUSED"
           w(f) == IF ignored THEN [comp |-> comp[p], result |-> "ok", begun |-> FALSE]
                   ELSE Walk(p, act, comp[p], f)
           stopped(f) == [status EXCEPT ![p] = IF w(f).begun THEN "PAUSED" ELSE @]
<1>1. PICK f \in Failing(act), g \in Failing("RESET") :
        \/ comp' = [comp EXCEPT ![p] = w(f).comp] /\ status' = stopped(f)
        \/ /\ comp' = [comp EXCEPT ![p] = ResetChain(w(f).comp, g)]
           /\ status' = IF g = 0 THEN [status EXCEPT ![p] = "READY"] ELSE stopped(f)
  BY Zenon DEF TriggerInline
<1> DEFINE cs == w(f).comp
<1>2. p \in Ppl => cs \in [1 .. N -> State]
  <2>1. act \in Trigger
    BY Zenon DEF TriggerInline, Runs, PplInv, Chosen
  <2> QED
    BY <2>1, WalkType, Zenon DEF PplInv, TypeOK
<1>3. \/ comp' = [comp EXCEPT ![p] = cs]
      \/ comp' = [comp EXCEPT ![p] = ResetChain(cs, g)]
  BY <1>1, Zenon
<1>4. stopped(f) = status \/ stopped(f) = [status EXCEPT ![p] = "PAUSED"]
  BY Zenon DEF PplInv, TypeOK
<1>5. \/ status' = status
      \/ status' = [status EXCEPT ![p] = "PAUSED"]
      \/ status' = [status EXCEPT ![p] = "READY"]
  <2> HIDE DEF stopped
  <2> QED
    BY <1>1, <1>4, Zenon
<1>6. p \in Ppl => delay[p] = 0
  BY DEF TriggerInline, Inline, PplInv, TypeOK, DelayedStart
<1>7. UNCHANGED <<task, trig, delay, xrun, todo>>
  BY Zenon DEF TriggerInline
<1>8. /\ Chosen' /\ waited' \in 0 .. WaitTicks
      /\ delayed_reply' \in Int /\ delayed_error' \in BOOLEAN
  BY Zenon DEF TriggerInline, compound, PplInv, TypeOK, Chosen
<1> HIDE DEF cs, p
<1>9. comp' \in [Ppl -> [1 .. N -> State]]
  <2>1. p \in Ppl => ResetChain(cs, g) \in [1 .. N -> State]
    BY <1>2, ResetChainType, Zenon
  <2> QED
    BY <1>2, <1>3, <2>1, Zenon DEF PplInv, TypeOK
<1>10. status' \in [Ppl -> State]
  BY <1>5, Zenon DEF PplInv, TypeOK, State
<1>11. \A q \in Ppl : delay[q] > 0 => status'[q] = status[q]
  BY <1>5, <1>6 DEF PplInv, TypeOK
<1> QED
  BY <1>7, <1>8, <1>9, <1>10, <1>11, StatusStep, Zenon

\* A trigger left with a pipeline replaces the one that waits for the end of
\* its delay, and a start clears the xrun and schedules the task.
LEMMA TriggerScheduleStep ==
    ASSUME PplInv, TriggerSchedule
    PROVE  PplInv'
<1>1. act \in Trigger /\ act # "none"
  BY Zenon DEF TriggerSchedule, Runs, PplInv, Chosen, Trigger
<1>2. trig' \in [Ppl -> Trigger \union {"none"}]
  BY <1>1, Zenon DEF TriggerSchedule, PplInv, TypeOK
<1>3. /\ task' \in [Ppl -> BOOLEAN] /\ xrun' \in [Ppl -> BOOLEAN]
      /\ \A q \in Ppl : (task[q] => task'[q]) /\ (xrun'[q] => xrun[q])
  <2>1. CASE act \in {"PRE_START", "PRE_RELEASE"}
    BY <2>1, Zenon DEF TriggerSchedule, PplInv, TypeOK
  <2>2. CASE act \notin {"PRE_START", "PRE_RELEASE"}
    BY <2>2, Zenon DEF TriggerSchedule, PplInv, TypeOK
  <2> QED
    BY <2>1, <2>2, Zenon
<1>4. TypeOK' /\ (delay \in [Ppl -> Nat])'
  BY <1>2, <1>3, Zenon DEF TriggerSchedule, compound, PplInv, TypeOK
<1>5. TodoHasTask'
  BY <1>3, Zenon DEF TriggerSchedule, PplInv, TypeOK, TodoHasTask
<1>6. Chosen'
  BY Zenon DEF TriggerSchedule, PplInv, Chosen
<1>7. ASSUME NEW q \in Ppl PROVE DelayedStart(q)'
  <2>1. trig[q] # "none" => trig'[q] # "none"
    BY <1>1, Zenon DEF TriggerSchedule, PplInv, TypeOK
  <2>2. DelayedStart(q) /\ status' = status /\ delay' = delay
    BY Zenon DEF TriggerSchedule, PplInv
  <2> QED
    BY <1>3, <2>1, <2>2, Zenon DEF DelayedStart
<1> QED
  BY <1>4, <1>5, <1>6, <1>7, Zenon DEF PplInv

\* The steps of the handler that touch no pipeline.
LEMMA HandlerOnlyStep ==
    ASSUME PplInv, Request \/ TriggerRead \/ TriggerPost \/ WaitDone \/ FinalWait \/ Reply
    PROVE  PplInv'
<1> DEFINE Kept == UNCHANGED <<ppls, todo>>
           Counted == delayed_reply' \in Int /\ delayed_error' \in BOOLEAN
           InTime == waited' \in 0 .. WaitTicks
<1>0. 0 \in 0 .. WaitTicks
  BY DelayAssumption
<1>t. /\ delayed_reply \in Int /\ delayed_error \in BOOLEAN
      /\ waited \in 0 .. WaitTicks /\ Chosen
  BY Zenon DEF PplInv, TypeOK
<1>s. SUFFICES Kept /\ Counted /\ InTime /\ Chosen'
  BY HandlerOnly, Zenon
<1>1. CASE Request
  <2>1. request'.cmd \in Command /\ pc' # "act"
    BY <1>1 DEF Request
  <2>2. delayed_reply' = 0 /\ delayed_error' = FALSE /\ waited' = waited /\ Kept
    BY <1>1, Zenon DEF Request
  <2>3. Chosen'
    BY <2>1, Zenon DEF Chosen
  <2>4. delayed_error' \in BOOLEAN
    BY <2>2, Zenon
  <2>5. delayed_reply' \in Int
    BY <2>2
  <2> QED
    BY <1>t, <2>2, <2>3, <2>4, <2>5, Zenon
<1>2. CASE TriggerRead
  <2>1. Chosen'
    <3>1. CASE ThisPpl \in Ppl
      BY <1>2, <1>t, <3>1, ChoiceType, Zenon DEF TriggerRead, Chosen, PplInv, TypeOK
    <3>2. CASE ThisPpl \notin Ppl
      BY <1>2, <1>t, <3>2 DEF TriggerRead, Choice, Command, Trigger, Chosen
    <3> QED
      BY <3>1, <3>2, Zenon
  <2>2. delayed_reply' \in Int
    BY <1>2, <1>t DEF TriggerRead
  <2>3. delayed_error' = delayed_error /\ waited' = waited /\ Kept
    BY <1>2, Zenon DEF TriggerRead
  <2> QED
    BY <1>t, <2>1, <2>2, <2>3, Zenon
<1>3. CASE TriggerPost
  <2>1. delayed_reply' \in Int
    BY <1>3, <1>t DEF TriggerPost
  <2>2. pc' # "act" /\ UNCHANGED request
    BY <1>3, Zenon DEF TriggerPost, Advance
  <2>3. delayed_error' = delayed_error /\ waited' = 0 /\ Kept
    BY <1>3, Zenon DEF TriggerPost
  <2>4. Chosen'
    BY <1>t, <2>2, Zenon DEF Chosen
  <2> QED
    BY <1>0, <1>t, <2>1, <2>3, <2>4, Zenon
<1>4. CASE WaitDone
  <2>1. pc' # "act" /\ UNCHANGED request
    BY <1>4, Zenon DEF WaitDone, Advance
  <2>2. delayed_reply' = 0 /\ delayed_error' = delayed_error /\ waited' = 0 /\ Kept
    BY <1>4, Zenon DEF WaitDone
  <2>3. Chosen'
    BY <1>t, <2>1 DEF Chosen
  <2> QED
    BY <1>0, <1>t, <2>2, <2>3
<1>5. CASE FinalWait
  BY <1>5, <1>t DEF FinalWait, Chosen
<1>6. CASE Reply
  BY <1>6, <1>t, Zenon DEF Reply, Chosen, compound
<1> QED
  BY <1>1, <1>2, <1>3, <1>4, <1>5, <1>6, Zenon

-----------------------------------------------------------------------------
\* Init establishes the invariant and every step keeps it.
THEOREM Invariance == Spec => []PplInv
<1>1. PplInv /\ [Next]_vars => PplInv'
  <2> SUFFICES ASSUME PplInv, [Next]_vars PROVE PplInv'
    BY Zenon
  <2>1. ASSUME NEW p \in Ppl, Task(p) PROVE PplInv'
    BY <2>1, TaskXrunStep, TaskDelayStep, TaskStartStep, TaskStopStep, TaskCopyStep,
       TaskCopyXrunStep, Zenon DEF Task
  <2>2. CASE Handler
    BY <2>2, PrepareStep, TriggerInlineStep, TriggerScheduleStep, HandlerOnlyStep, Zenon DEF Handler
  <2>3. CASE UNCHANGED vars
    BY <2>3, Zenon DEF vars, ppls, compound, handler, PplInv, TypeOK, TodoHasTask, Chosen, DelayedStart
  <2> QED
    BY <2>1, <2>2, <2>3, TickStep, HandlerOnlyStep, Zenon DEF Next
<1> QED
  BY InitInv, <1>1, PTL DEF Spec

\* Every variable of the pipelines and of the handler keeps its type; the delay
\* of a pipeline stays between 0 and the one its DAI asked for.
THEOREM TypeCorrect == Spec => []TypeOK
<1>1. PplInv => TypeOK
  BY Zenon DEF PplInv
<1> QED
  BY Invariance, <1>1, PTL

\* Whatever commands, faults and cycles come between the two stages of a start,
\* the pipeline keeps the task and the trigger that complete it.
THEOREM DelayKeepsTrigger == Spec => []DelayedStartPending
<1>1. PplInv => DelayedStartPending
  BY Zenon DEF PplInv, DelayedStart, DelayedStartPending, Pending
<1> QED
  BY Invariance, <1>1, PTL

-----------------------------------------------------------------------------
(* One trigger at a time.                                                  *)

LEMMA ListType ==
    ASSUME NEW l \in PplList
    PROVE  /\ Len(l) \in Nat \ {0} /\ DOMAIN l = 1 .. Len(l)
           /\ \A i \in 1 .. Len(l) : l[i] \in Ppl
           /\ \A i, j \in 1 .. Len(l) : l[i] = l[j] => i = j
<1>1. PICK n \in 1 .. Cardinality(Ppl) : l \in [1 .. n -> Ppl]
  BY Zenon DEF PplList
<1>2. n \in Nat \ {0}
  BY <1>1
<1>3. DOMAIN l = 1 .. n /\ l \in Seq(Ppl)
  BY <1>1, <1>2
<1>4. Len(l) = n
  BY <1>2, <1>3
<1> QED
  BY <1>1, <1>2, <1>3, <1>4, Zenon DEF PplList

\* When all pipelines are on one core, the handler runs only between cycles.
LEMMA OneCore ==
    ASSUME Timely, todo \subseteq Ppl, NEW p \in Ppl, Idle(Core[p])
    PROVE  todo = {}
BY Zenon DEF Timely, Idle

LEMMA HandlerPlace ==
    ASSUME Timely, todo \subseteq Ppl, request.list \in PplList, at \in 1 .. Len(request.list)
    PROVE  /\ ThisPpl \in Ppl /\ Local
           /\ Idle(Home) => todo = {}
           /\ Idle(Core[ThisPpl]) => todo = {}
<1>1. /\ DOMAIN request.list = 1 .. Len(request.list) /\ Len(request.list) \in Nat \ {0}
      /\ \A i \in 1 .. Len(request.list) : request.list[i] \in Ppl
  BY ListType, Zenon
<1>2. ThisPpl \in Ppl /\ request.list[1] \in Ppl
  BY <1>1 DEF ThisPpl
<1>3. Home = Core[request.list[1]] /\ Home = Core[ThisPpl]
  BY <1>1, <1>2, Zenon DEF Home, Timely
<1> QED
  BY <1>2, <1>3, OneCore, Zenon DEF Local

\* The end of a pass stays within the command's list.
LEMMA AdvancePlace ==
    ASSUME request.list \in PplList, at \in 1 .. Len(request.list), UNCHANGED request,
           NEW res, NEW loop, NEW after, Advance(res, loop, after)
    PROVE  /\ request'.list \in PplList /\ at' \in 1 .. Len(request'.list)
           /\ pc' \in {loop, after, "final"} /\ (pc' = "final" \/ result' = "ok")
BY ListType DEF Advance

\* What a run of the task of p does to its trigger: it answers it, finds none,
\* leaves the second stage for later, or counts down the delay.
Answers(p) ==
    /\ trig[p] # "none" /\ trig' = [trig EXCEPT ![p] = "none"]
    /\ delay[p] = 0 /\ UNCHANGED delay
    /\ delayed_reply' = IF delayed_reply = 0 THEN 0 ELSE delayed_reply - 1
Nothing(p) ==
    trig[p] = "none" /\ UNCHANGED <<trig, delay, compound>>
Postpones(p) ==
    /\ trig[p] \in Start /\ Delay[p] > 0
    /\ trig' = [trig EXCEPT ![p] = Final(@)] /\ delay' = [delay EXCEPT ![p] = Delay[p]]
    /\ p \notin todo' /\ UNCHANGED compound
CountsDown(p) ==
    /\ delay[p] > 0 /\ delay' = [delay EXCEPT ![p] = @ - 1]
    /\ p \notin todo' /\ UNCHANGED <<trig, compound>>

Outcome(p) == Answers(p) \/ Nothing(p) \/ Postpones(p) \/ CountsDown(p)

\* A run of the task of p takes nobody else off the scheduler's list or out of
\* the cycle.
OnlyIts(p) ==
    /\ p \in todo /\ UNCHANGED handler
    /\ todo' = todo \/ todo' = todo \ {p}
    /\ UNCHANGED task \/ task' = [task EXCEPT ![p] = FALSE]

LEMMA Replied ==
    ASSUME TypeOK, NEW e, MsgReply(e)
    PROVE  delayed_reply' = IF delayed_reply = 0 THEN 0 ELSE delayed_reply - 1
BY Zenon DEF MsgReply, compound

LEMMA TaskStartOutcome ==
    ASSUME PplInv, NEW p \in Ppl, TaskStart(p)
    PROVE  Outcome(p) /\ OnlyIts(p)
<1>1. Executes(p) /\ trig[p] \in Trigger \ {"PAUSE", "STOP"} /\ UNCHANGED handler
  BY Zenon DEF TaskStart, Executes, PplInv, TypeOK
<1>2. \/ trig' = [trig EXCEPT ![p] = "none"] /\ MsgReply(TRUE) /\ Completed(p) /\ UNCHANGED delay
      \/ Final(trig[p]) # trig[p] /\ Delay[p] > 0 /\ SecondStage(p)
      \/ /\ trig' = [trig EXCEPT ![p] = "none"] /\ MsgReply(FALSE)
         /\ UNCHANGED <<delay, task, todo>>
  BY ZenonT(30) DEF TaskStart
<1>3. OnlyIts(p)
  BY <1>1, <1>2, Zenon DEF OnlyIts, Executes, Completed, SecondStage, Reschedule
<1>4. CASE trig' = [trig EXCEPT ![p] = "none"] /\ (MsgReply(TRUE) \/ MsgReply(FALSE)) /\ UNCHANGED delay
  <2>1. delayed_reply' = IF delayed_reply = 0 THEN 0 ELSE delayed_reply - 1
    BY <1>4, Replied, Zenon DEF PplInv
  <2> QED
    BY <1>1, <1>3, <1>4, <2>1, Zenon DEF Outcome, Answers, Executes
<1>5. CASE Final(trig[p]) # trig[p] /\ Delay[p] > 0 /\ SecondStage(p)
  <2>1. trig[p] \in Start
    BY <1>1, <1>5, Zenon DEF Final, Start, Trigger
  <2> QED
    BY <1>3, <1>5, <2>1, Zenon DEF Outcome, Postpones, SecondStage, Reschedule
<1> QED
  BY <1>2, <1>3, <1>4, <1>5, Zenon

LEMMA TaskOutcome ==
    ASSUME PplInv, NEW p \in Ppl, Task(p)
    PROVE  Outcome(p) /\ OnlyIts(p)
<1>1. CASE TaskXrun(p)
  <2>1. CASE trig[p] = "none"
    <3>1. UNCHANGED trig
      BY <1>1, <2>1, Zenon DEF TaskXrun, PplInv, TypeOK
    <3> QED
      BY <1>1, <2>1, <3>1, Zenon DEF TaskXrun, Completed, Outcome, Nothing, OnlyIts
  <2>2. CASE trig[p] # "none"
    <3>1. MsgReply(TRUE)
      BY <1>1, <2>2, Zenon DEF TaskXrun
    <3>2. delayed_reply' = IF delayed_reply = 0 THEN 0 ELSE delayed_reply - 1
      BY <3>1, Replied, Zenon DEF PplInv
    <3>3. delay[p] = 0
      <4>1. xrun[p] /\ DelayedStart(p) /\ delay[p] \in Nat
        BY <1>1, Zenon DEF TaskXrun, PplInv
      <4>2. ~(delay[p] > 0)
        BY <4>1, Zenon DEF DelayedStart
      <4> QED
        BY <4>1, <4>2
    <3> QED
      BY <1>1, <2>2, <3>2, <3>3, Zenon DEF TaskXrun, Completed, Outcome, Answers, OnlyIts
  <2> QED
    BY <2>1, <2>2, Zenon
<1>2. CASE TaskDelay(p)
  BY <1>2, Zenon DEF TaskDelay, Reschedule, Outcome, CountsDown, OnlyIts
<1>3. CASE TaskStart(p)
  BY <1>3, TaskStartOutcome, Zenon
<1>4. CASE TaskPause(p) \/ TaskStop(p) \/ TaskStopFails(p) \/ TaskPauseAborted(p)
  <2>1. \E e : MsgReply(e)
    BY <1>4, Zenon DEF TaskPause, TaskStop, TaskStopFails, TaskPauseAborted
  <2>2. delayed_reply' = IF delayed_reply = 0 THEN 0 ELSE delayed_reply - 1
    BY <2>1, Replied, Zenon DEF PplInv
  <2>3. /\ trig[p] # "none" /\ trig' = [trig EXCEPT ![p] = "none"]
        /\ delay[p] = 0 /\ UNCHANGED delay
    BY <1>4, Zenon DEF TaskPause, TaskStop, TaskStopFails, TaskPauseAborted, Executes
  <2>4. OnlyIts(p)
    BY <1>4, Zenon DEF TaskPause, TaskStop, TaskStopFails, TaskPauseAborted, Executes, Completed, OnlyIts
  <2> QED
    BY <2>2, <2>3, <2>4, Zenon DEF Outcome, Answers
<1>5. CASE TaskCopy(p) \/ TaskCopyFails(p) \/ TaskCopyXrun(p)
  BY <1>5, Zenon DEF TaskCopy, TaskCopyFails, TaskCopyXrun, Copies, Completed, Reschedule, Outcome,
     Nothing, OnlyIts
<1> QED
  BY <1>1, <1>2, <1>3, <1>4, <1>5, Zenon DEF Task

LEMMA TaskTurn ==
    ASSUME Timely, PplInv, TurnInv, NEW p \in Ppl, Task(p)
    PROVE  TurnInv'
<1>1. Outcome(p) /\ OnlyIts(p)
  BY TaskOutcome, Zenon
<1>2. /\ ThisPpl' = ThisPpl /\ pc' = pc /\ later' = later /\ result' = result
      /\ at' = at /\ request' = request /\ waited' = waited
  BY <1>1, Zenon DEF OnlyIts, handler, ThisPpl
<1>3. ASSUME trig[p] # "none"
      PROVE  pc \in {"post", "wait"} /\ later /\ p = ThisPpl /\ delayed_reply = 1
  <2>1. Pending(p)
    BY <1>1, <1>3, Zenon DEF OnlyIts, PplInv, TodoHasTask, Pending
  <2> QED
    BY <1>3, <2>1, Zenon DEF TurnInv, TaskAnswered
<1>4. ASSUME NEW q \in Ppl, q # p
      PROVE  /\ trig'[q] = trig[q] /\ delay'[q] = delay[q] /\ task'[q] = task[q]
             /\ q \in todo' <=> q \in todo
  BY <1>1, <1>4, Zenon DEF OnlyIts, Outcome, Answers, Nothing, Postpones, CountsDown, PplInv, TypeOK
<1>5. (trig'[p] # "none" => trig[p] # "none") /\ (task'[p] => task[p])
  <2>1. trig'[p] # "none" => trig[p] # "none"
    BY <1>1, Zenon DEF Outcome, Answers, Nothing, Postpones, CountsDown, Start, PplInv, TypeOK
  <2>2. task'[p] => task[p]
    BY <1>1, Zenon DEF OnlyIts, PplInv, TypeOK
  <2> QED
    BY <2>1, <2>2, Zenon
<1>6. ASSUME NEW q \in Ppl, Pending(q)' PROVE Pending(q)
  BY <1>4, <1>5, <1>6, Zenon DEF Pending
<1>7. /\ pc' # "idle" => request'.list \in PplList /\ at' \in 1 .. Len(request'.list)
      /\ \A q \in Ppl : Pending(q)' => pc' \in {"post", "wait"} /\ later' /\ q = ThisPpl'
      /\ pc' \in {"prepare", "read", "act", "wait"} => result' = "ok"
      /\ pc' = "act" => ~later'
      /\ pc' = "post" /\ later' => result' = "ok"
      /\ pc' = "wait" => later'
  BY <1>2, <1>6, Zenon DEF TurnInv
<1>8. ASSUME NEW q \in Ppl, delay'[q] > 0 PROVE trig'[q] \in Second
  <2>1. CASE q # p
    BY <1>4, <1>8, <2>1, Zenon DEF TurnInv
  <2>2. CASE q = p /\ Answers(p)
    BY <1>8, <2>2 DEF Answers
  <2>3. CASE q = p /\ Nothing(p)
    BY <1>8, <2>3, Zenon DEF TurnInv, Nothing
  <2>4. CASE q = p /\ Postpones(p)
    BY <2>4, Zenon DEF Postpones, Final, Second, PplInv, TypeOK
  <2>5. CASE q = p /\ CountsDown(p)
    BY <2>5, Zenon DEF TurnInv, CountsDown
  <2> QED
    BY <1>1, <2>1, <2>2, <2>3, <2>4, <2>5, Zenon DEF Outcome
<1>9. delayed_reply' = IF \/ pc' = "act"
                          \/ pc' \in {"post", "wait"} /\ ~(later' /\ trig'[ThisPpl] = "none")
                       THEN 1 ELSE 0
  <2>1. CASE Answers(p)
    <3>1. delayed_reply' = 0
      BY <1>3, <2>1 DEF Answers
    <3>2. trig'[ThisPpl] = "none" /\ later' /\ pc' \in {"post", "wait"}
      BY <1>2, <1>3, <2>1, Zenon DEF Answers, PplInv, TypeOK
    <3> QED
      BY <3>1, <3>2, Zenon
  <2>2. CASE ~Answers(p)
    <3>1. delayed_reply' = delayed_reply
      BY <1>1, <2>2, Zenon DEF Outcome, Nothing, Postpones, CountsDown, compound
    <3>2. trig'[p] = "none" <=> trig[p] = "none"
      BY <1>1, <2>2, Zenon DEF Outcome, Nothing, Postpones, CountsDown, Final, Start, PplInv, TypeOK
    <3>3. ASSUME pc \in {"post", "wait"} PROVE trig'[ThisPpl] = "none" <=> trig[ThisPpl] = "none"
      <4>1. ThisPpl \in Ppl
        BY <3>3, HandlerPlace, Zenon DEF TurnInv, PplInv, TypeOK
      <4> QED
        BY <4>1, <3>2, <1>4, Zenon
    <3>4. delayed_reply = IF \/ pc = "act"
                             \/ pc \in {"post", "wait"} /\ ~(later /\ trig[ThisPpl] = "none")
                          THEN 1 ELSE 0
      BY Zenon DEF TurnInv, TaskAnswered
    <3> QED
      BY <1>2, <3>1, <3>3, <3>4, Zenon
  <2> QED
    BY <2>1, <2>2, Zenon
<1>10. ASSUME NEW q \in Ppl, pc' = "wait", Pending(q)'
       PROVE  waited' + RunsNeeded(q)' <= WaitTicks + (IF q \in todo' THEN 1 ELSE 0)
  <2>1. waited + RunsNeeded(q) <= WaitTicks + (IF q \in todo THEN 1 ELSE 0)
    BY <1>2, <1>6, <1>10, Zenon DEF TurnInv
  <2>2. waited \in Nat /\ WaitTicks \in Nat /\ delay[q] \in Nat /\ Delay[q] \in Nat
    BY DelayAssumption DEF PplInv, TypeOK
  <2>3. CASE q # p
    BY <1>2, <1>4, <2>1, <2>3, Zenon DEF RunsNeeded
  <2>4. CASE q = p /\ (Answers(p) \/ Nothing(p))
    BY <1>10, <2>4, Zenon DEF Answers, Nothing, Pending, PplInv, TypeOK
  <2>5. CASE q = p /\ Postpones(p)
    <3>1. RunsNeeded(p) = Delay[p] + 2 /\ RunsNeeded(p)' = Delay[p] + 1
      BY <2>5, Zenon DEF Postpones, RunsNeeded, Start, Final, PplInv, TypeOK
    <3>2. p \in todo /\ p \notin todo'
      BY <1>1, <2>5, Zenon DEF OnlyIts, Postpones
    <3>3. q = p /\ waited' = waited
      BY <1>2, <2>5, Zenon
    <3>4. waited + (Delay[p] + 2) <= WaitTicks + 1
      BY <2>1, <3>1, <3>2, <3>3, Zenon
    <3>5. waited' + RunsNeeded(p)' <= WaitTicks
      BY <2>2, <3>1, <3>3, <3>4
    <3> QED
      BY <2>2, <3>2, <3>3, <3>5
  <2>6. CASE q = p /\ CountsDown(p)
    <3>1. trig[p] \in Second /\ trig' = trig /\ delay'[p] = delay[p] - 1
      BY <2>6, Zenon DEF CountsDown, TurnInv, PplInv
    <3>2. RunsNeeded(p) = delay[p] + 1 /\ RunsNeeded(p)' = delay[p]
      <4>1. trig[p] \notin Start /\ trig'[p] \notin Start
        BY <3>1, Zenon DEF Start, Second
      <4>2. RunsNeeded(p) = delay[p] + 1 /\ RunsNeeded(p)' = delay'[p] + 1
        BY <4>1, Zenon DEF RunsNeeded
      <4> QED
        BY <2>2, <2>6, <3>1, <4>2
    <3>3. p \in todo /\ p \notin todo'
      BY <1>1, <2>6, Zenon DEF OnlyIts, CountsDown
    <3> QED
      BY <1>2, <2>1, <2>2, <2>6, <3>2, <3>3
  <2> QED
    BY <1>1, <2>3, <2>4, <2>5, <2>6, Zenon DEF Outcome
<1>11. trig'[ThisPpl'] = trig'[ThisPpl]
  BY <1>2, Zenon
<1> QED
  BY <1>7, <1>8, <1>9, <1>10, <1>11, Zenon DEF TurnInv, TaskAnswered

LEMMA TickTurn ==
    ASSUME Timely, PplInv, TurnInv, NEW p \in Ppl, Tick(Core[p])
    PROVE  TurnInv'
<1>1. todo = {}
  BY OneCore, Zenon DEF Tick, PplInv, TypeOK
<1>2. /\ UNCHANGED <<task, trig, delay, delayed_reply, request, pc, at, act, result, later>>
      /\ ThisPpl' = ThisPpl
  BY Zenon DEF Tick, ppls, compound, ThisPpl
<1>3. ASSUME NEW q \in Ppl, pc' = "wait", Pending(q)'
      PROVE  waited' + RunsNeeded(q)' <= WaitTicks + (IF q \in todo' THEN 1 ELSE 0)
  <2>1. Pending(q) /\ RunsNeeded(q)' = RunsNeeded(q)
    BY <1>2, <1>3, Zenon DEF Pending, RunsNeeded
  <2>2. q \in todo'
    BY <2>1, Zenon DEF Tick, Pending, Timely
  <2>3. waited + RunsNeeded(q) <= WaitTicks
    <3>1. waited + RunsNeeded(q) <= WaitTicks + (IF q \in todo THEN 1 ELSE 0)
      BY <1>1, <1>2, <1>3, <2>1, Zenon DEF TurnInv
    <3> QED
      BY <1>1, <3>1, DelayAssumption
  <2>4. waited \in Nat /\ WaitTicks \in Nat /\ RunsNeeded(q) \in Nat
    <3>1. /\ Delay[q] \in Nat /\ delay[q] \in Nat
          /\ WaitTicks \in Nat /\ waited \in 0 .. WaitTicks
      BY DelayAssumption, Zenon DEF PplInv, TypeOK
    <3> QED
      BY <3>1 DEF RunsNeeded
  <2>5. waited' = waited \/ waited' = waited + 1
    BY Zenon DEF Tick
  <2> QED
    BY <2>1, <2>2, <2>3, <2>4, <2>5
<1>4. \A q \in Ppl : Pending(q)' = Pending(q)
  BY <1>2, Zenon DEF Pending
<1> QED
  BY <1>2, <1>3, <1>4, Zenon DEF TurnInv, TaskAnswered

\* The handler is not with a pipeline, and no task has a trigger to execute.
LEMMA QuietTurn ==
    ASSUME TurnInv, \A p \in Ppl : ~Pending(p), UNCHANGED <<task, trig, delay>>,
           pc' \notin {"act", "post", "wait"}, delayed_reply' = 0,
           pc' \in {"prepare", "read"} => result' = "ok",
           pc' # "idle" => request'.list \in PplList /\ at' \in 1 .. Len(request'.list)
    PROVE  TurnInv'
<1>1. \A p \in Ppl : ~Pending(p)'
  BY Zenon DEF Pending
<1> QED
  BY <1>1, Zenon DEF TurnInv

LEMMA PrepareTurn ==
    ASSUME Timely, PplInv, TurnInv, Prepare
    PROVE  TurnInv'
<1>1. pc = "prepare" /\ UNCHANGED <<task, trig, delay>> /\ \E res : Prepared(res)
  BY Zenon DEF Prepare, PrepareNot, PrepareComplete, PrepareParams, Runs, ppls
<1>2. PICK res : Prepared(res)
  BY <1>1, Zenon
<1>3. /\ \A p \in Ppl : ~Pending(p)
      /\ request.list \in PplList /\ at \in 1 .. Len(request.list) /\ delayed_reply = 0
  BY <1>1, Zenon DEF TurnInv
<1>4. /\ request'.list \in PplList /\ at' \in 1 .. Len(request'.list)
      /\ pc' \in {"prepare", "read", "final"} /\ (pc' = "final" \/ result' = "ok")
  BY <1>2, <1>3, AdvancePlace, Zenon DEF Prepared
<1>5. delayed_reply' = 0
  BY <1>2, <1>3, Zenon DEF Prepared, compound
<1> QED
  BY <1>1, <1>3, <1>4, <1>5, QuietTurn, Zenon

LEMMA ReadTurn ==
    ASSUME Timely, PplInv, TurnInv, TriggerRead
    PROVE  TurnInv'
<1>1. /\ pc = "read" /\ UNCHANGED <<task, trig, delay, request, at>> /\ ~later'
      /\ delayed_reply' = delayed_reply + (IF Local THEN 1 ELSE 0)
      /\ pc' \in {"act", "post"} /\ (pc' = "act" => result' = "ok")
  BY Zenon DEF TriggerRead, Runs, ppls
<1>2. /\ \A p \in Ppl : ~Pending(p)
      /\ request.list \in PplList /\ at \in 1 .. Len(request.list) /\ delayed_reply = 0
  BY <1>1, Zenon DEF TurnInv
<1>3. delayed_reply' = 1
  <2>1. todo \subseteq Ppl
    BY Zenon DEF PplInv, TypeOK
  <2>2. Local
    BY <1>2, <2>1, HandlerPlace, Zenon
  <2> QED
    BY <1>1, <1>2, <2>2
<1>4. \A p \in Ppl : ~Pending(p)' /\ (delay'[p] > 0 => trig'[p] \in Second)
  BY <1>1, <1>2, Zenon DEF Pending, TurnInv
<1> QED
  BY <1>1, <1>2, <1>3, <1>4, Zenon DEF TurnInv, TaskAnswered

LEMMA InlineTurn ==
    ASSUME Timely, PplInv, TurnInv, TriggerInline
    PROVE  TurnInv'
<1>1. /\ pc = "act" /\ pc' = "post"
      /\ UNCHANGED <<task, trig, delay, delayed_reply, request, at, later>>
  BY Zenon DEF TriggerInline, Runs, compound
<1>2. /\ \A p \in Ppl : ~Pending(p)
      /\ request.list \in PplList /\ at \in 1 .. Len(request.list)
      /\ delayed_reply = 1 /\ ~later
  BY <1>1, Zenon DEF TurnInv
<1>3. \A p \in Ppl : ~Pending(p)' /\ (delay'[p] > 0 => trig'[p] \in Second)
  BY <1>1, <1>2 DEF Pending, TurnInv
<1> QED
  BY <1>1, <1>2, <1>3, Zenon DEF TurnInv, TaskAnswered

LEMMA ScheduleTurn ==
    ASSUME Timely, PplInv, TurnInv, TriggerSchedule
    PROVE  TurnInv'
<1>1. /\ pc = "act" /\ pc' = "post" /\ later' /\ ThisPpl' = ThisPpl
      /\ trig' = [trig EXCEPT ![ThisPpl] = act]
      /\ UNCHANGED <<delay, delayed_reply, request, at, result>>
  BY Zenon DEF TriggerSchedule, Runs, compound, ThisPpl
<1>2. /\ \A p \in Ppl : ~Pending(p)
      /\ request.list \in PplList /\ at \in 1 .. Len(request.list)
      /\ delayed_reply = 1 /\ result = "ok"
  BY <1>1, Zenon DEF TurnInv
<1>3. ThisPpl \in Ppl /\ act \in Trigger /\ act # "none"
  BY <1>1, <1>2, HandlerPlace, Zenon DEF PplInv, TypeOK, Chosen, Trigger
<1>4. trig'[ThisPpl] # "none"
  BY <1>1, <1>3, Zenon DEF PplInv, TypeOK
<1>5. ASSUME NEW q \in Ppl, q # ThisPpl PROVE ~Pending(q)'
  <2>1. trig'[q] = trig[q] /\ task'[q] = task[q]
    BY <1>5, Zenon DEF TriggerSchedule, PplInv, TypeOK
  <2> QED
    BY <1>2, <2>1, Zenon DEF Pending
<1>6. ASSUME NEW q \in Ppl PROVE delay'[q] = 0
  <2>1. delay[q] \in Nat /\ ~(delay[q] > 0)
    BY <1>2, Zenon DEF PplInv, DelayedStart, Pending
  <2> QED
    BY <1>1, <2>1
<1>7. request'.list \in PplList /\ at' \in 1 .. Len(request'.list)
  BY <1>1, <1>2, Zenon
<1>8. \A q \in Ppl : Pending(q)' => pc' \in {"post", "wait"} /\ later' /\ q = ThisPpl'
  BY <1>1, <1>5, Zenon
<1>9. \A q \in Ppl : delay'[q] > 0 => trig'[q] \in Second
  BY <1>6
<1>10. result' = "ok" /\ delayed_reply' = 1 /\ trig'[ThisPpl'] # "none"
  BY <1>1, <1>2, <1>4, Zenon
<1> QED
  BY <1>1, <1>7, <1>8, <1>9, <1>10, Zenon DEF TurnInv, TaskAnswered

LEMMA PostTurn ==
    ASSUME Timely, PplInv, TurnInv, TriggerPost
    PROVE  TurnInv'
<1>1. /\ pc = "post" /\ Idle(Home) /\ waited' = 0
      /\ UNCHANGED <<task, trig, delay, todo, request, later>>
  BY Zenon DEF TriggerPost, ppls
<1>2. request.list \in PplList /\ at \in 1 .. Len(request.list)
  BY <1>1 DEF TurnInv
<1>3. ThisPpl \in Ppl /\ Local /\ todo = {}
  BY <1>1, <1>2, HandlerPlace, Zenon DEF PplInv, TypeOK
<1>4. CASE later
  <2>1. /\ pc' = "wait" /\ result = "ok" /\ UNCHANGED <<at, result, delayed_reply>>
        /\ ThisPpl' = ThisPpl
    BY <1>1, <1>3, <1>4, Zenon DEF TriggerPost, TurnInv, ThisPpl
  <2>2. ASSUME NEW q \in Ppl, Pending(q)'
        PROVE  /\ later' /\ q = ThisPpl'
               /\ waited' + RunsNeeded(q)' <= WaitTicks + (IF q \in todo' THEN 1 ELSE 0)
    <3>1. Pending(q) /\ RunsNeeded(q)' = RunsNeeded(q)
      BY <1>1, <2>2, Zenon DEF Pending, RunsNeeded
    <3>2. /\ Delay[q] \in Nat /\ delay[q] \in 0 .. Delay[q] /\ WaitTicks \in Nat \ {0}
          /\ Delay[q] > 0 => Delay[q] + 2 <= WaitTicks
      BY DelayAssumption, Zenon DEF PplInv, TypeOK, Timely
    <3>3. RunsNeeded(q) \in Nat /\ RunsNeeded(q) <= WaitTicks
      BY <3>2 DEF RunsNeeded
    <3>4. later' /\ q = ThisPpl'
      BY <1>1, <1>4, <2>1, <3>1, Zenon DEF TurnInv
    <3> QED
      BY <1>1, <1>3, <3>1, <3>2, <3>3, <3>4
  <2>3. \A q \in Ppl : delay'[q] > 0 => trig'[q] \in Second
    BY <1>1, Zenon DEF TurnInv
  <2>4. delayed_reply' = IF trig'[ThisPpl'] = "none" THEN 0 ELSE 1
    BY <1>1, <1>4, <2>1, Zenon DEF TurnInv, TaskAnswered
  <2> QED
    BY <1>1, <1>2, <1>4, <2>1, <2>2, <2>3, <2>4, Zenon DEF TurnInv, TaskAnswered
<1>5. CASE ~later
  <2>1. \A q \in Ppl : ~Pending(q)
    BY <1>5, Zenon DEF TurnInv
  <2>2. delayed_reply = 1
    BY <1>1, <1>5, Zenon DEF TurnInv, TaskAnswered
  <2>3. delayed_reply' = 0 /\ Advance(result, "read", "final")
    BY <1>3, <1>5, <2>2 DEF TriggerPost
  <2>4. /\ request'.list \in PplList /\ at' \in 1 .. Len(request'.list)
        /\ pc' \in {"read", "final"} /\ (pc' = "final" \/ result' = "ok")
    BY <1>1, <1>2, <2>3, AdvancePlace, Zenon
  <2> QED
    BY <1>1, <2>1, <2>3, <2>4, QuietTurn, Zenon
<1> QED
  BY <1>4, <1>5, Zenon

\* The wait does not time out on a task that has a trigger to execute.
LEMMA WaitTurn ==
    ASSUME Timely, PplInv, TurnInv, WaitDone
    PROVE  TurnInv'
<1>1. /\ pc = "wait" /\ Idle(Home) /\ delayed_reply' = 0 /\ (delayed_reply = 0 \/ waited = WaitTicks)
      /\ UNCHANGED <<task, trig, delay, todo, request, later>>
      /\ Advance("ok", "read", "final") \/ Advance("error", "read", "final")
  BY Zenon DEF WaitDone, ppls
<1>2. request.list \in PplList /\ at \in 1 .. Len(request.list)
  BY <1>1, Zenon DEF TurnInv
<1>3. ThisPpl \in Ppl /\ todo = {}
  BY <1>1, <1>2, HandlerPlace, Zenon DEF PplInv, TypeOK
<1>4. /\ request'.list \in PplList /\ at' \in 1 .. Len(request'.list)
      /\ pc' \in {"read", "final"} /\ (pc' = "final" \/ result' = "ok")
  BY <1>1, <1>2, AdvancePlace, Zenon
<1>5. ASSUME NEW q \in Ppl, Pending(q) PROVE FALSE
  <2>1. q = ThisPpl /\ trig[q] # "none"
    BY <1>5, Zenon DEF TurnInv, Pending
  <2>2. delayed_reply = 1
    BY <1>1, <2>1, Zenon DEF TurnInv, TaskAnswered
  <2>3. waited + RunsNeeded(q) <= WaitTicks
    <3>1. waited + RunsNeeded(q) <= WaitTicks + (IF q \in todo THEN 1 ELSE 0)
      BY <1>1, <1>3, <1>5, Zenon DEF TurnInv
    <3> QED
      BY <1>3, <3>1, DelayAssumption
  <2>4. WaitTicks \in Nat /\ RunsNeeded(q) \in Nat \ {0}
    <3>1. Delay[q] \in Nat /\ delay[q] \in Nat /\ WaitTicks \in Nat
      BY DelayAssumption, Zenon DEF PplInv
    <3> QED
      BY <3>1 DEF RunsNeeded
  <2> QED
    BY <1>1, <2>2, <2>3, <2>4
<1> QED
  BY <1>1, <1>4, <1>5, QuietTurn, Zenon

LEMMA OtherTurn ==
    ASSUME Timely, PplInv, TurnInv, Request \/ FinalWait \/ Reply
    PROVE  TurnInv'
<1>1. /\ UNCHANGED <<task, trig, delay>> /\ pc \in {"idle", "final", "reply"}
      /\ pc' \in {"prepare", "reply", "idle"} /\ (pc' = "prepare" => result' = "ok")
  BY Zenon DEF Request, FinalWait, Reply, ppls
<1>2. \A q \in Ppl : ~Pending(q)
  BY <1>1, Zenon DEF TurnInv
<1>3. delayed_reply' = 0
  BY <1>1, Zenon DEF Request, FinalWait, Reply, compound, TurnInv
<1>4. CASE Request
  <2>1. request'.list \in PplList /\ at' = 1
    BY <1>4 DEF Request
  <2>2. at' \in 1 .. Len(request'.list)
    BY <2>1, ListType
  <2> QED
    BY <1>1, <1>2, <1>3, <2>1, <2>2, QuietTurn, Zenon
<1>5. CASE FinalWait \/ Reply
  <2>1. pc # "idle" /\ UNCHANGED <<request, at>>
    BY <1>5, Zenon DEF FinalWait, Reply
  <2> QED
    BY <1>1, <1>2, <1>3, <2>1, QuietTurn, Zenon DEF TurnInv
<1> QED
  BY <1>4, <1>5, Zenon

\* With all pipelines on one core, and delays the wait has time for, a task
\* executes a trigger only while the handler is with its pipeline, and the
\* handler never gives up on one that is still to be executed.
THEOREM TurnKept == ASSUME Timely PROVE Spec => []TurnInv
<1>1. Init => TurnInv
  <2> SUFFICES ASSUME Init PROVE TurnInv
    BY Zenon
  <2>1. pc = "idle" /\ delayed_reply = 0 /\ \A p \in Ppl : ~Pending(p) /\ ~(delay[p] > 0)
    BY DEF Init, Pending
  <2> QED
    BY <2>1, Zenon DEF TurnInv
<1>2. PplInv /\ TurnInv /\ [Next]_vars => TurnInv'
  <2> SUFFICES ASSUME PplInv, TurnInv, [Next]_vars PROVE TurnInv'
    BY Zenon
  <2>1. CASE UNCHANGED vars
    <3>1. /\ UNCHANGED <<task, trig, delay, todo, delayed_reply, request, pc, at, result, later, waited>>
      BY <2>1, Zenon DEF vars, ppls, compound, handler
    <3> QED
      BY <3>1, Zenon DEF TurnInv, Pending, TaskAnswered, ThisPpl, RunsNeeded
  <2>2. CASE Handler
    BY <2>2, PrepareTurn, ReadTurn, InlineTurn, ScheduleTurn, PostTurn, WaitTurn, OtherTurn, Zenon
       DEF Handler
  <2> QED
    BY <2>1, <2>2, TaskTurn, TickTurn, OtherTurn, Zenon DEF Next
<1> QED
  BY Invariance, <1>1, <1>2, PTL DEF Spec

\* A success is reported only when the triggers of all pipelines of the command
\* have been executed.
THEOREM RepliesHonest == ASSUME Timely PROVE Spec => []ReplyHonest
<1>1. TurnInv => ReplyHonest
  BY ListType, Zenon DEF TurnInv, ReplyHonest
<1> QED
  BY TurnKept, <1>1, PTL

\* The pipelines of a command are triggered one after the other.
THEOREM TriggeredInOrder == ASSUME Timely PROVE Spec => []TriggersInOrder
<1>1. TurnInv => TriggersInOrder
  <2> SUFFICES ASSUME TurnInv, pc \in {"read", "act"}, NEW i \in 1 .. at - 1
               PROVE  ~Pending(request.list[i])
    BY Zenon DEF TriggersInOrder
  <2>1. request.list \in PplList /\ at \in 1 .. Len(request.list)
    BY DEF TurnInv
  <2>2. i \in 1 .. Len(request.list)
    BY <2>1, ListType
  <2> QED
    BY <2>1, <2>2, ListType, Zenon DEF TurnInv
<1> QED
  BY TurnKept, <1>1, PTL

\* While the handler waits, the counter of ipc_compound_pre_start tells whether
\* the task has answered.
THEOREM CounterTrue == ASSUME Timely PROVE Spec => []CounterTells
<1>1. TurnInv => CounterTells
  BY Zenon DEF TurnInv, CounterTells, TaskAnswered
<1> QED
  BY TurnKept, <1>1, PTL

-----------------------------------------------------------------------------
(* What a walk along a chain does.                                         *)

\* The source of a chain is READY; a walk has not got past the source.
SourceReady(cs) == cs \in [1 .. N -> State] /\ cs[1] = "READY"
Refused(cmd, cs, w) ==
    /\ ~w.begun /\ w.result # "ok"
    /\ w.result = "error" => w.comp = cs
    /\ cmd # "PAUSE" \/ NoPause = {} => w.result = "error"

\* No trigger is accepted by a READY chain, unless its first component does not
\* support the pause.
LEMMA WalkRefused ==
    ASSUME NEW p, NEW cmd \in Trigger, NEW cs, NEW f, SourceReady(cs)
    PROVE  Refused(cmd, cs, Walk(p, cmd, cs, f))
<1> DEFINE holds == {i \in 1 .. N : cmd = "PAUSE" /\ <<p, i>> \in NoPause}
           ends == {i \in 1 .. N : i = f \/ i \in holds \/ ~Accepts(cmd, cs[i])}
           e == IF ends = {} THEN N + 1 ELSE Min(ends)
           c == [i \in 1 .. N |->
                    IF i = e /\ e \in holds THEN "ACTIVE"
                    ELSE IF i < e \/ (i = e /\ Accepts(cmd, cs[i])) THEN Requested[cmd]
                    ELSE cs[i]]
           r == IF e = N + 1 THEN "ok" ELSE IF e \in holds THEN "stop" ELSE "error"
<1>1. Walk(p, cmd, cs, f) = [comp |-> c, result |-> r, begun |-> e > 1]
  BY Zenon DEF Walk
<1>2. ~Accepts(cmd, cs[1])
  BY DEF Accepts, Expected, Requested, Trigger, SourceReady
<1>3. 1 \in ends
  BY <1>2, ChainAssumption
<1>4. e = 1
  <2>1. ends \subseteq 1 .. N
    BY Zenon
  <2> HIDE DEF ends
  <2>2. \A y \in ends : y \in Int /\ 1 <= y
    BY <2>1, ChainAssumption
  <2>3. Min(ends) = 1
    BY <1>3, <2>2 DEF Min
  <2> QED
    BY <1>3, <2>3, Zenon
<1> HIDE DEF e
<1>5. r # "ok" /\ (r = "error" => 1 \notin holds) /\ (cmd # "PAUSE" \/ NoPause = {} => r = "error")
  BY <1>4, ChainAssumption
<1>6. ASSUME r = "error" PROVE c = cs
  BY <1>2, <1>4, <1>5, <1>6 DEF SourceReady
<1>7. /\ Walk(p, cmd, cs, f).comp = c /\ Walk(p, cmd, cs, f).result = r
      /\ Walk(p, cmd, cs, f).begun = (e > 1)
  BY <1>1
<1> HIDE DEF c, r
<1>8. ~(e > 1)
  BY <1>4
<1> QED
  BY <1>5, <1>6, <1>7, <1>8, Zenon DEF Refused

\* Every component of a chain is in one state.
AllIn(cs, s) == \A i \in 1 .. N : cs[i] = s

\* A walk that every component has obeyed.
LEMMA WalkDone ==
    ASSUME NEW p, NEW cmd \in Trigger, NEW cs \in [1 .. N -> State], NEW f,
           Walk(p, cmd, cs, f).result = "ok"
    PROVE  /\ Walk(p, cmd, cs, f).begun
           /\ AllIn(Walk(p, cmd, cs, f).comp, Requested[cmd])
<1> DEFINE holds == {i \in 1 .. N : cmd = "PAUSE" /\ <<p, i>> \in NoPause}
           ends == {i \in 1 .. N : i = f \/ i \in holds \/ ~Accepts(cmd, cs[i])}
           e == IF ends = {} THEN N + 1 ELSE Min(ends)
           c == [i \in 1 .. N |->
                    IF i = e /\ e \in holds THEN "ACTIVE"
                    ELSE IF i < e \/ (i = e /\ Accepts(cmd, cs[i])) THEN Requested[cmd]
                    ELSE cs[i]]
           r == IF e = N + 1 THEN "ok" ELSE IF e \in holds THEN "stop" ELSE "error"
<1>1. Walk(p, cmd, cs, f) = [comp |-> c, result |-> r, begun |-> e > 1]
  BY Zenon DEF Walk
<1>2. holds \subseteq 1 .. N
  BY Zenon
<1> HIDE DEF e, holds
<1>3. e = N + 1
  <2>1. Walk(p, cmd, cs, f).result = r
    BY <1>1
  <2> QED
    BY <2>1, Zenon
<1>4. \A i \in 1 .. N : c[i] = Requested[cmd]
  BY <1>2, <1>3, ChainAssumption
<1>5. e > 1
  BY <1>3, ChainAssumption
<1>6. Walk(p, cmd, cs, f).comp = c /\ Walk(p, cmd, cs, f).begun = (e > 1)
  BY <1>1
<1> HIDE DEF c
<1> QED
  BY <1>4, <1>5, <1>6, Zenon DEF AllIn

\* A chain whose components all accept the command obeys it.
LEMMA WalkObeyed ==
    ASSUME NEW p, NEW cmd \in Trigger, NEW cs \in [1 .. N -> State],
           \A i \in 1 .. N : Accepts(cmd, cs[i]), NoPause = {}
    PROVE  Walk(p, cmd, cs, 0).result = "ok"
<1> DEFINE holds == {i \in 1 .. N : cmd = "PAUSE" /\ <<p, i>> \in NoPause}
           ends == {i \in 1 .. N : i = 0 \/ i \in holds \/ ~Accepts(cmd, cs[i])}
           e == IF ends = {} THEN N + 1 ELSE Min(ends)
<1>1. ends = {}
  <2>1. holds = {}
    BY Zenon
  <2> QED
    BY <2>1
<1> QED
  BY <1>1, Zenon DEF Walk

\* Nothing else than a component that does not support pause ends a walk with
\* "stop".
LEMMA WalkStops ==
    ASSUME NEW p, NEW cmd, NEW cs, NEW f, NoPause = {}
    PROVE  Walk(p, cmd, cs, f).result # "stop"
BY Zenon DEF Walk

-----------------------------------------------------------------------------
(* A READY pipeline has READY components.                                  *)

Smooth == NoPause = {} \/ "xrun" \notin Fault

LEMMA ResetRests ==
    ASSUME NEW cs \in [1 .. N -> State], NEW f
    PROVE  f = 0 \/ AllIn(cs, "READY") => AllIn(ResetChain(cs, f), "READY")
BY Zenon DEF AllIn, ResetChain

\* A step on one pipeline.
LEMMA OneRested ==
    ASSUME PplInv, ReadyInv, NEW p,
           NEW s, NEW cs, status' = [status EXCEPT ![p] = s], comp' = [comp EXCEPT ![p] = cs],
           p \in Ppl => (s \in {"INIT", "READY"} => AllIn(cs, "READY")),
           "xrun" \notin Fault => \A q \in Ppl : xrun'[q] => xrun[q]
    PROVE  ReadyInv'
<1>1. ASSUME NEW q \in Ppl
      PROVE  status'[q] \in {"INIT", "READY"} => \A i \in 1 .. N : comp'[q][i] = "READY"
  <2>1. CASE q = p
    <3>1. status'[q] = s /\ comp'[q] = cs
      BY <2>1, Zenon DEF PplInv, TypeOK
    <3> QED
      BY <2>1, <3>1, Zenon DEF AllIn
  <2>2. CASE q # p
    <3>1. status'[q] = status[q] /\ comp'[q] = comp[q]
      BY <2>2, Zenon DEF PplInv, TypeOK
    <3> QED
      BY <3>1, Zenon DEF ReadyInv
  <2> QED
    BY <2>1, <2>2, Zenon
<1> QED
  BY <1>1, Zenon DEF ReadyInv

LEMMA ResetReady ==
    ASSUME PplInv, ReadyInv, NEW p \in Ppl, NEW f, Reset(p, f),
           "xrun" \notin Fault => \A q \in Ppl : xrun'[q] => xrun[q]
    PROVE  ReadyInv'
<1> DEFINE s == IF f = 0 THEN "READY" ELSE status[p]
           cs == ResetChain(comp[p], f)
<1>1. status' = [status EXCEPT ![p] = s] /\ comp' = [comp EXCEPT ![p] = cs]
  BY Zenon DEF Reset
<1>2. f = 0 \/ AllIn(comp[p], "READY") => AllIn(cs, "READY")
  BY ResetRests, SMTT(30) DEF PplInv, TypeOK
<1>3. status[p] \in {"INIT", "READY"} => AllIn(comp[p], "READY")
  BY Zenon DEF ReadyInv, AllIn
<1> HIDE DEF cs
<1>4. s \in {"INIT", "READY"} => AllIn(cs, "READY")
  BY <1>2, <1>3, Zenon
<1> HIDE DEF s
<1> QED
  BY <1>1, <1>4, OneRested, Zenon

LEMMA TaskStartReady ==
    ASSUME PplInv, ReadyInv, NEW p \in Ppl, TaskStart(p)
    PROVE  ReadyInv'
<1> DEFINE pre == Final(trig[p]) # trig[p]
           w(f) == Walk(p, trig[p], comp[p], f)
           v(f, g) == IF pre /\ w(f).result = "ok" /\ Delay[p] = 0
                      THEN Walk(p, Final(trig[p]), w(f).comp, g) ELSE w(f)
<1>1. PICK f \in Failing(trig[p]), g \in Failing(Final(trig[p])) :
        /\ comp' = [comp EXCEPT ![p] = v(f, g).comp]
        /\ \/ UNCHANGED status
           \/ v(f, g).result = "ok" /\ status' = [status EXCEPT ![p] = "PRE_ACTIVE"]
           \/ v(f, g).result = "ok" /\ status' = [status EXCEPT ![p] = "ACTIVE"]
  BY Zenon DEF TaskStart, SecondStage
<1>2. /\ trig[p] \in Trigger /\ trig[p] # "PAUSE" /\ UNCHANGED xrun
      /\ comp[p] \in [1 .. N -> State]
  BY Zenon DEF TaskStart, Executes, PplInv, TypeOK
<1>3. ASSUME status[p] \in {"INIT", "READY"}
      PROVE  w(f).result = "error" /\ w(f).comp = comp[p] /\ AllIn(comp[p], "READY")
  <2>1. AllIn(comp[p], "READY")
    BY <1>3, Zenon DEF ReadyInv, AllIn
  <2>2. trig[p] \in Trigger /\ SourceReady(comp[p])
    BY <1>2, <2>1, ChainAssumption DEF AllIn, SourceReady
  <2>3. Refused(trig[p], comp[p], Walk(p, trig[p], comp[p], f))
    BY <2>2, WalkRefused, Zenon
  <2> QED
    BY <1>2, <2>1, <2>3, Zenon DEF Refused
<1> DEFINE cs == v(f, g).comp
<1>4. status[p] \in {"INIT", "READY"} => AllIn(cs, "READY")
  <2> HIDE DEF w
  <2> QED
    BY <1>3, Zenon
<1>5. comp' = [comp EXCEPT ![p] = cs]
  BY <1>1, Zenon
<1>6. PICK s : /\ status' = [status EXCEPT ![p] = s]
               /\ s = status[p] \/ s \notin {"INIT", "READY"}
  <2> HIDE DEF v
  <2>1. status = [status EXCEPT ![p] = status[p]]
    BY Zenon DEF PplInv, TypeOK
  <2> QED
    BY <1>1, <2>1
<1> HIDE DEF cs
<1> QED
  BY <1>2, <1>4, <1>5, <1>6, OneRested, Zenon

LEMMA TaskStopReady ==
    ASSUME PplInv, ReadyInv, NEW p \in Ppl,
           TaskPause(p) \/ TaskStop(p) \/ TaskStopFails(p) \/ TaskPauseAborted(p)
    PROVE  ReadyInv'
<1>1. /\ comp[p] \in [1 .. N -> State] /\ trig[p] \in Trigger /\ UNCHANGED xrun
  BY Zenon DEF TaskPause, TaskStop, TaskStopFails, TaskPauseAborted, Executes, PplInv, TypeOK
<1>2. SUFFICES \E s, cs : /\ status' = [status EXCEPT ![p] = s]
                          /\ comp' = [comp EXCEPT ![p] = cs]
                          /\ s \in {"INIT", "READY"} => AllIn(cs, "READY")
  <2>1. PICK s, cs : /\ status' = [status EXCEPT ![p] = s] /\ comp' = [comp EXCEPT ![p] = cs]
                     /\ s \in {"INIT", "READY"} => AllIn(cs, "READY")
    BY <1>2, Zenon
  <2> QED
    BY <1>1, <2>1, OneRested, Zenon
<1>3. CASE TaskPause(p) \/ TaskPauseAborted(p)
  <2> DEFINE cs == Walk(p, "PAUSE", comp[p], 0).comp
  <2>1. comp' = [comp EXCEPT ![p] = cs]
    BY <1>3, Zenon DEF TaskPause, TaskPauseAborted
  <2>2. \E s \in {"PAUSED", "ACTIVE"} : status' = [status EXCEPT ![p] = s]
    BY <1>3, Zenon DEF TaskPause, TaskPauseAborted
  <2> HIDE DEF cs
  <2> QED
    BY <2>1, <2>2, Zenon
<1>4. CASE TaskStop(p)
  <2> DEFINE w == Walk(p, "STOP", comp[p], 0)
  <2>1. PICK f \in Failing("RESET") :
          /\ comp' = [comp EXCEPT ![p] = ResetChain(w.comp, f)]
          /\ status' = [status EXCEPT ![p] = IF f = 0 THEN "READY" ELSE "PAUSED"]
    BY <1>4, Zenon DEF TaskStop
  <2>2. w.comp \in [1 .. N -> State]
    BY <1>1, WalkType, Zenon DEF Trigger
  <2> DEFINE cs == ResetChain(w.comp, f)
             s == IF f = 0 THEN "READY" ELSE "PAUSED"
  <2>3. f = 0 => AllIn(cs, "READY")
    BY <2>2, ResetRests, Zenon
  <2>4. status' = [status EXCEPT ![p] = s] /\ comp' = [comp EXCEPT ![p] = cs]
    BY <2>1, Zenon
  <2> HIDE DEF cs
  <2>5. s \in {"INIT", "READY"} => AllIn(cs, "READY")
    BY <2>3, Zenon
  <2> HIDE DEF s
  <2> QED
    BY <2>4, <2>5, Zenon
<1>5. CASE TaskStopFails(p)
  <2> DEFINE w(f) == Walk(p, trig[p], comp[p], f)
  <2>1. PICK f \in Failing(trig[p]) :
          /\ w(f).result = "error"
          /\ comp' = [comp EXCEPT ![p] = w(f).comp]
          /\ status' = [status EXCEPT ![p] = IF w(f).begun THEN "PAUSED" ELSE @]
    BY <1>5, Zenon DEF TaskStopFails
  <2> DEFINE s == IF w(f).begun THEN "PAUSED" ELSE status[p]
             cs == w(f).comp
  <2>2. ASSUME status[p] \in {"INIT", "READY"} PROVE AllIn(cs, "READY")
    <3>1. AllIn(comp[p], "READY")
      BY <2>2, Zenon DEF ReadyInv, AllIn
    <3>2. trig[p] \in Trigger /\ SourceReady(comp[p])
      BY <1>1, <3>1, ChainAssumption DEF AllIn, SourceReady
    <3>3. Refused(trig[p], comp[p], Walk(p, trig[p], comp[p], f))
      BY <3>2, WalkRefused, Zenon
    <3> QED
      BY <2>1, <3>1, <3>3, Zenon DEF Refused
  <2>3. status' = [status EXCEPT ![p] = s] /\ comp' = [comp EXCEPT ![p] = cs]
    BY <2>1, Zenon
  <2>4. s \in {"INIT", "READY"} => AllIn(cs, "READY")
    <3> HIDE DEF w, cs
    <3> QED
      BY <2>2, Zenon
  <2> HIDE DEF s, cs
  <2> QED
    BY <2>3, <2>4, Zenon
<1> QED
  BY <1>3, <1>4, <1>5, Zenon

LEMMA TaskReady ==
    ASSUME PplInv, ReadyInv, NEW p \in Ppl, Task(p)
    PROVE  ReadyInv'
<1>1. CASE TaskXrun(p) \/ TaskCopyFails(p) \/ TaskCopyXrun(p)
  <2>1. \E f \in Failing("RESET") : Reset(p, f)
    BY <1>1, Zenon DEF TaskXrun, TaskCopyFails, TaskCopyXrun
  <2>2. "xrun" \notin Fault => \A q \in Ppl : xrun'[q] => xrun[q]
    BY <1>1, Zenon DEF TaskXrun, TaskCopyFails, TaskCopyXrun
  <2> QED
    BY <2>1, <2>2, ResetReady, Zenon
<1>2. CASE TaskDelay(p) \/ TaskCopy(p)
  <2>1. UNCHANGED <<status, comp, xrun>>
    BY <1>2, Zenon DEF TaskDelay, TaskCopy
  <2> QED
    BY <2>1, Zenon DEF ReadyInv
<1> QED
  BY <1>1, <1>2, TaskStartReady, TaskStopReady, Zenon DEF Task

LEMMA PrepareReady ==
    ASSUME PplInv, ReadyInv, Prepare
    PROVE  ReadyInv'
<1>1. UNCHANGED xrun
  BY Zenon DEF Prepare, PrepareNot, PrepareComplete, PrepareParams, ppls
<1>2. CASE PrepareNot
  BY <1>2, Zenon DEF PrepareNot, ppls, ReadyInv
<1>3. CASE PrepareComplete
  <2> DEFINE s == "READY"
             cs == comp[ThisPpl]
  <2>1. status' = [status EXCEPT ![ThisPpl] = s] /\ comp' = [comp EXCEPT ![ThisPpl] = cs]
    BY <1>3, Zenon DEF PrepareComplete, PplInv, TypeOK
  <2>2. ThisPpl \in Ppl => AllIn(cs, "READY")
    BY <1>3, Zenon DEF PrepareComplete, ReadyInv, AllIn
  <2> HIDE DEF s, cs
  <2> QED
    BY <1>1, <2>1, <2>2, OneRested, Zenon
<1>4. CASE PrepareParams
  <2> DEFINE w(f) == Walk(ThisPpl, "PREPARE", comp[ThisPpl], f)
  <2>1. PICK f :
          \/ /\ comp' = [comp EXCEPT ![ThisPpl] = w(f).comp]
             /\ status' = [status EXCEPT ![ThisPpl] = "PREPARE"]
          \/ Reset(ThisPpl, 0)
    BY <1>4, Zenon DEF PrepareParams
  <2>2. CASE Reset(ThisPpl, 0)
    <3>1. CASE ThisPpl \in Ppl
      BY <1>1, <2>2, <3>1, ResetReady, Zenon
    <3>2. CASE ThisPpl \notin Ppl
      <4>1. status' = status /\ comp' = comp
        BY <2>2, <3>2 DEF Reset, PplInv, TypeOK
      <4> QED
        BY <1>1, <4>1, Zenon DEF ReadyInv
    <3> QED
      BY <3>1, <3>2
  <2>3. CASE /\ comp' = [comp EXCEPT ![ThisPpl] = w(f).comp]
             /\ status' = [status EXCEPT ![ThisPpl] = "PREPARE"]
    <3> DEFINE s == "PREPARE"
               cs == w(f).comp
    <3>1. status' = [status EXCEPT ![ThisPpl] = s] /\ comp' = [comp EXCEPT ![ThisPpl] = cs]
      BY <2>3, Zenon
    <3>2. s \notin {"INIT", "READY"}
      BY Zenon
    <3> HIDE DEF s, cs
    <3> QED
      BY <1>1, <3>1, <3>2, OneRested, Zenon
  <2> QED
    BY <2>1, <2>2, <2>3, Zenon
<1> QED
  BY <1>2, <1>3, <1>4, Zenon DEF Prepare

\* A pause the handler executes itself finds a READY pipeline only after an xrun.
LEMMA InlineReady ==
    ASSUME Smooth, PplInv, ReadyInv, TriggerInline
    PROVE  ReadyInv'
<1> DEFINE p == ThisPpl
           ignored == act = "STOP" /\ xrun[p] /\ status[p] = "PAUSED"
           w(f) == IF ignored THEN [comp |-> comp[p], result |-> "ok", begun |-> FALSE]
                   ELSE Walk(p, act, comp[p], f)
           stopped(f) == [status EXCEPT ![p] = IF w(f).begun THEN "PAUSED" ELSE @]
<1>1. PICK f \in Failing(act), g \in Failing("RESET") :
        \/ /\ w(f).result = "error" \/ act = "PAUSE"
           /\ comp' = [comp EXCEPT ![p] = w(f).comp] /\ status' = stopped(f)
        \/ /\ w(f).result # "error" /\ act = "STOP"
           /\ comp' = [comp EXCEPT ![p] = ResetChain(w(f).comp, g)]
           /\ status' = IF g = 0 THEN [status EXCEPT ![p] = "READY"] ELSE stopped(f)
  BY Zenon DEF TriggerInline
<1>2. /\ act \in Trigger /\ act \in {"PAUSE", "STOP"} /\ UNCHANGED xrun
      /\ status[p] = "PAUSED" \/ xrun[p]
  BY Zenon DEF TriggerInline, Inline, Runs, PplInv, Chosen
<1>3. p \in Ppl => comp[p] \in [1 .. N -> State] /\ w(f).comp \in [1 .. N -> State]
  BY <1>2, WalkType, Zenon DEF PplInv, TypeOK
<1>4. ASSUME p \in Ppl, status[p] \in {"INIT", "READY"}
      PROVE  /\ AllIn(w(f).comp, "READY") /\ ~w(f).begun /\ w(f).result = "error"
  <2>1. AllIn(comp[p], "READY") /\ NoPause = {}
    BY <1>2, <1>4, Zenon DEF ReadyInv, AllIn, Smooth
  <2>2. comp[p][1] = "READY" /\ ~ignored
    BY <1>4, <2>1, ChainAssumption DEF AllIn
  <2>3. w(f) = Walk(p, act, comp[p], f)
    BY <2>2, Zenon
  <2> HIDE DEF w
  <2>4. act \in Trigger /\ SourceReady(comp[p])
    BY <1>2, <1>3, <1>4, <2>2, Zenon DEF SourceReady
  <2>5. Refused(act, comp[p], Walk(p, act, comp[p], f))
    BY <2>4, WalkRefused, Zenon
  <2> QED
    BY <2>1, <2>3, <2>5, Zenon DEF Refused
<1> HIDE DEF w, p
<1>5. CASE /\ w(f).result = "error" \/ act = "PAUSE"
           /\ comp' = [comp EXCEPT ![p] = w(f).comp] /\ status' = stopped(f)
  <2> DEFINE s == IF w(f).begun THEN "PAUSED" ELSE status[p]
  <2>1. status' = [status EXCEPT ![p] = s]
    BY <1>5, Zenon
  <2>2. p \in Ppl => (s \in {"INIT", "READY"} => AllIn(w(f).comp, "READY"))
    BY <1>4, Zenon
  <2> HIDE DEF s
  <2> QED
    BY <1>2, <1>5, <2>1, <2>2, OneRested, Zenon
<1>6. CASE /\ w(f).result # "error"
           /\ comp' = [comp EXCEPT ![p] = ResetChain(w(f).comp, g)]
           /\ status' = IF g = 0 THEN [status EXCEPT ![p] = "READY"] ELSE stopped(f)
  <2> DEFINE s == IF g = 0 THEN "READY" ELSE IF w(f).begun THEN "PAUSED" ELSE status[p]
             cs == ResetChain(w(f).comp, g)
  <2>1. status' = [status EXCEPT ![p] = s] /\ comp' = [comp EXCEPT ![p] = cs]
    BY <1>6, Zenon
  <2>2. p \in Ppl => (g = 0 => AllIn(cs, "READY"))
    BY <1>3, ResetRests, Zenon
  <2> HIDE DEF cs
  <2>3. p \in Ppl => (s \in {"INIT", "READY"} => AllIn(cs, "READY"))
    BY <1>4, <1>6, <2>2, Zenon
  <2> HIDE DEF s
  <2> QED
    BY <1>2, <2>1, <2>3, OneRested, Zenon
<1> QED
  BY <1>1, <1>5, <1>6, Zenon

\* A pipeline that is not running, READY or not yet complete, has no component
\* in another state than READY, whatever fails and wherever it is interrupted;
\* on any cores.
THEOREM ReadyKept == ASSUME Smooth PROVE Spec => []ReadyInv
<1>1. Init => ReadyInv
  BY DEF Init, ReadyInv
<1>2. PplInv /\ ReadyInv /\ [Next]_vars => ReadyInv'
  <2> SUFFICES ASSUME PplInv, ReadyInv, [Next]_vars PROVE ReadyInv'
    BY Zenon
  <2>1. CASE UNCHANGED vars
    BY <2>1, Zenon DEF vars, ppls, ReadyInv
  <2>2. ASSUME NEW c, Tick(c) PROVE ReadyInv'
    BY <2>2, Zenon DEF Tick, ppls, ReadyInv
  <2>3. CASE Request \/ TriggerRead \/ TriggerPost \/ WaitDone \/ FinalWait \/ Reply
    BY <2>3, Zenon DEF Request, TriggerRead, TriggerPost, WaitDone, FinalWait, Reply, ppls, ReadyInv
  <2>4. CASE TriggerSchedule
    <3>1. UNCHANGED <<status, comp>> /\ \A q \in Ppl : xrun'[q] => xrun[q]
      <4>1. CASE act \in {"PRE_START", "PRE_RELEASE"}
        BY <2>4, <4>1, SMTT(30) DEF TriggerSchedule, PplInv, TypeOK
      <4>2. CASE act \notin {"PRE_START", "PRE_RELEASE"}
        BY <2>4, <4>2, Zenon DEF TriggerSchedule
      <4> QED
        BY <4>1, <4>2, Zenon
    <3> QED
      BY <3>1, Zenon DEF ReadyInv
  <2> QED
    BY <2>1, <2>2, <2>3, <2>4, TaskReady, PrepareReady, InlineReady, Zenon DEF Next, Handler
<1> QED
  BY Invariance, <1>1, <1>2, PTL DEF Spec

-----------------------------------------------------------------------------
(* What a command leaves behind.                                           *)

\* CommandInv for one pipeline of the command.
Served(i) ==
    /\ Admitted(i) => status[request.list[i]] \in Fit(request.cmd)
    /\ Handled(i) => status[request.list[i]] \in Done(request.cmd)

LEMMA CommandStep ==
    ASSUME pc' = "reply" /\ result' = "ok" => ~delayed_error',
           pc' = "act" => act' \in Uses(request'.cmd) \ Second,
           \A p \in Ppl : Pending(p)' => trig'[p] \in Uses(request'.cmd),
           Sound' => \A i \in DOMAIN request'.list : Served(i)'
    PROVE  CommandInv'
BY Zenon DEF CommandInv, Served

LEMMA CommandServes ==
    ASSUME CommandInv, Sound, NEW i \in DOMAIN request.list
    PROVE  Served(i)
BY Zenon DEF CommandInv, Served

\* A command names a pipeline once.
LEMMA OnePlace ==
    ASSUME request.list \in PplList, at \in 1 .. Len(request.list),
           NEW i \in 1 .. Len(request.list), request.list[i] = ThisPpl
    PROVE  i = at
BY ListType, Zenon DEF ThisPpl

LEMMA FitFacts ==
    ASSUME NEW cmd
    PROVE  Done(cmd) \subseteq Fit(cmd) /\ "READY" \in Done(cmd) /\ Fit(cmd) \subseteq State
BY Zenon DEF Done, Fit, State

\* A step of the handler that no trigger is pending at.
LEMMA NothingPending ==
    ASSUME TurnInv, pc \notin {"post", "wait"} \/ ~later, UNCHANGED <<task, trig>>
    PROVE  \A p \in Ppl : ~Pending(p)'
BY Zenon DEF TurnInv, Pending

\* What a run of the task that reports no error does to the state of its
\* pipeline.
TaskResult(p) ==
    \/ UNCHANGED trig /\ status'[p] \in {status[p], "READY"}
    \/ trig[p] \in Start /\ trig'[p] # "none" /\ status'[p] = "PRE_ACTIVE"
    \/ status'[p] \in Done(request.cmd)

LEMMA ErrorReported ==
    ASSUME NEW e, e = TRUE, MsgReply(e), delayed_reply = 1
    PROVE  delayed_error'
<1>1. delayed_reply # 0
  OBVIOUS
<1>2. delayed_error' = (delayed_error \/ e)
  BY <1>1, Zenon DEF MsgReply
<1> QED
  BY <1>2, Zenon

LEMMA TaskStartResult ==
    ASSUME PplInv, NEW p \in Ppl, TaskStart(p), delayed_reply = 1, ~delayed_error',
           trig[p] \in Uses(request.cmd)
    PROVE  TaskResult(p)
<1>1. \/ MsgReply(TRUE)
      \/ Final(trig[p]) # trig[p] /\ SecondStage(p)
      \/ status' = [status EXCEPT ![p] = "ACTIVE"]
  BY Zenon DEF TaskStart
<1>2. trig[p] \in Start \union Second /\ request.cmd = "RUNNING"
  BY Zenon DEF TaskStart, Executes, Uses, Start, Second, Trigger, PplInv, TypeOK
<1>3. ~MsgReply(TRUE)
  BY ErrorReported, Zenon
<1>4. CASE Final(trig[p]) # trig[p] /\ SecondStage(p)
  <2>1. trig[p] \in Start
    BY <1>2, <1>4 DEF Final, Start, Second
  <2>2. trig'[p] # "none" /\ status'[p] = "PRE_ACTIVE"
    BY <1>4, Zenon DEF SecondStage, Final, PplInv, TypeOK
  <2> QED
    BY <2>1, <2>2, Zenon DEF TaskResult
<1>5. CASE status' = [status EXCEPT ![p] = "ACTIVE"]
  BY <1>2, <1>5, Zenon DEF TaskResult, Done, PplInv, TypeOK
<1> QED
  BY <1>1, <1>3, <1>4, <1>5, Zenon

LEMMA TaskStopResult ==
    ASSUME PplInv, NEW p \in Ppl, delayed_reply = 1, ~delayed_error',
           TaskPause(p) \/ TaskStop(p) \/ TaskStopFails(p) \/ TaskPauseAborted(p),
           trig[p] \in Uses(request.cmd)
    PROVE  TaskResult(p)
<1>1. CASE TaskPause(p) \/ TaskPauseAborted(p)
  <2>1. trig[p] = "PAUSE" /\ status'[p] \in {"PAUSED", "ACTIVE"}
    BY <1>1, Zenon DEF TaskPause, TaskPauseAborted, PplInv, TypeOK
  <2> QED
    BY <2>1, Zenon DEF TaskResult, Uses, Done, Start, Second, State
<1>2. CASE TaskStop(p)
  <2>1. PICK f \in Failing("RESET") :
          /\ status' = [status EXCEPT ![p] = IF f = 0 THEN "READY" ELSE "PAUSED"]
          /\ MsgReply(f # 0)
    BY <1>2, Zenon DEF TaskStop
  <2>2. CASE f = 0
    <3>1. status'[p] = "READY"
      BY <2>1, <2>2 DEF PplInv, TypeOK
    <3> QED
      BY <3>1, FitFacts, Zenon DEF TaskResult
  <2>3. CASE f # 0
    <3>1. (f # 0) = TRUE
      BY <2>3, Zenon
    <3> QED
      BY <2>1, <3>1, ErrorReported, Zenon
  <2> QED
    BY <2>2, <2>3, Zenon
<1>3. CASE TaskStopFails(p)
  BY <1>3, ErrorReported, Zenon DEF TaskStopFails
<1> QED
  BY <1>1, <1>2, <1>3, Zenon

LEMMA TaskResults ==
    ASSUME Timely, PplInv, TurnInv, CommandInv, NEW p \in Ppl, Task(p)
    PROVE  /\ \A q \in Ppl \ {p} : status'[q] = status[q]
           /\ ~delayed_error' => ~delayed_error /\ TaskResult(p)
<1>1. \A q \in Ppl \ {p} : status'[q] = status[q]
  <2>1. UNCHANGED status \/ \E s : status' = [status EXCEPT ![p] = s]
    BY Zenon DEF Task, TaskXrun, TaskDelay, TaskStart, SecondStage, TaskPause, TaskStop,
       TaskStopFails, TaskPauseAborted, TaskCopy, TaskCopyFails, TaskCopyXrun, Reset
  <2> QED
    BY <2>1, Zenon DEF PplInv, TypeOK
<1>2. p \in todo /\ UNCHANGED handler
  BY TaskOutcome, Zenon DEF OnlyIts
<1>3. ASSUME trig[p] # "none"
      PROVE  delayed_reply = 1 /\ trig[p] \in Uses(request.cmd)
  <2>1. Pending(p)
    BY <1>2, <1>3 DEF PplInv, TodoHasTask, Pending
  <2> QED
    BY <1>3, <2>1, Zenon DEF TurnInv, TaskAnswered, CommandInv
<1>4. ASSUME ~delayed_error' PROVE TaskResult(p)
  <2>1. CASE TaskXrun(p) /\ trig[p] # "none"
    <3>1. MsgReply(TRUE) /\ delayed_reply = 1
      BY <1>3, <2>1, Zenon DEF TaskXrun
    <3> QED
      BY <1>4, <3>1, ErrorReported, Zenon
  <2>2. CASE (TaskXrun(p) /\ trig[p] = "none") \/ TaskCopyFails(p) \/ TaskCopyXrun(p)
    <3>1. UNCHANGED trig
      BY <2>2, Zenon DEF TaskXrun, TaskCopyFails, TaskCopyXrun, PplInv, TypeOK
    <3>2. PICK f : Reset(p, f)
      BY <2>2, Zenon DEF TaskXrun, TaskCopyFails, TaskCopyXrun
    <3>3. status'[p] \in {status[p], "READY"}
      BY <3>2, Zenon DEF Reset, PplInv, TypeOK
    <3> QED
      BY <3>1, <3>3, Zenon DEF TaskResult
  <2>3. CASE TaskDelay(p) \/ TaskCopy(p)
    BY <2>3 DEF TaskDelay, TaskCopy, TaskResult
  <2>4. CASE TaskStart(p)
    BY <1>3, <1>4, <2>4, TaskStartResult, Zenon DEF TaskStart, Executes
  <2>5. CASE TaskPause(p) \/ TaskStop(p) \/ TaskStopFails(p) \/ TaskPauseAborted(p)
    <3>1. trig[p] # "none"
      BY <2>5, Zenon DEF TaskPause, TaskStop, TaskStopFails, TaskPauseAborted, Executes
    <3> QED
      BY <1>3, <1>4, <2>5, <3>1, TaskStopResult, Zenon
  <2> QED
    BY <2>1, <2>2, <2>3, <2>4, <2>5, Zenon DEF Task
<1>5. ASSUME ~delayed_error' PROVE ~delayed_error
  <2>1. UNCHANGED compound \/ \E e : MsgReply(e)
    BY Zenon DEF Task, TaskXrun, TaskDelay, TaskStart, SecondStage, TaskPause, TaskStop,
       TaskStopFails, TaskPauseAborted, TaskCopy, TaskCopyFails, TaskCopyXrun
  <2> QED
    BY <1>5, <2>1, Zenon DEF MsgReply, compound
<1> QED
  BY <1>1, <1>4, <1>5, Zenon

LEMMA TaskCommand ==
    ASSUME Timely, PplInv, TurnInv, CommandInv, NEW p \in Ppl, Task(p)
    PROVE  CommandInv'
<1>1. Outcome(p) /\ OnlyIts(p)
  BY TaskOutcome, Zenon
<1>2. /\ \A q \in Ppl \ {p} : status'[q] = status[q]
      /\ ~delayed_error' => ~delayed_error /\ TaskResult(p)
  BY TaskResults, Zenon
<1>3. /\ ThisPpl' = ThisPpl /\ pc' = pc /\ act' = act /\ later' = later /\ result' = result
      /\ at' = at /\ request' = request
  BY <1>1, Zenon DEF OnlyIts, handler, ThisPpl
<1>4. \A q \in Ppl \ {p} : trig'[q] = trig[q] /\ task'[q] = task[q]
  BY <1>1, Zenon DEF OnlyIts, Outcome, Answers, Nothing, Postpones, CountsDown, PplInv, TypeOK
<1>5. pc' = "reply" /\ result' = "ok" => ~delayed_error'
  <2>1. CASE pc = "reply"
    <3>1. delayed_reply = 0 /\ ~Pending(p)
      BY <2>1, Zenon DEF TurnInv
    <3>2. trig[p] = "none"
      BY <1>1, <3>1, Zenon DEF OnlyIts, PplInv, TodoHasTask, Pending
    <3>3. delayed_error' = delayed_error
      BY <1>1, <3>2 DEF Outcome, Answers, Nothing, Postpones, CountsDown, Start, PplInv,
         DelayedStart, compound
    <3> QED
      BY <1>3, <3>3 DEF CommandInv
  <2> QED
    BY <1>3, <2>1, Zenon
<1>6. pc' = "act" => act' \in Uses(request'.cmd) \ Second
  BY <1>3, Zenon DEF CommandInv
<1>7. ASSUME NEW q \in Ppl, Pending(q)' PROVE trig'[q] \in Uses(request'.cmd)
  <2>1. CASE q # p
    <3>1. Pending(q)
      BY <1>4, <1>7, <2>1, Zenon DEF Pending
    <3> QED
      BY <1>3, <1>4, <2>1, <3>1 DEF CommandInv
  <2>2. CASE q = p
    <3>1. trig[p] # "none" /\ ~Answers(p)
      BY <1>1, <1>7, <2>2 DEF Outcome, Answers, Nothing, Postpones, CountsDown, Start, Pending,
         PplInv, TypeOK
    <3>2. trig[p] \in Uses(request.cmd)
      BY <1>1, <3>1, Zenon DEF OnlyIts, PplInv, TodoHasTask, Pending, CommandInv
    <3>3. trig'[p] = trig[p] \/ (trig[p] \in Start /\ trig'[p] \in Second)
      BY <1>1, <3>1, Zenon DEF Outcome, Nothing, Postpones, CountsDown, Final, Second, PplInv, TypeOK
    <3> QED
      BY <1>3, <2>2, <3>2, <3>3, Zenon DEF Uses, Start, Second
  <2> QED
    BY <2>1, <2>2, Zenon
<1>8. ASSUME Sound', NEW i \in DOMAIN request'.list PROVE Served(i)'
  <2> DEFINE q == request.list[i]
  <2>1. /\ request.list \in PplList /\ at \in 1 .. Len(request.list)
        /\ i \in 1 .. Len(request.list) /\ q \in Ppl
    BY <1>3, <1>8, ListType DEF Sound, TurnInv
  <2>2. Served(i) /\ TaskResult(p)
    BY <1>2, <1>3, <1>8, CommandServes, Zenon DEF Sound
  <2>3. Admitted(i)' = Admitted(i)
    BY <1>3, SMTT(20) DEF Admitted
  <2>4. CASE q # p \/ UNCHANGED trig
    <3>1. Handled(i)' = Handled(i)
      <4>1. i = at => ThisPpl = q
        BY DEF ThisPpl
      <4>2. i = at => trig'[ThisPpl] = trig[ThisPpl]
        BY <1>4, <2>1, <2>4, <4>1, Zenon
      <4> QED
        BY <1>3, <4>2, Zenon DEF Handled, TaskAnswered
    <3>2. status'[q] \in {status[q], "READY"} \/ status'[q] \in Done(request.cmd)
      <4>1. CASE q # p
        BY <1>2, <2>1, <4>1
      <4>2. CASE q = p /\ UNCHANGED trig
        <5>1. ~(trig[p] \in Start /\ trig'[p] # "none" /\ status'[p] = "PRE_ACTIVE")
              \/ status'[p] \in {status[p], "READY"}
          <6>1. ASSUME trig[p] \in Start PROVE status'[p] \in {status[p], "READY"}
            <7>1. Outcome(p) /\ ~Answers(p) /\ ~Nothing(p) /\ ~Postpones(p)
              BY <1>1, <4>2, <6>1, Zenon DEF Answers, Nothing, Postpones, Final, Start, PplInv, TypeOK
            <7>2. delay[p] > 0
              BY <7>1, Zenon DEF Outcome, CountsDown
            <7> QED
              BY <6>1, <7>2 DEF TurnInv, Start, Second
          <6> QED
            BY <6>1, Zenon
        <5> QED
          BY <2>2, <4>2, <5>1, Zenon DEF TaskResult
      <4> QED
        BY <2>4, <4>1, <4>2, Zenon
    <3> QED
      BY <1>3, <2>2, <2>3, <3>1, <3>2, FitFacts DEF Served
  <2>5. CASE q = p /\ trig' # trig
    <3>1. status'[p] \in Done(request.cmd)
          \/ (trig[p] \in Start /\ trig'[p] # "none" /\ status'[p] = "PRE_ACTIVE")
      BY <2>2, <2>5, Zenon DEF TaskResult
    <3>2. CASE status'[p] \in Done(request.cmd)
      BY <1>3, <2>5, <3>2, FitFacts, Zenon DEF Served
    <3>3. CASE trig[p] \in Start /\ trig'[p] # "none" /\ status'[p] = "PRE_ACTIVE"
      <4>1. Pending(p)
        BY <1>1, <3>3 DEF OnlyIts, PplInv, TodoHasTask, Pending, Start
      <4>2. /\ pc \in {"post", "wait"} /\ later /\ p = ThisPpl /\ request.cmd = "RUNNING"
        BY <3>3, <4>1, Zenon DEF TurnInv, CommandInv, Uses, Start
      <4>3. i = at
        BY <2>1, <2>5, <4>2, OnePlace, SMTT(20)
      <4>4. ~Handled(i)'
        BY <1>3, <2>1, <3>3, <4>2, <4>3 DEF Handled, TaskAnswered
      <4>5. status'[q] \in Fit(request.cmd)
        BY <2>5, <3>3, <4>2, Zenon DEF Fit, State
      <4> QED
        BY <1>3, <4>4, <4>5 DEF Served
    <3> QED
      BY <3>1, <3>2, <3>3
  <2> QED
    BY <2>4, <2>5
<1> QED
  BY <1>5, <1>6, <1>7, <1>8, CommandStep

\* A pass that ends without an error.
LEMMA AdvanceOk ==
    ASSUME NEW res, NEW loop, NEW after, Advance(res, loop, after), result' = "ok"
    PROVE  /\ res = "ok"
           /\ \/ pc' = loop /\ at' = at + 1 /\ at < Len(request.list)
              \/ pc' = after /\ at' = 1 /\ at = Len(request.list)
BY Zenon DEF Advance

\* A pipeline the prepare phase accepts is fit for the command.
LEMMA PrepareFits ==
    ASSUME PplInv, Prepare, result' = "ok", ThisPpl \in Ppl
    PROVE  /\ status'[ThisPpl] \in Fit(request.cmd) /\ Prepared("ok")
           /\ \A q \in Ppl : q # ThisPpl => status'[q] = status[q]
<1>1. status[ThisPpl] \in State /\ request.cmd \in Command
  BY Zenon DEF PplInv, TypeOK, Chosen
<1>2. ~Prepared("error")
  BY Zenon DEF Prepared, Advance
<1>3. CASE PrepareNot
  BY <1>1, <1>2, <1>3, Zenon DEF PrepareNot, Fit, Command, ppls
<1>4. CASE PrepareComplete
  BY <1>4 DEF PrepareComplete, Fit, State, PplInv, TypeOK
<1>5. CASE PrepareParams
  <2>1. status' = [status EXCEPT ![ThisPpl] = "PREPARE"] /\ Prepared("ok")
    BY <1>2, <1>5, Zenon DEF PrepareParams
  <2>2. request.cmd = "RUNNING"
    BY <1>5, Zenon DEF PrepareParams
  <2> QED
    BY <2>1, <2>2, Zenon DEF Fit, State, PplInv, TypeOK
<1> QED
  BY <1>3, <1>4, <1>5, Zenon DEF Prepare

LEMMA PrepareCommand ==
    ASSUME Timely, PplInv, TurnInv, CommandInv, Prepare
    PROVE  CommandInv'
<1>1. pc = "prepare" /\ UNCHANGED <<task, trig>> /\ \E res : Prepared(res)
  BY Zenon DEF Prepare, PrepareNot, PrepareComplete, PrepareParams, Runs, ppls
<1>2. PICK res : Prepared(res)
  BY <1>1, Zenon
<1>3. UNCHANGED <<request, delayed_error>> /\ pc' \in {"prepare", "read", "final"}
  BY <1>2, Zenon DEF Prepared, Advance, compound
<1>4. \A p \in Ppl : ~Pending(p)'
  BY <1>1, NothingPending, Zenon
<1>5. ASSUME Sound', NEW i \in DOMAIN request'.list PROVE Served(i)'
  <2>1. /\ request.list \in PplList /\ at \in 1 .. Len(request.list)
        /\ i \in 1 .. Len(request.list) /\ request.list[i] \in Ppl /\ result = "ok"
    BY <1>1, <1>3, <1>5, ListType DEF TurnInv
  <2>2. ThisPpl \in Ppl
    BY <2>1, ListType, Zenon DEF ThisPpl
  <2>3. Served(i)
    BY <1>1, <1>3, <1>5, <2>1, CommandServes, Zenon DEF Sound
  <2>4. /\ status'[ThisPpl] \in Fit(request.cmd)
        /\ \A q \in Ppl : q # ThisPpl => status'[q] = status[q]
        /\ Prepared("ok")
    BY <1>5, <2>2, PrepareFits DEF Sound
  <2>5. \/ pc' = "prepare" /\ at' = at + 1
        \/ pc' = "read" /\ at' = 1 /\ at = Len(request.list)
    BY <1>5, <2>4, AdvanceOk, Zenon DEF Sound, Prepared
  <2>6. ~Handled(i)' /\ (Admitted(i)' => i <= at)
    BY <2>1, <2>5 DEF Handled, Admitted
  <2>7. CASE i = at
    BY <1>3, <2>4, <2>6, <2>7 DEF Served, ThisPpl
  <2>8. CASE i < at
    <3>1. Admitted(i)
      BY <1>1, <2>8 DEF Admitted
    <3>2. request.list[i] # ThisPpl
      BY <2>1, <2>8, OnePlace
    <3>3. status'[request.list[i]] \in Fit(request.cmd)
      BY <2>1, <2>3, <2>4, <3>1, <3>2, Zenon DEF Served
    <3> QED
      BY <1>3, <2>6, <3>3, Zenon DEF Served
  <2>9. CASE i > at
    <3>1. ~Admitted(i)'
      BY <2>1, <2>6, <2>9
    <3> QED
      BY <2>6, <3>1, Zenon DEF Served
  <2> QED
    BY <2>1, <2>7, <2>8, <2>9, SMTT(20)
<1> QED
  BY <1>3, <1>4, <1>5, CommandStep, Zenon

\* What ipc4_pipeline_trigger chooses.
LEMMA ChoiceFits ==
    ASSUME NEW cmd \in Command, NEW st \in State
    PROVE  /\ Choice(cmd, st) \in (Uses(cmd) \ Second) \union {"none", "refuse"}
           /\ Choice(cmd, st) = "none" /\ st \in Fit(cmd) => st \in Done(cmd)
BY Zenon DEF Choice, Command, State, Uses, Start, Second, Fit, Done

LEMMA ReadCommand ==
    ASSUME Timely, PplInv, TurnInv, CommandInv, TriggerRead
    PROVE  CommandInv'
<1>1. /\ pc = "read" /\ UNCHANGED <<status, task, trig, request, delayed_error, at>>
      /\ act' = Choice(request.cmd, status[ThisPpl]) /\ ~later'
      /\ pc' = IF act' \in {"none", "refuse"} THEN "post" ELSE "act"
      /\ result' = IF act' = "refuse" THEN "error" ELSE "ok"
  BY DEF TriggerRead, Runs, ppls
<1>2. request.list \in PplList /\ at \in 1 .. Len(request.list) /\ result = "ok"
  BY <1>1, Zenon DEF TurnInv
<1>3. /\ ThisPpl \in Ppl /\ status[ThisPpl] \in State /\ request.cmd \in Command
  BY <1>2, HandlerPlace, Zenon DEF PplInv, TypeOK, Chosen
<1>4. \A p \in Ppl : ~Pending(p)'
  BY <1>1, NothingPending
<1>5. pc' = "act" => act' \in Uses(request'.cmd) \ Second
  BY <1>1, <1>3, ChoiceFits, Zenon
<1>6. ASSUME Sound', NEW i \in DOMAIN request'.list PROVE Served(i)'
  <2>1. Served(i) /\ i \in 1 .. Len(request.list)
    BY <1>1, <1>2, <1>6, CommandServes, ListType DEF Sound
  <2>2. status[request.list[i]] \in Fit(request.cmd)
    BY <1>1, <2>1, Zenon DEF Served, Admitted
  <2>3. CASE Handled(i)' /\ ~(i < at)
    <3>1. i = at /\ pc' = "post" /\ act' = "none"
      BY <1>1, <1>6, <2>3 DEF Handled, Sound
    <3>2. request.list[i] = ThisPpl
      BY <3>1 DEF ThisPpl
    <3>3. status[ThisPpl] \in Done(request.cmd)
      BY <1>1, <1>3, <2>2, <3>1, <3>2, ChoiceFits, Zenon
    <3> QED
      BY <1>1, <2>2, <3>2, <3>3, Zenon DEF Served
  <2>4. CASE i < at
    <3>1. Handled(i)
      BY <1>1, <2>4, Zenon DEF Handled
    <3> QED
      BY <1>1, <2>1, <2>2, <3>1 DEF Served
  <2>5. CASE ~Handled(i)'
    BY <1>1, <2>2, <2>5, Zenon DEF Served
  <2> QED
    BY <2>3, <2>4, <2>5, Zenon
<1> QED
  BY <1>1, <1>4, <1>5, <1>6, CommandStep, Zenon

LEMMA InlineCommand ==
    ASSUME Timely, PplInv, TurnInv, CommandInv, TriggerInline
    PROVE  CommandInv'
<1>1. /\ pc = "act" /\ pc' = "post" /\ UNCHANGED <<task, trig, request, delayed_error, at, later>>
      /\ act \in {"PAUSE", "STOP"}
  BY Zenon DEF TriggerInline, Inline, Runs, compound
<1>2. request.list \in PplList /\ at \in 1 .. Len(request.list) /\ result = "ok" /\ ~later
  BY <1>1, Zenon DEF TurnInv
<1>3. ThisPpl \in Ppl
  BY <1>2, HandlerPlace DEF PplInv, TypeOK
<1>4. \A p \in Ppl : ~Pending(p)'
  BY <1>1, NothingPending, Zenon
<1>5. act \in Uses(request.cmd)
  BY <1>1, Zenon DEF CommandInv
<1>6. /\ \A q \in Ppl : q # ThisPpl => status'[q] = status[q]
      /\ status'[ThisPpl] \in {status[ThisPpl], "PAUSED", "READY"}
      /\ result' = "ok" /\ act = "STOP" => status'[ThisPpl] = "READY"
  <2> DEFINE p == ThisPpl
             ignored == act = "STOP" /\ xrun[p] /\ status[p] = "PAUSED"
             w(f) == IF ignored THEN [comp |-> comp[p], result |-> "ok", begun |-> FALSE]
                     ELSE Walk(p, act, comp[p], f)
             s(f) == IF w(f).begun THEN "PAUSED" ELSE status[p]
  <2>1. PICK f \in Failing(act), g \in Failing("RESET") :
          \/ /\ w(f).result = "error" \/ act = "PAUSE"
             /\ status' = [status EXCEPT ![p] = s(f)]
             /\ result' = IF w(f).result = "error" THEN "error" ELSE "ok"
          \/ /\ status' = IF g = 0 THEN [status EXCEPT ![p] = "READY"]
                                    ELSE [status EXCEPT ![p] = s(f)]
             /\ result' = IF g = 0 THEN "ok" ELSE "error"
    BY Zenon DEF TriggerInline
  <2> HIDE DEF w, p
  <2>2. s(f) \in {status[p], "PAUSED"}
    BY Zenon
  <2> HIDE DEF s
  <2>3. p \in Ppl
    BY <1>3 DEF p
  <2>4. /\ \A q \in Ppl : q # p => status'[q] = status[q]
        /\ status'[p] \in {status[p], "PAUSED", "READY"}
        /\ result' = "ok" /\ act = "STOP" => status'[p] = "READY"
    BY <1>1, <2>1, <2>2, <2>3 DEF PplInv, TypeOK
  <2> QED
    BY <2>4, Zenon DEF p
<1>7. ASSUME Sound', NEW i \in DOMAIN request'.list PROVE Served(i)'
  <2>1. /\ Served(i) /\ i \in 1 .. Len(request.list) /\ request.list[i] \in Ppl
    BY <1>1, <1>2, <1>7, CommandServes, ListType DEF Sound
  <2>2. status[request.list[i]] \in Fit(request.cmd)
    BY <1>1, <2>1, Zenon DEF Served, Admitted
  <2>3. CASE i = at
    <3>1. request.list[i] = ThisPpl
      BY <2>3 DEF ThisPpl
    <3>2. CASE act = "STOP"
      BY <1>1, <1>6, <1>7, <3>1, <3>2, FitFacts DEF Served, Sound
    <3>3. CASE act = "PAUSE"
      <4>1. Fit(request.cmd) = State \ {"INIT"} /\ Done(request.cmd) = State \ {"INIT"}
        BY <1>5, <3>3 DEF Uses, Start, Second, Fit, Done
      <4>2. status'[ThisPpl] \in State \ {"INIT"}
        BY <1>6, <2>2, <3>1, <4>1 DEF State
      <4> QED
        BY <1>1, <3>1, <4>1, <4>2, Zenon DEF Served
    <3> QED
      BY <1>1, <3>2, <3>3, Zenon
  <2>4. CASE i # at
    <3>1. request.list[i] # ThisPpl
      BY <1>2, <2>1, <2>4, OnePlace
    <3>2. Handled(i)' => Handled(i)
      BY <1>1, <2>4, Zenon DEF Handled
    <3> QED
      BY <1>1, <1>6, <2>1, <2>2, <3>1, <3>2, Zenon DEF Served
  <2> QED
    BY <2>3, <2>4, Zenon
<1> QED
  BY <1>1, <1>4, <1>7, CommandStep

LEMMA ScheduleCommand ==
    ASSUME Timely, PplInv, TurnInv, CommandInv, TriggerSchedule
    PROVE  CommandInv'
<1>1. /\ pc = "act" /\ pc' = "post" /\ later' /\ ThisPpl' = ThisPpl
      /\ trig' = [trig EXCEPT ![ThisPpl] = act]
      /\ UNCHANGED <<status, request, delayed_error, at, result>>
  BY DEF TriggerSchedule, Runs, compound, ThisPpl
<1>2. /\ \A p \in Ppl : ~Pending(p)
      /\ request.list \in PplList /\ at \in 1 .. Len(request.list) /\ result = "ok"
  BY <1>1 DEF TurnInv
<1>3. ThisPpl \in Ppl /\ act \in Trigger /\ act # "none" /\ act \in Uses(request.cmd)
  BY <1>1, <1>2, HandlerPlace, Zenon DEF PplInv, TypeOK, Chosen, Trigger, CommandInv
<1>4. ASSUME NEW q \in Ppl, Pending(q)' PROVE trig'[q] \in Uses(request'.cmd)
  <2>1. CASE q = ThisPpl
    BY <1>1, <1>3, <2>1 DEF PplInv, TypeOK
  <2>2. CASE q # ThisPpl
    <3>1. trig'[q] = trig[q] /\ task'[q] = task[q]
      BY <2>2 DEF TriggerSchedule, PplInv, TypeOK
    <3> QED
      BY <1>2, <1>4, <3>1, Zenon DEF Pending
  <2> QED
    BY <2>1, <2>2
<1>5. ASSUME Sound', NEW i \in DOMAIN request'.list PROVE Served(i)'
  <2>1. Served(i) /\ i \in 1 .. Len(request.list)
    BY <1>1, <1>2, <1>5, CommandServes, ListType, Zenon DEF Sound
  <2>2. trig'[ThisPpl] # "none"
    BY <1>1, <1>3 DEF PplInv, TypeOK
  <2>3. Handled(i)' => Handled(i)
    BY <1>1, <2>2, Zenon DEF Handled, TaskAnswered
  <2>4. Admitted(i)
    BY <1>1, Zenon DEF Admitted
  <2> QED
    BY <1>1, <2>1, <2>3, <2>4, Zenon DEF Served
<1> QED
  BY <1>1, <1>4, <1>5, CommandStep, Zenon

\* After a pass that ends without an error the handler is done with the
\* pipelines up to this one.
LEMMA PassServed ==
    ASSUME request.list \in PplList, at \in 1 .. Len(request.list), UNCHANGED <<status, request>>,
           pc \in {"post", "wait"}, later => TaskAnswered,
           NEW res, Advance(res, "read", "final"), result' = "ok",
           NEW i \in DOMAIN request.list, Served(i)
    PROVE  Served(i)'
<1>1. i \in 1 .. Len(request.list) /\ at \in Nat
  <2>1. Len(request.list) \in Nat \ {0} /\ DOMAIN request.list = 1 .. Len(request.list)
    BY ListType, Zenon
  <2> QED
    BY <2>1
<1>2. \/ pc' = "read" /\ at' = at + 1
      \/ pc' = "final" /\ at' = 1 /\ at = Len(request.list)
  BY AdvanceOk, Zenon
<1>3. Admitted(i) /\ (Handled(i)' => i <= at)
  BY <1>1, <1>2 DEF Admitted, Handled
<1>4. i <= at => Handled(i)
  BY <1>1 DEF Handled
<1> QED
  BY <1>3, <1>4, Zenon DEF Served

LEMMA PostCommand ==
    ASSUME Timely, PplInv, TurnInv, CommandInv, TriggerPost
    PROVE  CommandInv'
<1>1. /\ pc = "post" /\ UNCHANGED <<status, task, trig, request, later, delayed_error>>
      /\ pc' \in {"read", "wait", "final"}
  BY Zenon DEF TriggerPost, Advance, ppls
<1>2. request.list \in PplList /\ at \in 1 .. Len(request.list)
  BY <1>1 DEF TurnInv
<1>3. ThisPpl \in Ppl /\ Local
  BY <1>2, HandlerPlace, Zenon DEF PplInv, TypeOK
<1>4. \A p \in Ppl : Pending(p)' => trig'[p] \in Uses(request'.cmd)
  BY <1>1, Zenon DEF Pending, CommandInv
<1>5. ASSUME Sound', NEW i \in DOMAIN request'.list PROVE Served(i)'
  <2>1. CASE later
    <3>1. pc' = "wait" /\ UNCHANGED <<at, result>> /\ ThisPpl' = ThisPpl
      BY <1>1, <1>3, <2>1, Zenon DEF TriggerPost, ThisPpl
    <3>2. Served(i)
      BY <1>1, <1>5, <3>1, CommandServes DEF Sound
    <3>3. Admitted(i) /\ (Handled(i)' => Handled(i))
      BY <1>1, <3>1 DEF Admitted, Handled, TaskAnswered
    <3> QED
      BY <1>1, <3>2, <3>3, Zenon DEF Served
  <2>2. CASE ~later
    <3>1. Advance(result, "read", "final")
      BY <2>2 DEF TriggerPost
    <3>2. result = "ok" /\ result' = "ok"
      BY <1>5, <3>1, Zenon DEF Advance, Sound
    <3>3. Served(i)
      BY <1>1, <1>5, <3>2, CommandServes, Zenon DEF Sound
    <3> QED
      BY <1>1, <1>2, <1>5, <2>2, <3>1, <3>2, <3>3, PassServed, Zenon
  <2> QED
    BY <2>1, <2>2
<1> QED
  BY <1>1, <1>4, <1>5, CommandStep, Zenon

LEMMA WaitCommand ==
    ASSUME Timely, PplInv, TurnInv, CommandInv, WaitDone
    PROVE  CommandInv'
<1>1. /\ pc = "wait" /\ UNCHANGED <<status, task, trig, request, later, delayed_error>>
      /\ pc' \in {"read", "final"}
  BY Zenon DEF WaitDone, Advance, ppls
<1>2. request.list \in PplList /\ at \in 1 .. Len(request.list) /\ result = "ok" /\ later
  BY <1>1, Zenon DEF TurnInv
<1>3. \A p \in Ppl : Pending(p)' => trig'[p] \in Uses(request'.cmd)
  BY <1>1 DEF Pending, CommandInv
<1>4. ASSUME Sound', NEW i \in DOMAIN request'.list PROVE Served(i)'
  <2>1. delayed_reply = 0 /\ Advance("ok", "read", "final") /\ result' = "ok"
    BY <1>4, Zenon DEF WaitDone, Advance, Sound
  <2>2. TaskAnswered
    BY <1>1, <2>1 DEF TurnInv
  <2>3. Served(i)
    BY <1>1, <1>2, <1>4, CommandServes DEF Sound
  <2> QED
    BY <1>1, <1>2, <1>4, <2>1, <2>2, <2>3, PassServed
<1> QED
  BY <1>1, <1>3, <1>4, CommandStep

LEMMA OtherCommand ==
    ASSUME Timely, PplInv, TurnInv, CommandInv, Request \/ FinalWait \/ Reply
    PROVE  CommandInv'
<1>1. /\ pc \in {"idle", "final", "reply"} /\ UNCHANGED <<status, task, trig>>
      /\ pc' \in {"prepare", "reply", "idle"}
  BY Zenon DEF Request, FinalWait, Reply, ppls
<1>2. \A p \in Ppl : ~Pending(p)'
  BY <1>1, NothingPending, Zenon
<1>3. CASE Request
  <2>1. pc' = "prepare" /\ at' = 1 /\ request'.list \in PplList
    BY <1>3 DEF Request
  <2>2. ASSUME NEW i \in DOMAIN request'.list PROVE Served(i)'
    <3>1. i \in 1 .. Len(request'.list)
      BY <2>1, <2>2, ListType
    <3>2. ~Admitted(i)' /\ ~Handled(i)'
      BY <2>1, <3>1 DEF Admitted, Handled
    <3> QED
      BY <3>2, Zenon DEF Served
  <2> QED
    BY <1>2, <2>1, <2>2, CommandStep
<1>4. CASE FinalWait
  <2>1. /\ pc = "final" /\ pc' = "reply" /\ UNCHANGED <<request, delayed_error>>
        /\ result' = "ok" => ~delayed_error /\ result = "ok"
    BY <1>4, Zenon DEF FinalWait
  <2>2. ASSUME Sound', NEW i \in DOMAIN request'.list PROVE Served(i)'
    <3>1. Served(i)
      BY <2>1, <2>2, CommandServes, Zenon DEF Sound
    <3>2. Handled(i) /\ ~Admitted(i)'
      BY <2>1, Zenon DEF Handled, Admitted
    <3> QED
      BY <1>1, <2>1, <3>1, <3>2 DEF Served
  <2>3. pc' = "reply" /\ result' = "ok" => ~delayed_error'
    BY <2>1
  <2> QED
    BY <1>2, <2>1, <2>2, <2>3, CommandStep, Zenon
<1>5. CASE Reply
  <2>1. pc' = "idle"
    BY <1>5, Zenon DEF Reply
  <2> QED
    BY <1>2, <2>1, CommandStep, Zenon DEF Sound
<1> QED
  BY <1>3, <1>4, <1>5, Zenon

\* A step that changes neither the handler nor the pipelines.
LEMMA SameCommand ==
    ASSUME CommandInv,
           UNCHANGED <<status, task, trig, delayed_error, request, pc, at, act, result, later>>
    PROVE  CommandInv'
BY Zenon DEF CommandInv, Pending, Sound, Admitted, Handled, TaskAnswered, ThisPpl

\* With all pipelines on one core, and delays the wait has time for, a command
\* without an error on record leaves the pipelines it has handled in the state
\* it asks for, or READY, whatever else fails.
THEOREM CommandKept == ASSUME Timely PROVE Spec => []CommandInv
<1>1. Init => CommandInv
  <2> SUFFICES ASSUME Init PROVE CommandInv
    OBVIOUS
  <2>1. pc = "idle" /\ \A p \in Ppl : ~Pending(p)
    BY DEF Init, Pending
  <2> QED
    BY <2>1, Zenon DEF CommandInv, Sound
<1>2. PplInv /\ TurnInv /\ CommandInv /\ [Next]_vars => CommandInv'
  <2> SUFFICES ASSUME PplInv, TurnInv, CommandInv, [Next]_vars PROVE CommandInv'
    BY Zenon
  <2>1. CASE UNCHANGED vars
    BY <2>1, SameCommand DEF vars, ppls, compound, handler
  <2>2. ASSUME NEW c, Tick(c) PROVE CommandInv'
    BY <2>2, SameCommand DEF Tick, ppls, compound
  <2>3. CASE Handler
    BY <2>3, PrepareCommand, ReadCommand, InlineCommand, ScheduleCommand, PostCommand,
       WaitCommand, OtherCommand, Zenon DEF Handler
  <2> QED
    BY <2>1, <2>2, <2>3, TaskCommand, OtherCommand, Zenon DEF Next
<1> QED
  BY Invariance, TurnKept, <1>1, <1>2, PTL DEF Spec

\* A RESET that is answered with success has made every component of every
\* pipeline of the command READY.
THEOREM ResetReached == ASSUME Timely, Smooth PROVE Spec => []ResetMeansReady
<1>1. TurnInv /\ CommandInv /\ ReadyInv => ResetMeansReady
  <2> SUFFICES ASSUME TurnInv, CommandInv, ReadyInv,
                      pc = "reply" /\ result = "ok" /\ request.cmd = "RESET",
                      NEW i \in DOMAIN request.list
               PROVE  /\ status[request.list[i]] = "READY"
                      /\ \A j \in 1 .. N : comp[request.list[i]][j] = "READY"
    BY Zenon DEF ResetMeansReady
  <2>1. status[request.list[i]] = "READY"
    BY CommandServes DEF CommandInv, Sound, Served, Handled, Done
  <2>2. request.list[i] \in Ppl
    BY ListType DEF TurnInv
  <2> QED
    BY <2>1, <2>2, Zenon DEF ReadyInv
<1> QED
  BY TurnKept, CommandKept, ReadyKept, <1>1, PTL

-----------------------------------------------------------------------------
(* An ACTIVE pipeline runs.                                                *)

\* Every component supports pause, and pause, stop and reset do not fail.
Obedient == NoPause = {} /\ Fault \cap {"PAUSE", "STOP", "RESET"} = {}

\* ActiveInv for one pipeline.
Lively(p) ==
    /\ status[p] = "ACTIVE" => task[p] /\ AllIn(comp[p], "ACTIVE")
    /\ trig[p] \in Start \union Second => task[p]
    /\ trig[p] \in Start => status[p] \in {"READY", "PREPARE", "PAUSED"}
    /\ trig[p] \in Second => status[p] = "PRE_ACTIVE"

LEMMA ActiveForm ==
    ActiveInv <=> /\ \A p \in Ppl : Lively(p)
                  /\ pc = "act" /\ act \in Start => status[ThisPpl] \in {"READY", "PREPARE", "PAUSED"}
BY Zenon DEF ActiveInv, Lively, AllIn

LEMMA LivelySame ==
    ASSUME NEW q, Lively(q), status'[q] = status[q], comp'[q] = comp[q], trig'[q] = trig[q],
           task[q] => task'[q]
    PROVE  Lively(q)'
BY Zenon DEF Lively, AllIn

\* Once its trigger is gone only an ACTIVE pipeline has obligations.
LEMMA LivelyDone ==
    ASSUME NEW q, trig'[q] = "none", status'[q] # "ACTIVE"
    PROVE  Lively(q)'
BY Zenon DEF Lively, Start, Second

LEMMA NoFailure ==
    ASSUME Obedient, NEW cmd \in {"PAUSE", "STOP", "RESET"}, NEW f \in Failing(cmd)
    PROVE  f = 0
BY Zenon DEF Obedient, Failing

\* An active chain obeys a pause or a stop.
LEMMA ActiveObeys ==
    ASSUME Obedient, NEW p, NEW cmd \in {"PAUSE", "STOP"}, NEW cs \in [1 .. N -> State],
           AllIn(cs, "ACTIVE")
    PROVE  Walk(p, cmd, cs, 0).result = "ok"
<1>1. \A i \in 1 .. N : Accepts(cmd, cs[i])
  BY DEF AllIn, Accepts, Expected
<1> QED
  BY <1>1, WalkObeyed, Zenon DEF Obedient, Trigger

LEMMA TaskStartLively ==
    ASSUME PplInv, NEW p \in Ppl, Lively(p), TaskStart(p)
    PROVE  Lively(p)'
<1> DEFINE pre == Final(trig[p]) # trig[p]
           w(f) == Walk(p, trig[p], comp[p], f)
           v(f, g) == IF pre /\ w(f).result = "ok" /\ Delay[p] = 0
                      THEN Walk(p, Final(trig[p]), w(f).comp, g) ELSE w(f)
<1>1. PICK f \in Failing(trig[p]), g \in Failing(Final(trig[p])) :
        /\ comp' = [comp EXCEPT ![p] = v(f, g).comp]
        /\ \/ trig' = [trig EXCEPT ![p] = "none"] /\ UNCHANGED status
           \/ SecondStage(p)
           \/ /\ v(f, g).result = "ok" /\ (pre => Delay[p] = 0)
              /\ status' = [status EXCEPT ![p] = "ACTIVE"]
              /\ trig' = [trig EXCEPT ![p] = "none"] /\ UNCHANGED task
  BY Zenon DEF TaskStart
<1>2. /\ trig[p] \in Trigger /\ trig[p] \in Start \union Second /\ task[p]
      /\ comp[p] \in [1 .. N -> State]
  BY Zenon DEF TaskStart, Executes, Trigger, Start, Second, PplInv, TypeOK, TodoHasTask
<1>3. CASE trig' = [trig EXCEPT ![p] = "none"] /\ UNCHANGED status
  <2>1. trig'[p] = "none" /\ status'[p] # "ACTIVE"
    BY <1>2, <1>3, Zenon DEF Lively, PplInv, TypeOK
  <2> QED
    BY <2>1, LivelyDone, Zenon
<1>4. CASE SecondStage(p)
  <2>1. trig'[p] \in Second /\ status'[p] = "PRE_ACTIVE"
    BY <1>4 DEF SecondStage, Final, Second, PplInv, TypeOK
  <2>2. task'[p]
    BY <1>2, <1>4, Zenon DEF SecondStage, Reschedule
  <2> QED
    BY <2>1, <2>2, Zenon DEF Lively, Start, Second
<1>5. CASE /\ v(f, g).result = "ok" /\ (pre => Delay[p] = 0)
           /\ status' = [status EXCEPT ![p] = "ACTIVE"]
           /\ trig' = [trig EXCEPT ![p] = "none"] /\ UNCHANGED task
  <2>1. AllIn(v(f, g).comp, "ACTIVE")
    <3>1. CASE pre
      <4>1. v(f, g) = Walk(p, Final(trig[p]), w(f).comp, g)
        <5> HIDE DEF w, pre
        <5> QED
          BY <1>5, <3>1, Zenon
      <4>2. w(f).comp \in [1 .. N -> State]
        BY <1>2, WalkType, Zenon
      <4> HIDE DEF v, w
      <4>3. Final(trig[p]) \in Trigger
        BY FinalType, Zenon
      <4>4. Walk(p, Final(trig[p]), w(f).comp, g).result = "ok"
        BY <1>5, <4>1, Zenon
      <4>5. AllIn(Walk(p, Final(trig[p]), w(f).comp, g).comp, Requested[Final(trig[p])])
        BY <4>2, <4>3, <4>4, WalkDone, Zenon
      <4> QED
        BY <4>1, <4>5, FinalRequests, Zenon
    <3>2. CASE ~pre
      <4>1. v(f, g) = w(f) /\ trig[p] = Final(trig[p])
        <5> HIDE DEF w
        <5> QED
          BY <3>2, Zenon
      <4> HIDE DEF v
      <4>2. Walk(p, trig[p], comp[p], f).result = "ok"
        BY <1>5, <4>1, Zenon
      <4>3. AllIn(Walk(p, trig[p], comp[p], f).comp, Requested[trig[p]])
        BY <1>2, <4>2, WalkDone, Zenon
      <4>4. Requested[trig[p]] = "ACTIVE"
        BY <4>1, FinalRequests, Zenon
      <4> QED
        BY <4>1, <4>3, <4>4, Zenon
    <3> QED
      BY <3>1, <3>2, Zenon
  <2>2. comp'[p] = v(f, g).comp /\ trig'[p] = "none"
    BY <1>1, <1>5, Zenon DEF PplInv, TypeOK
  <2>3. task'[p]
    BY <1>2, <1>5, Zenon
  <2> HIDE DEF v
  <2>4. AllIn(comp'[p], "ACTIVE")
    BY <2>1, <2>2, Zenon
  <2> QED
    BY <2>2, <2>3, <2>4, Zenon DEF Lively, AllIn, Start, Second
<1> QED
  BY <1>1, <1>3, <1>4, <1>5, Zenon

LEMMA TaskStopLively ==
    ASSUME Obedient, PplInv, NEW p \in Ppl, Lively(p),
           TaskPause(p) \/ TaskStop(p) \/ TaskStopFails(p) \/ TaskPauseAborted(p)
    PROVE  Lively(p)'
<1>1. /\ comp[p] \in [1 .. N -> State] /\ trig'[p] = "none"
  BY Zenon DEF TaskPause, TaskStop, TaskStopFails, TaskPauseAborted, PplInv, TypeOK
<1>2. SUFFICES status'[p] # "ACTIVE"
  BY <1>1, LivelyDone, Zenon
<1>3. CASE TaskPause(p)
  BY <1>3, Zenon DEF TaskPause, PplInv, TypeOK
<1>4. CASE TaskStop(p)
  BY <1>4, Zenon DEF TaskStop, PplInv, TypeOK
<1>5. CASE TaskStopFails(p)
  <2> DEFINE w(f) == Walk(p, trig[p], comp[p], f)
  <2>1. PICK f \in Failing(trig[p]) :
          /\ w(f).result = "error"
          /\ status' = [status EXCEPT ![p] = IF w(f).begun THEN "PAUSED" ELSE @]
    BY <1>5, Zenon DEF TaskStopFails
  <2>2. trig[p] \in {"PAUSE", "STOP"} /\ f = 0
    BY <1>5, NoFailure DEF TaskStopFails
  <2>3. ~AllIn(comp[p], "ACTIVE")
    BY <1>1, <2>1, <2>2, ActiveObeys, Zenon
  <2>4. status[p] # "ACTIVE"
    BY <2>3, Zenon DEF Lively
  <2> HIDE DEF w
  <2> QED
    BY <2>1, <2>4, Zenon DEF PplInv, TypeOK
<1>6. CASE TaskPauseAborted(p)
  BY <1>6, WalkStops DEF TaskPauseAborted, Obedient
<1> QED
  BY <1>3, <1>4, <1>5, <1>6

LEMMA TaskLively ==
    ASSUME Obedient, PplInv, NEW p \in Ppl, Lively(p), Task(p)
    PROVE  Lively(p)'
<1>1. CASE TaskXrun(p) \/ TaskCopyFails(p) \/ TaskCopyXrun(p)
  <2>1. trig'[p] = "none"
    BY <1>1, Zenon DEF TaskXrun, TaskCopyFails, TaskCopyXrun, Copies, PplInv, TypeOK
  <2>2. Reset(p, 0)
    BY <1>1, NoFailure, Zenon DEF TaskXrun, TaskCopyFails, TaskCopyXrun
  <2>3. status'[p] = "READY"
    BY <2>2, Zenon DEF Reset, PplInv, TypeOK
  <2> QED
    BY <2>1, <2>3, LivelyDone, Zenon
<1>2. CASE TaskDelay(p)
  BY <1>2, LivelySame, Zenon DEF TaskDelay
<1>3. CASE TaskCopy(p)
  <2>1. UNCHANGED <<status, comp, trig>> /\ trig[p] = "none"
    BY <1>3, Zenon DEF TaskCopy, Copies
  <2>2. CASE status[p] = "PAUSED"
    BY <2>1, <2>2, LivelyDone, Zenon
  <2>3. CASE status[p] # "PAUSED"
    BY <1>3, <2>1, <2>3, LivelySame, Zenon DEF TaskCopy, Reschedule
  <2> QED
    BY <2>2, <2>3
<1> QED
  BY <1>1, <1>2, <1>3, TaskStartLively, TaskStopLively, Zenon DEF Task

\* A run of the task that finds no trigger resets its pipeline or leaves it
\* as it is.
LEMMA IdleRun ==
    ASSUME PplInv, NEW p \in Ppl, Task(p), trig[p] = "none"
    PROVE  status'[p] \in {status[p], "READY"}
<1>1. UNCHANGED status \/ \E f : Reset(p, f)
  BY Zenon DEF Task, TaskXrun, TaskDelay, TaskStart, Executes, TaskPause, TaskStop,
     TaskStopFails, TaskPauseAborted, TaskCopy, TaskCopyFails, TaskCopyXrun
<1> QED
  BY <1>1 DEF Reset, PplInv, TypeOK

LEMMA TaskActive ==
    ASSUME Obedient, PplInv, TurnInv, ActiveInv, NEW p \in Ppl, Task(p)
    PROVE  ActiveInv'
<1>1. Outcome(p) /\ OnlyIts(p)
  BY TaskOutcome
<1>2. ASSUME NEW q \in Ppl, q # p
      PROVE  /\ status'[q] = status[q] /\ comp'[q] = comp[q]
             /\ trig'[q] = trig[q] /\ task'[q] = task[q]
  <2>1. /\ UNCHANGED status \/ \E s : status' = [status EXCEPT ![p] = s]
        /\ UNCHANGED comp \/ \E cs : comp' = [comp EXCEPT ![p] = cs]
    BY Zenon DEF Task, TaskXrun, TaskDelay, TaskStart, SecondStage, TaskPause, TaskStop,
       TaskStopFails, TaskPauseAborted, TaskCopy, TaskCopyFails, TaskCopyXrun, Reset
  <2>2. status'[q] = status[q] /\ comp'[q] = comp[q]
    BY <1>2, <2>1 DEF PplInv, TypeOK
  <2>3. trig'[q] = trig[q] /\ task'[q] = task[q]
    BY <1>1, <1>2, Zenon DEF OnlyIts, Outcome, Answers, Nothing, Postpones, CountsDown, PplInv, TypeOK
  <2> QED
    BY <2>2, <2>3, Zenon
<1>3. ASSUME NEW q \in Ppl PROVE Lively(q)'
  BY <1>2, ActiveForm, LivelySame, TaskLively, Zenon
<1>4. /\ pc' = pc /\ act' = act /\ ThisPpl' = ThisPpl /\ request' = request /\ at' = at
  BY <1>1 DEF OnlyIts, handler, ThisPpl
<1>5. ASSUME pc' = "act", act' \in Start
      PROVE  status'[ThisPpl] \in {"READY", "PREPARE", "PAUSED"}
  <2>1. status[ThisPpl] \in {"READY", "PREPARE", "PAUSED"}
    BY <1>4, <1>5 DEF ActiveInv
  <2>2. ThisPpl \in Ppl
    BY <1>4, <1>5, ListType DEF TurnInv, ThisPpl
  <2>3. trig[p] = "none"
    BY <1>1, <1>4, <1>5, Zenon DEF OnlyIts, TurnInv, PplInv, TodoHasTask, Pending
  <2> QED
    BY <1>2, <2>1, <2>2, <2>3, IdleRun, Zenon
<1> QED
  BY <1>3, <1>4, <1>5, ActiveForm, Zenon DEF ActiveInv, Lively, AllIn

\* Without a trigger that a task will execute, none starts a pipeline.
LEMMA NoStart ==
    ASSUME ActiveInv, NEW p \in Ppl, ~Pending(p)
    PROVE  trig[p] \notin Start \union Second
BY DEF ActiveInv, Pending, Start, Second

LEMMA PrepareActive ==
    ASSUME PplInv, TurnInv, ActiveInv, Prepare
    PROVE  ActiveInv'
<1>1. pc = "prepare" /\ UNCHANGED <<task, trig>> /\ pc' # "act"
  BY Zenon DEF Prepare, PrepareNot, PrepareComplete, PrepareParams, Prepared, Advance, Runs, ppls
<1>2. ASSUME NEW q \in Ppl
      PROVE  \/ status'[q] = status[q] /\ comp'[q] = comp[q]
             \/ status'[q] \in {"READY", "PREPARE"}
  <2>1. CASE PrepareNot
    BY <2>1, Zenon DEF PrepareNot, ppls
  <2>2. CASE PrepareComplete
    BY <2>2, Zenon DEF PrepareComplete, PplInv, TypeOK
  <2>3. CASE PrepareParams
    <3>1. \/ Reset(ThisPpl, 0)
          \/ /\ \E cs : comp' = [comp EXCEPT ![ThisPpl] = cs]
             /\ status' = [status EXCEPT ![ThisPpl] = "PREPARE"]
      BY <2>3, Zenon DEF PrepareParams
    <3> QED
      BY <3>1 DEF Reset, PplInv, TypeOK
  <2> QED
    BY <2>1, <2>2, <2>3 DEF Prepare
<1>3. ASSUME NEW q \in Ppl PROVE Lively(q)'
  <2>1. CASE status'[q] = status[q] /\ comp'[q] = comp[q]
    BY <1>1, <2>1, ActiveForm, LivelySame, SMTT(20)
  <2>2. CASE status'[q] \in {"READY", "PREPARE"}
    <3>1. trig'[q] \notin Start \union Second
      BY <1>1, NoStart, Zenon DEF TurnInv
    <3> QED
      BY <2>2, <3>1 DEF Lively
  <2> QED
    BY <1>2, <2>1, <2>2, Zenon
<1> QED
  BY <1>1, <1>3 DEF ActiveInv, Lively, AllIn

LEMMA ReadActive ==
    ASSUME PplInv, TurnInv, ActiveInv, TriggerRead
    PROVE  ActiveInv'
<1>1. /\ pc = "read" /\ UNCHANGED <<status, comp, task, trig>> /\ ThisPpl' = ThisPpl
      /\ act' = Choice(request.cmd, status[ThisPpl])
  BY DEF TriggerRead, Runs, ppls, ThisPpl
<1>2. ThisPpl \in Ppl /\ status[ThisPpl] \in State /\ request.cmd \in Command
  BY <1>1, ListType, Zenon DEF TurnInv, ThisPpl, PplInv, TypeOK, Chosen
<1>3. act' \in Start => status[ThisPpl] \in {"READY", "PREPARE", "PAUSED"}
  BY <1>1, <1>2 DEF Choice, Start, State, Command
<1> QED
  BY <1>1, <1>3, Zenon DEF ActiveInv

\* The handler stops or pauses a pipeline itself that has an xrun; if it is
\* ACTIVE it obeys.
LEMMA InlineActive ==
    ASSUME Obedient, PplInv, TurnInv, ActiveInv, TriggerInline
    PROVE  ActiveInv'
<1>1. /\ pc = "act" /\ pc' = "post" /\ UNCHANGED <<task, trig>> /\ act \in {"PAUSE", "STOP"}
  BY Zenon DEF TriggerInline, Inline, Runs
<1> DEFINE p == ThisPpl
           ignored == act = "STOP" /\ xrun[p] /\ status[p] = "PAUSED"
           w(f) == IF ignored THEN [comp |-> comp[p], result |-> "ok", begun |-> FALSE]
                   ELSE Walk(p, act, comp[p], f)
           s(f) == IF w(f).begun THEN "PAUSED" ELSE status[p]
<1>2. PICK f \in Failing(act), g \in Failing("RESET") :
        \/ /\ \E cs : comp' = [comp EXCEPT ![p] = cs]
           /\ status' = [status EXCEPT ![p] = s(f)]
        \/ /\ \E cs : comp' = [comp EXCEPT ![p] = cs]
           /\ status' = IF g = 0 THEN [status EXCEPT ![p] = "READY"]
                                  ELSE [status EXCEPT ![p] = s(f)]
  BY Zenon DEF TriggerInline
<1>3. f = 0 /\ p \in Ppl
  BY <1>1, NoFailure, ListType DEF TurnInv, ThisPpl
<1>4. ASSUME status[p] = "ACTIVE" PROVE s(f) = "PAUSED"
  <2>1. comp[p] \in [1 .. N -> State] /\ AllIn(comp[p], "ACTIVE") /\ ~ignored
    BY <1>3, <1>4 DEF ActiveInv, AllIn, PplInv, TypeOK
  <2>2. Walk(p, act, comp[p], 0).result = "ok"
    BY <1>1, <2>1, ActiveObeys, Zenon
  <2>3. Walk(p, act, comp[p], 0).begun
    BY <1>1, <2>1, <2>2, WalkDone, ZenonT(30) DEF Trigger
  <2>4. w(f) = Walk(p, act, comp[p], 0)
    BY <1>3, <2>1
  <2> HIDE DEF w
  <2> QED
    BY <2>3, <2>4, Zenon
<1>5. s(f) # "ACTIVE"
  <2>1. s(f) = "PAUSED" \/ s(f) = status[p]
    <3> HIDE DEF w
    <3> QED
      BY Zenon
  <2> HIDE DEF s
  <2> QED
    BY <1>4, <2>1, Zenon
<1> HIDE DEF s, p
<1>6. ASSUME NEW q \in Ppl PROVE Lively(q)'
  <2>1. CASE q # p
    <3>1. status'[q] = status[q] /\ comp'[q] = comp[q]
      BY <1>2, <2>1, Zenon DEF PplInv, TypeOK
    <3> QED
      BY <1>1, <3>1, ActiveForm, LivelySame
  <2>2. CASE q = p
    <3>1. status'[q] # "ACTIVE"
      BY <1>2, <1>3, <1>5, <2>2 DEF PplInv, TypeOK
    <3>2. trig'[q] \notin Start \union Second
      BY <1>1, NoStart, Zenon DEF TurnInv
    <3> QED
      BY <3>1, <3>2, Zenon DEF Lively
  <2> QED
    BY <2>1, <2>2, SMTT(20)
<1> QED
  BY <1>1, <1>6, Zenon DEF ActiveInv, Lively, AllIn

LEMMA ScheduleActive ==
    ASSUME PplInv, TurnInv, CommandInv, ActiveInv, TriggerSchedule
    PROVE  ActiveInv'
<1>1. /\ pc = "act" /\ pc' = "post" /\ UNCHANGED <<status, comp>>
      /\ trig' = [trig EXCEPT ![ThisPpl] = act] /\ act \notin Second
  BY Zenon DEF TriggerSchedule, Runs, CommandInv
<1>2. \A q \in Ppl : task[q] => task'[q]
  <2>1. CASE act \in Start
    BY <2>1, SMTT(30) DEF TriggerSchedule, Start, PplInv, TypeOK
  <2>2. CASE act \notin Start
    BY <2>2, Zenon DEF TriggerSchedule, Start
  <2> QED
    BY <2>1, <2>2, Zenon
<1>3. ASSUME NEW q \in Ppl PROVE Lively(q)'
  <2>1. CASE q # ThisPpl
    <3>1. trig'[q] = trig[q]
      BY <1>1, <2>1 DEF PplInv, TypeOK
    <3> QED
      BY <1>1, <1>2, <3>1, ActiveForm, LivelySame, Zenon
  <2>2. CASE q = ThisPpl
    <3>1. trig'[q] = act /\ Lively(q)
      BY <1>1, <2>2, ActiveForm, SMTT(20) DEF PplInv, TypeOK
    <3>2. act \in Start => status[q] \in {"READY", "PREPARE", "PAUSED"}
      BY <1>1, <2>2 DEF ActiveInv
    <3>3. act \in Start => task'[q]
      BY <2>2, Zenon DEF TriggerSchedule, Start, PplInv, TypeOK
    <3> QED
      BY <1>1, <1>2, <3>1, <3>2, <3>3, Zenon DEF Lively, AllIn
  <2> QED
    BY <2>1, <2>2, Zenon
<1> QED
  BY <1>1, <1>3 DEF ActiveInv, Lively, AllIn

\* The other steps leave the pipelines alone and choose no trigger.
LEMMA OtherActive ==
    ASSUME ActiveInv, UNCHANGED ppls,
           pc' # "act" \/ UNCHANGED <<pc, act, at, request>>
    PROVE  ActiveInv'
BY Zenon DEF ActiveInv, ppls, ThisPpl

\* With all pipelines on one core, delays the wait has time for, and components
\* that obey, a pipeline is ACTIVE only while its task is scheduled and all its
\* components are active, whatever starts, copies and xruns do.
THEOREM ActiveKept == ASSUME Timely, Obedient PROVE Spec => []ActiveInv
<1>1. Init => ActiveInv
  BY Zenon DEF Init, ActiveInv, Start, Second
<1>2. PplInv /\ TurnInv /\ CommandInv /\ ActiveInv /\ [Next]_vars => ActiveInv'
  <2> SUFFICES ASSUME PplInv, TurnInv, CommandInv, ActiveInv, [Next]_vars PROVE ActiveInv'
    BY Zenon
  <2>1. CASE UNCHANGED vars
    BY <2>1, OtherActive, Zenon DEF vars, handler
  <2>2. ASSUME NEW c, Tick(c) PROVE ActiveInv'
    BY <2>2, OtherActive DEF Tick
  <2>3. CASE Request \/ TriggerPost \/ WaitDone \/ FinalWait \/ Reply
    <3>1. UNCHANGED ppls /\ pc' # "act"
      BY <2>3, Zenon DEF Request, TriggerPost, WaitDone, Advance, FinalWait, Reply
    <3> QED
      BY <3>1, OtherActive, Zenon
  <2> QED
    BY <2>1, <2>2, <2>3, TaskActive, PrepareActive, ReadActive, InlineActive, ScheduleActive
       DEF Next, Handler
<1> QED
  BY Invariance, TurnKept, CommandKept, <1>1, <1>2, PTL DEF Spec

\* An ACTIVE pipeline has its task on the list of the LL scheduler.
THEOREM ActiveScheduled == ASSUME Timely, Obedient PROVE Spec => []ActiveIsScheduled
<1>1. ActiveInv => ActiveIsScheduled
  BY Zenon DEF ActiveInv, ActiveIsScheduled
<1> QED
  BY ActiveKept, <1>1, PTL

\* A RUNNING that is answered with success has started every component of every
\* pipeline of the command, unless an error has reset the pipeline since.
THEOREM RunningReached == ASSUME Timely, Obedient PROVE Spec => []RunningMeansActive
<1>1. TurnInv /\ CommandInv /\ ActiveInv => RunningMeansActive
  <2> SUFFICES ASSUME TurnInv, CommandInv, ActiveInv,
                      pc = "reply" /\ result = "ok" /\ request.cmd = "RUNNING",
                      NEW i \in DOMAIN request.list
               PROVE  \/ status[request.list[i]] = "READY"
                      \/ /\ status[request.list[i]] = "ACTIVE"
                         /\ \A j \in 1 .. N : comp[request.list[i]][j] = "ACTIVE"
    BY DEF RunningMeansActive
  <2>1. status[request.list[i]] \in {"READY", "ACTIVE"}
    BY CommandServes, Zenon DEF CommandInv, Sound, Served, Handled, Done
  <2>2. request.list[i] \in Ppl
    BY ListType, Zenon DEF TurnInv
  <2> QED
    BY <2>1, <2>2, SMTT(20) DEF ActiveInv
<1> QED
  BY TurnKept, CommandKept, ActiveKept, <1>1, PTL
=============================================================================
