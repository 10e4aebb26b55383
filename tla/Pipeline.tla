------------------------------ MODULE Pipeline ------------------------------
(***************************************************************************)
(* IPC4 SET_PIPELINE_STATE: the handler of the command                     *)
(* (src/src/ipc/ipc4/handler.c) and the timer-driven pipelines it prepares *)
(* and triggers (src/src/audio/pipeline/pipeline-*.c).                     *)
(*                                                                         *)
(* The handler leaves a trigger with the pipeline and waits until the      *)
(* pipeline's task, in an LL cycle, has executed it and has replied.  A    *)
(* command names several pipelines, on one or on several cores.  On one    *)
(* core the LL thread runs to its end before any other thread goes on, so  *)
(* a task's run is atomic for the handler of its core; the handler is      *)
(* preempted between any two of its accesses to a pipeline.                *)
(*                                                                         *)
(* A pipeline is a chain of components 1 .. N, the host's end first.       *)
(* Trigger and reset walk it from 1, copy from N.                          *)
(***************************************************************************)
EXTENDS Integers, Sequences, FiniteSetsExt

CONSTANTS Ppl,        \* the pipelines
          N,          \* components of a pipeline
          None,       \* no pipeline
          Core,       \* p->core of each pipeline
          IpcCore,    \* the core that receives the commands of the host
          Upstream,   \* the pipeline that feeds a pipeline, or None
          Delay,      \* start delay of each pipeline's DAI in periods
          WaitTicks,  \* LL periods in the 30 sleeps of the wait, 7
          NoPause,    \* components <<p, i>> that do not support pause
          Fault       \* what may fail: a trigger, "COMPLETE", "PREPARE", "RESET",
                      \* "copy", "xrun"

ASSUME PplAssumption == IsFiniteSet(Ppl) /\ None \notin Ppl
ASSUME ChainAssumption == N \in Nat \ {0} /\ NoPause \subseteq Ppl \X (1 .. N)
ASSUME UpstreamAssumption ==
    /\ Upstream \in [Ppl -> Ppl \union {None}]
    /\ \A p \in Ppl : Upstream[p] # None => Upstream[Upstream[p]] = None
ASSUME DelayAssumption == Delay \in [Ppl -> Nat] /\ WaitTicks \in Nat \ {0}

Command == {"RUNNING", "PAUSED", "RESET"}
State == {"INIT", "READY", "PREPARE", "PRE_ACTIVE", "ACTIVE", "PAUSED"}
Trigger == {"PRE_START", "START", "PRE_RELEASE", "RELEASE", "PAUSE", "STOP"}

VARIABLES
    status,         \* p->status
    comp,           \* the state of every component of a pipeline
    task,           \* p->pipe_task is on the list of the LL scheduler
    trig,           \* p->trigger.cmd, or "none"
    delay,          \* p->trigger.delay
    xrun,           \* p->xrun_bytes # 0
    todo,           \* pipelines the current LL cycle of their core has yet to run
    delayed_reply,  \* msg_data.delayed_reply
    delayed_error,  \* msg_data.delayed_error # 0
    request,        \* the command being handled and its pipelines
    pc,             \* the handler: "idle", in the "prepare" phase, at the three
                    \* parts of a trigger ("read", "act", "post"), in the "wait"
                    \* for it, in the "final" wait, at its "reply"
    at,             \* index of the pipeline being handled
    act,            \* the trigger chosen for it
    result,         \* the handler's result: "ok" or "error"
    later,          \* the trigger was left with the task
    waited          \* LL periods since the wait began

ppls == <<status, comp, task, trig, delay, xrun>>
compound == <<delayed_reply, delayed_error>>
handler == <<request, pc, at, act, result, later, waited>>
vars == <<ppls, todo, compound, handler>>

\* The lists of pipelines a command may name.
PplList == {s \in UNION {[1 .. n -> Ppl] : n \in 1 .. Cardinality(Ppl)} :
               \A i, j \in DOMAIN s : s[i] = s[j] => i = j}

Init ==
    /\ status = [p \in Ppl |-> "INIT"]
    /\ comp = [p \in Ppl |-> [i \in 1 .. N |-> "READY"]]
    /\ task = [p \in Ppl |-> FALSE]
    /\ trig = [p \in Ppl |-> "none"]
    /\ delay = [p \in Ppl |-> 0]
    /\ xrun = [p \in Ppl |-> FALSE]
    /\ todo = {}
    /\ delayed_reply = 0 /\ delayed_error = FALSE
    /\ request = [cmd |-> "RESET", list |-> <<>>]
    /\ pc = "idle" /\ at = 1 /\ act = "none" /\ result = "ok"
    /\ later = FALSE /\ waited = 0

-----------------------------------------------------------------------------
(* Walks over the components of a pipeline.                                *)

\* comp_get_requested_state.
Requested ==
    [START |-> "ACTIVE", RELEASE |-> "ACTIVE", PREPARE |-> "PREPARE", STOP |-> "PREPARE",
     PAUSE |-> "PAUSED", PRE_START |-> "PRE_ACTIVE", PRE_RELEASE |-> "PRE_ACTIVE"]

\* The states comp_set_state accepts a command in, besides the requested one.
Expected ==
    [START |-> {"PRE_ACTIVE"}, RELEASE |-> {"PRE_ACTIVE"}, PREPARE |-> {"READY"},
     STOP |-> {"ACTIVE", "PAUSED"}, PAUSE |-> {"ACTIVE"},
     PRE_START |-> {"PREPARE"}, PRE_RELEASE |-> {"PAUSED"}]

Accepts(cmd, s) == s \in Expected[cmd] \union {Requested[cmd]}

\* The places where a component may fail; 0 is none.
Failing(what) == IF what \in Fault THEN 0 .. N ELSE {0}

\* pipeline_comp_trigger or pipeline_comp_prepare along the chain cs, where the
\* driver of component f fails after its state was set: the new chain, the
\* result, and whether a component succeeded.  A component that does not
\* support pause ends the walk and stays active.
Walk(p, cmd, cs, f) ==
    LET holds == {i \in 1 .. N : cmd = "PAUSE" /\ <<p, i>> \in NoPause}
        ends == {i \in 1 .. N : i = f \/ i \in holds \/ ~Accepts(cmd, cs[i])}
        e == IF ends = {} THEN N + 1 ELSE Min(ends)
    IN  [comp |-> [i \in 1 .. N |->
                      IF i = e /\ e \in holds THEN "ACTIVE"
                      ELSE IF i < e \/ (i = e /\ Accepts(cmd, cs[i])) THEN Requested[cmd]
                      ELSE cs[i]],
         result |-> IF e = N + 1 THEN "ok" ELSE IF e \in holds THEN "stop" ELSE "error",
         begun |-> e > 1]

\* pipeline_comp_reset along the chain cs, where the reset of component f fails.
ResetChain(cs, f) == [i \in 1 .. N |-> IF f = 0 \/ i < f THEN "READY" ELSE cs[i]]

\* pipeline_reset.
Reset(p, f) ==
    /\ comp' = [comp EXCEPT ![p] = ResetChain(@, f)]
    /\ status' = [status EXCEPT ![p] = IF f = 0 THEN "READY" ELSE @]

-----------------------------------------------------------------------------
(* The pipeline task.                                                      *)

Idle(c) == \A p \in todo : Core[p] # c

\* ipc_msg_reply: ipc_compound_msg_done.
MsgReply(error) ==
    IF delayed_reply = 0 THEN UNCHANGED compound
    ELSE /\ delayed_reply' = delayed_reply - 1
         /\ delayed_error' = (delayed_error \/ error)

\* The task of p returns SOF_TASK_STATE_COMPLETED, or is to run again.
Completed(p) == task' = [task EXCEPT ![p] = FALSE] /\ todo' = todo \ {p}
Reschedule(p) == todo' = todo \ {p} /\ UNCHANGED task

\* An LL cycle begins on core c.
Tick(c) ==
    /\ Idle(c)
    /\ todo' = todo \union {p \in Ppl : Core[p] = c /\ task[p]}
    /\ waited' = IF pc \in {"wait", "final"} /\ waited < WaitTicks THEN waited + 1 ELSE waited
    /\ UNCHANGED <<ppls, compound, request, pc, at, act, result, later>>

\* pipeline_task in an xrun: a waiting trigger is answered with an error, and
\* pipeline_xrun_recover resets the pipeline.
TaskXrun(p) ==
    /\ p \in todo /\ xrun[p]
    /\ IF trig[p] = "none" THEN UNCHANGED compound ELSE MsgReply(TRUE)
    /\ trig' = [trig EXCEPT ![p] = "none"]
    /\ \E f \in Failing("RESET") : Reset(p, f)
    /\ Completed(p)
    /\ UNCHANGED <<delay, xrun, handler>>

\* pipeline_task between the two stages of a start.
TaskDelay(p) ==
    /\ p \in todo /\ ~xrun[p] /\ delay[p] > 0
    /\ delay' = [delay EXCEPT ![p] = @ - 1]
    /\ Reschedule(p)
    /\ UNCHANGED <<status, comp, trig, xrun, task, compound, handler>>

\* The task executes a trigger.
Executes(p) == p \in todo /\ ~xrun[p] /\ delay[p] = 0 /\ trig[p] # "none"

Final(cmd) == IF cmd \in {"PRE_START", "START"} THEN "START" ELSE "RELEASE"

\* Mutant of SecondStage: the trigger is not replaced by its second stage.
SecondStageForgets(p) ==
    /\ status' = [status EXCEPT ![p] = "PRE_ACTIVE"]
    /\ trig' = [trig EXCEPT ![p] = "none"]
    /\ delay' = [delay EXCEPT ![p] = Delay[p]]
    /\ Reschedule(p)
    /\ UNCHANGED compound

\* pipeline_trigger_run leaves the second stage for later.
SecondStage(p) ==
    /\ status' = [status EXCEPT ![p] = "PRE_ACTIVE"]
    /\ trig' = [trig EXCEPT ![p] = Final(@)]
    /\ delay' = [delay EXCEPT ![p] = Delay[p]]
    /\ Reschedule(p)
    /\ UNCHANGED compound

\* pipeline_task_cmd with a start or release: when the DAI needs time between
\* its two stages the second is left for later, else the task goes on to copy.
TaskStart(p) ==
    /\ Executes(p) /\ trig[p] \notin {"PAUSE", "STOP"}
    /\ \E f \in Failing(trig[p]), g \in Failing(Final(trig[p])) :
         LET pre == Final(trig[p]) # trig[p]
             w == Walk(p, trig[p], comp[p], f)
             v == IF pre /\ w.result = "ok" /\ Delay[p] = 0
                  THEN Walk(p, Final(trig[p]), w.comp, g) ELSE w
         IN  /\ comp' = [comp EXCEPT ![p] = v.comp]
             /\ \/ /\ v.result = "error"
                   /\ trig' = [trig EXCEPT ![p] = "none"]
                   /\ MsgReply(TRUE) /\ Completed(p)
                   /\ UNCHANGED <<status, delay>>
                \/ v.result = "ok" /\ pre /\ Delay[p] > 0 /\ SecondStage(p)
                \/ /\ v.result = "ok" /\ (pre => Delay[p] = 0)
                   /\ status' = [status EXCEPT ![p] = "ACTIVE"]
                   /\ trig' = [trig EXCEPT ![p] = "none"]
                   /\ MsgReply(FALSE)
                   /\ UNCHANGED <<delay, task, todo>>
    /\ UNCHANGED <<xrun, handler>>

\* pipeline_task_cmd with a pause that every component has obeyed.
TaskPause(p) ==
    /\ Executes(p) /\ trig[p] = "PAUSE"
    /\ Walk(p, "PAUSE", comp[p], 0).result = "ok"
    /\ comp' = [comp EXCEPT ![p] = Walk(p, "PAUSE", @, 0).comp]
    /\ status' = [status EXCEPT ![p] = "PAUSED"]
    /\ trig' = [trig EXCEPT ![p] = "none"]
    /\ MsgReply(FALSE) /\ Completed(p)
    /\ UNCHANGED <<delay, xrun, handler>>

\* Mutant of TaskStop: the stopped pipeline is not reset.
TaskStopNoReset(p) ==
    /\ Executes(p) /\ trig[p] = "STOP"
    /\ Walk(p, "STOP", comp[p], 0).result = "ok"
    /\ comp' = [comp EXCEPT ![p] = Walk(p, "STOP", @, 0).comp]
    /\ status' = [status EXCEPT ![p] = "PAUSED"]
    /\ trig' = [trig EXCEPT ![p] = "none"]
    /\ MsgReply(FALSE) /\ Completed(p)
    /\ UNCHANGED <<delay, xrun, handler>>

\* pipeline_task_cmd with a stop that every component has obeyed: the pipeline
\* is reset.
TaskStop(p) ==
    /\ Executes(p) /\ trig[p] = "STOP"
    /\ LET w == Walk(p, "STOP", comp[p], 0) IN
         /\ w.result = "ok"
         /\ \E f \in Failing("RESET") :
              /\ comp' = [comp EXCEPT ![p] = ResetChain(w.comp, f)]
              /\ status' = [status EXCEPT ![p] = IF f = 0 THEN "READY" ELSE "PAUSED"]
              /\ MsgReply(f # 0)
    /\ trig' = [trig EXCEPT ![p] = "none"]
    /\ Completed(p)
    /\ UNCHANGED <<delay, xrun, handler>>

\* pipeline_task_cmd with a pause or stop that a component refuses or fails.
TaskStopFails(p) ==
    /\ Executes(p) /\ trig[p] \in {"PAUSE", "STOP"}
    /\ \E f \in Failing(trig[p]) :
         LET w == Walk(p, trig[p], comp[p], f) IN
           /\ w.result = "error"
           /\ comp' = [comp EXCEPT ![p] = w.comp]
           /\ status' = [status EXCEPT ![p] = IF w.begun THEN "PAUSED" ELSE @]
    /\ trig' = [trig EXCEPT ![p] = "none"]
    /\ MsgReply(TRUE) /\ Completed(p)
    /\ UNCHANGED <<delay, xrun, handler>>

\* pipeline_task_cmd when a component does not support pause: the pipeline stays active
\* and goes on to copy.
TaskPauseAborted(p) ==
    /\ Executes(p) /\ trig[p] = "PAUSE"
    /\ LET w == Walk(p, "PAUSE", comp[p], 0) IN
         /\ w.result = "stop"
         /\ comp' = [comp EXCEPT ![p] = w.comp]
    /\ status' = [status EXCEPT ![p] = "ACTIVE"]
    /\ trig' = [trig EXCEPT ![p] = "none"]
    /\ MsgReply(FALSE)
    /\ UNCHANGED <<task, delay, xrun, todo, handler>>

\* The rest of pipeline_task: copy, unless the pipeline is paused.
Copies(p) == p \in todo /\ ~xrun[p] /\ delay[p] = 0 /\ trig[p] = "none"

TaskCopy(p) ==
    /\ Copies(p)
    /\ IF status[p] = "PAUSED" THEN Completed(p) ELSE Reschedule(p)
    /\ UNCHANGED <<status, comp, trig, delay, xrun, compound, handler>>

\* Mutant of TaskCopyFails: the failing pipeline is not reset.
TaskCopyFailsOnly(p) ==
    /\ Copies(p) /\ "copy" \in Fault
    /\ status[p] # "PAUSED" /\ comp[p][N] = "ACTIVE"
    /\ Completed(p)
    /\ UNCHANGED <<status, comp, trig, delay, xrun, compound, handler>>

\* A component's copy fails and pipeline_xrun_recover resets the pipeline.
TaskCopyFails(p) ==
    /\ Copies(p) /\ "copy" \in Fault
    /\ status[p] # "PAUSED" /\ comp[p][N] = "ACTIVE"
    /\ \E f \in Failing("RESET") : Reset(p, f)
    /\ Completed(p)
    /\ UNCHANGED <<trig, delay, xrun, compound, handler>>

\* pipeline_trigger_xrun and the XRUN case of pipeline_schedule_triggered: the
\* pipelines an xrun of p is reported to.
XrunRoot(p) ==
    IF Upstream[p] # None /\ status[Upstream[p]] \in {"ACTIVE", "PREPARE"}
    THEN Upstream[p] ELSE p

\* The DAI reports an xrun of some bytes and its copy fails.
TaskCopyXrun(p) ==
    /\ Copies(p) /\ "xrun" \in Fault
    /\ status[p] # "PAUSED" /\ comp[p][N] = "ACTIVE"
    /\ xrun' = [q \in Ppl |-> xrun[q] \/ q \in {p, XrunRoot(p)}]
    /\ \E f \in Failing("RESET") : Reset(p, f)
    /\ Completed(p)
    /\ UNCHANGED <<trig, delay, compound, handler>>

Task(p) ==
    \/ TaskXrun(p) \/ TaskDelay(p)
    \/ TaskStart(p) \/ TaskPause(p) \/ TaskStop(p) \/ TaskStopFails(p) \/ TaskPauseAborted(p)
    \/ TaskCopy(p) \/ TaskCopyFails(p) \/ TaskCopyXrun(p)

-----------------------------------------------------------------------------
(* The handler of the command.                                             *)

ThisPpl == request.list[at]

\* The core that handles the command: the one of its pipelines, or else the
\* IPC core, which passes the steps for a pipeline of another core to that core.
Home ==
    IF \A i \in DOMAIN request.list : Core[request.list[i]] = Core[request.list[1]]
    THEN Core[request.list[1]] ELSE IpcCore

Local == Core[ThisPpl] = Home

\* The thread that runs the current step is not preempted.
Runs(state) == pc = state /\ Idle(Core[ThisPpl])

\* The host sends a command; ipc_cmd begins.
Request ==
    /\ pc = "idle"
    /\ \E cmd \in Command, list \in PplList : request' = [cmd |-> cmd, list |-> list]
    /\ pc' = "prepare" /\ at' = 1 /\ act' = "none" /\ result' = "ok" /\ later' = FALSE
    /\ delayed_reply' = 0 /\ delayed_error' = FALSE
    /\ UNCHANGED <<ppls, todo, waited>>

\* The end of a pass through a loop over the pipelines; after an error the
\* handler returns.
Advance(res, loop, after) ==
    /\ result' = res
    /\ \/ /\ res = "ok" /\ at < Len(request.list)
          /\ pc' = loop /\ at' = at + 1
       \/ /\ res = "ok" /\ at = Len(request.list)
          /\ pc' = after /\ at' = 1
       \/ /\ res = "error"
          /\ pc' = "final" /\ UNCHANGED at

Prepared(res) ==
    /\ Advance(res, "prepare", "read")
    /\ waited' = 0
    /\ UNCHANGED <<todo, compound, request, act, later>>

\* ipc4_pipeline_prepare: nothing to do, or the command is refused; so is the
\* completion of a pipeline that lacks a source, a sink or a direction.
PrepareNot ==
    /\ Runs("prepare")
    /\ LET s == status[ThisPpl] IN
         \/ request.cmd = "RUNNING" /\ s \in {"ACTIVE", "PAUSED"} /\ Prepared("ok")
         \/ request.cmd = "RUNNING" /\ s \in {"INIT", "PREPARE", "PRE_ACTIVE"} /\ Prepared("error")
         \/ request.cmd = "RESET" /\ s \in {"READY", "ACTIVE", "PAUSED"} /\ Prepared("ok")
         \/ request.cmd = "RESET" /\ s \in {"PREPARE", "PRE_ACTIVE"} /\ Prepared("error")
         \/ request.cmd = "PAUSED" /\ s # "INIT" /\ Prepared("ok")
         \/ request.cmd # "RUNNING" /\ s = "INIT" /\ "COMPLETE" \in Fault /\ Prepared("error")
    /\ UNCHANGED ppls

\* ipc4_pipeline_prepare: pipeline_complete.
PrepareComplete ==
    /\ Runs("prepare")
    /\ request.cmd # "RUNNING" /\ status[ThisPpl] = "INIT"
    /\ status' = [status EXCEPT ![ThisPpl] = "READY"]
    /\ Prepared("ok")
    /\ UNCHANGED <<comp, task, trig, delay, xrun>>

\* ipc4_pipeline_prepare: ipc4_pcm_params, which resets the pipeline when a
\* component cannot be prepared.
PrepareParams ==
    /\ Runs("prepare")
    /\ request.cmd = "RUNNING" /\ status[ThisPpl] = "READY"
    /\ \E f \in Failing("PREPARE") :
         LET w == Walk(ThisPpl, "PREPARE", comp[ThisPpl], f) IN
           \/ /\ w.result = "ok"
              /\ comp' = [comp EXCEPT ![ThisPpl] = w.comp]
              /\ status' = [status EXCEPT ![ThisPpl] = "PREPARE"]
              /\ Prepared("ok")
           \/ /\ w.result = "error"
              /\ Reset(ThisPpl, 0)
              /\ Prepared("error")
    /\ UNCHANGED <<task, trig, delay, xrun>>

\* Mutant of Choice: a prepared pipeline is taken for a running one.
ChoicePrepared(cmd, s) ==
    CASE s = "INIT" -> "none"
      [] cmd = "RUNNING" -> IF s \in {"ACTIVE", "PREPARE"} THEN "none"
                            ELSE IF s = "READY" THEN "PRE_START"
                            ELSE IF s = "PAUSED" THEN "PRE_RELEASE" ELSE "refuse"
      [] cmd = "RESET" -> IF s \in {"ACTIVE", "PAUSED"} THEN "STOP" ELSE "none"
      [] cmd = "PAUSED" -> IF s \in {"READY", "PAUSED"} THEN "none" ELSE "PAUSE"

\* The trigger ipc4_pipeline_trigger asks for; "none" when there is nothing to
\* do, "refuse" when the command is refused.
Choice(cmd, s) ==
    CASE s = "INIT" -> "none"
      [] cmd = "RUNNING" -> IF s = "ACTIVE" THEN "none"
                            ELSE IF s \in {"READY", "PREPARE"} THEN "PRE_START"
                            ELSE IF s = "PAUSED" THEN "PRE_RELEASE" ELSE "refuse"
      [] cmd = "RESET" -> IF s \in {"ACTIVE", "PAUSED"} THEN "STOP" ELSE "none"
      [] cmd = "PAUSED" -> IF s \in {"READY", "PAUSED"} THEN "none" ELSE "PAUSE"

\* Mutant of TriggerRead: the trigger is not counted.
TriggerReadUncounted ==
    /\ Runs("read")
    /\ act' = Choice(request.cmd, status[ThisPpl])
    /\ pc' = IF act' \in {"none", "refuse"} THEN "post" ELSE "act"
    /\ result' = IF act' = "refuse" THEN "error" ELSE "ok"
    /\ later' = FALSE
    /\ UNCHANGED <<ppls, todo, compound, request, at, waited>>

\* ipc_compound_pre_start and ipc4_pipeline_trigger up to its choice.
TriggerRead ==
    /\ Runs("read")
    /\ delayed_reply' = delayed_reply + (IF Local THEN 1 ELSE 0)
    /\ act' = Choice(request.cmd, status[ThisPpl])
    /\ pc' = IF act' \in {"none", "refuse"} THEN "post" ELSE "act"
    /\ result' = IF act' = "refuse" THEN "error" ELSE "ok"
    /\ later' = FALSE
    /\ UNCHANGED <<ppls, todo, delayed_error, request, at, waited>>

\* pipeline_trigger finds that the task does not run, triggers the components
\* itself, and ipc4_pipeline_trigger resets a stopped pipeline.
Inline(p) == act \in {"PAUSE", "STOP"} /\ (status[p] = "PAUSED" \/ xrun[p])

TriggerInline ==
    /\ Runs("act") /\ Inline(ThisPpl)
    /\ \E f \in Failing(act), g \in Failing("RESET") :
         LET p == ThisPpl
             ignored == act = "STOP" /\ xrun[p] /\ status[p] = "PAUSED"
             w == IF ignored THEN [comp |-> comp[p], result |-> "ok", begun |-> FALSE]
                  ELSE Walk(p, act, comp[p], f)
             stopped == [status EXCEPT ![p] = IF w.begun THEN "PAUSED" ELSE @]
         IN  \/ /\ w.result = "error" \/ act = "PAUSE"
                /\ comp' = [comp EXCEPT ![p] = w.comp]
                /\ status' = stopped
                /\ result' = IF w.result = "error" THEN "error" ELSE "ok"
             \/ /\ w.result # "error" /\ act = "STOP"
                /\ comp' = [comp EXCEPT ![p] = ResetChain(w.comp, g)]
                /\ status' = IF g = 0 THEN [status EXCEPT ![p] = "READY"] ELSE stopped
                /\ result' = IF g = 0 THEN "ok" ELSE "error"
    /\ pc' = "post"
    /\ UNCHANGED <<task, trig, delay, xrun, todo, compound, request, at, act, later, waited>>

\* pipeline_trigger leaves the trigger with the task, which a start schedules.
TriggerSchedule ==
    /\ Runs("act") /\ ~Inline(ThisPpl)
    /\ trig' = [trig EXCEPT ![ThisPpl] = act]
    /\ IF act \in {"PRE_START", "PRE_RELEASE"}
       THEN /\ xrun' = [xrun EXCEPT ![ThisPpl] = FALSE]
            /\ task' = [task EXCEPT ![ThisPpl] = TRUE]
       ELSE UNCHANGED <<xrun, task>>
    /\ later' = TRUE
    /\ pc' = "post"
    /\ UNCHANGED <<status, comp, delay, todo, compound, request, at, act, result, waited>>

\* Mutant of TriggerPost: the loop goes on without waiting.
TriggerPostNoWait ==
    /\ pc = "post" /\ Idle(Home)
    /\ delayed_reply' = IF ~Local THEN delayed_reply
                        ELSE IF result = "error" THEN 0
                        ELSE IF later THEN delayed_reply ELSE delayed_reply - 1
    /\ waited' = 0
    /\ Advance(result, "read", "final")
    /\ UNCHANGED <<ppls, todo, delayed_error, request, act, later>>

\* ipc_compound_post_start, and the loop's decision to wait; idc_ppl_state of
\* another core reports neither.
TriggerPost ==
    /\ pc = "post" /\ Idle(Home)
    /\ delayed_reply' = IF ~Local THEN delayed_reply
                        ELSE IF result = "error" THEN 0
                        ELSE IF later THEN delayed_reply ELSE delayed_reply - 1
    /\ waited' = 0
    /\ IF Local /\ later THEN pc' = "wait" /\ UNCHANGED <<at, result>>
       ELSE Advance(result, "read", "final")
    /\ UNCHANGED <<ppls, todo, delayed_error, request, act, later>>

\* Mutant of WaitDone: the wait has no limit.
WaitDoneForever ==
    /\ pc = "wait" /\ Idle(Home)
    /\ delayed_reply = 0 /\ Advance("ok", "read", "final")
    /\ delayed_reply' = 0
    /\ waited' = 0
    /\ UNCHANGED <<ppls, todo, delayed_error, request, act, later>>

\* ipc_wait_for_compound_msg in the loop: the task has replied, or time is up.
WaitDone ==
    /\ pc = "wait" /\ Idle(Home)
    /\ \/ delayed_reply = 0 /\ Advance("ok", "read", "final")
       \/ delayed_reply # 0 /\ waited = WaitTicks /\ Advance("error", "read", "final")
    /\ delayed_reply' = 0
    /\ waited' = 0
    /\ UNCHANGED <<ppls, todo, delayed_error, request, act, later>>

\* ipc_wait_for_compound_msg in ipc_cmd, and the status of the reply.
FinalWait ==
    /\ pc = "final" /\ Idle(Home)
    /\ delayed_reply = 0 \/ waited = WaitTicks
    /\ result' = IF delayed_error \/ delayed_reply # 0 THEN "error" ELSE result
    /\ delayed_reply' = 0
    /\ pc' = "reply"
    /\ UNCHANGED <<ppls, todo, delayed_error, request, at, act, later, waited>>

\* The reply is sent; the host may send another command.
Reply ==
    /\ pc = "reply" /\ Idle(Home)
    /\ pc' = "idle"
    /\ UNCHANGED <<ppls, todo, compound, request, at, act, result, later, waited>>

Prepare == PrepareNot \/ PrepareComplete \/ PrepareParams
Handler ==
    \/ Prepare \/ TriggerRead \/ TriggerInline \/ TriggerSchedule \/ TriggerPost
    \/ WaitDone \/ FinalWait \/ Reply

Next ==
    \/ Request \/ Handler
    \/ \E p \in Ppl : Tick(Core[p]) \/ Task(p)

Spec == Init /\ [][Next]_vars

\* LL cycles begin and end; the handler is preempted by them now and then.
FairSpec ==
    /\ Spec
    /\ SF_vars(Handler)
    /\ \A p \in Ppl : WF_vars(Tick(Core[p])) /\ WF_vars(Task(p))

-----------------------------------------------------------------------------
(* Properties.                                                             *)

\* Every variable keeps its type; delayed_reply may become negative when
\* pipelines of several cores reply.
TypeOK ==
    /\ status \in [Ppl -> State]
    /\ comp \in [Ppl -> [1 .. N -> State]]
    /\ task \in [Ppl -> BOOLEAN] /\ xrun \in [Ppl -> BOOLEAN]
    /\ trig \in [Ppl -> Trigger \union {"none"}]
    /\ \A p \in Ppl : delay[p] \in 0 .. Delay[p]
    /\ todo \subseteq Ppl
    /\ delayed_reply \in Int /\ delayed_error \in BOOLEAN
    /\ waited \in 0 .. WaitTicks

\* A pipeline that is ACTIVE, for which RUNNING answers that there is nothing
\* to do, has its task on the list of the LL scheduler.
ActiveIsScheduled ==
    \A p \in Ppl : status[p] = "ACTIVE" => task[p]

\* A trigger left with a pipeline has a task that will execute it and reply.
\* The code does not keep this when a copy may fail: see the README.
TriggerHasTask ==
    \A p \in Ppl : trig[p] # "none" => task[p]

\* A task will execute a trigger.
Pending(p) == trig[p] # "none" /\ task[p]

\* A command is answered with success only when no trigger of its pipelines is
\* still to be executed.
ReplyHonest ==
    pc = "reply" /\ result = "ok" =>
        \A i \in DOMAIN request.list : ~Pending(request.list[i])

\* While the handler waits, the counter tells whether the trigger it waits for
\* has been executed.
CounterTells ==
    pc = "wait" => delayed_reply = IF trig[ThisPpl] = "none" THEN 0 ELSE 1

\* A pipeline is triggered only when no trigger of a pipeline before it in the
\* command is still to be executed.
TriggersInOrder ==
    pc \in {"read", "act"} => \A i \in 1 .. at - 1 : ~Pending(request.list[i])

\* When RUNNING is answered with success every component of every pipeline of
\* the command is active, unless an error has reset the pipeline since.
RunningMeansActive ==
    pc = "reply" /\ result = "ok" /\ request.cmd = "RUNNING" =>
        \A i \in DOMAIN request.list :
            LET p == request.list[i] IN
            \/ status[p] = "READY" \/ xrun[p]
            \/ status[p] = "ACTIVE" /\ \A j \in 1 .. N : comp[p][j] = "ACTIVE"

\* When RESET is answered with success every component of every pipeline of
\* the command is READY.
ResetMeansReady ==
    pc = "reply" /\ result = "ok" /\ request.cmd = "RESET" =>
        \A i \in DOMAIN request.list :
            /\ status[request.list[i]] = "READY"
            /\ \A j \in 1 .. N : comp[request.list[i]][j] = "READY"

\* RESET is not refused, in particular not after a command that failed.  The
\* code does not keep this: see the README.
ResetSucceeds ==
    pc = "reply" /\ request.cmd = "RESET" => result = "ok"

\* A pipeline that counts down the periods between the two stages of its start
\* has a task, and a trigger for the task to execute when the count is over.
DelayedStartPending ==
    \A p \in Ppl : delay[p] > 0 => status[p] = "PRE_ACTIVE" /\ Pending(p)

\* Every command is answered: the task replies, or the wait times out.
Answered == pc # "idle" ~> pc = "idle"

-----------------------------------------------------------------------------
(* Inductive invariants, when all pipelines are on one core and a delayed  *)
(* start is over before its wait is.                                       *)

Start == {"PRE_START", "PRE_RELEASE"}
Second == {"START", "RELEASE"}

Timely ==
    /\ \A p, q \in Ppl : Core[p] = Core[q]
    /\ \A p \in Ppl : Delay[p] > 0 => Delay[p] + 2 <= WaitTicks

\* The task was given the trigger of this pass and has answered it.
TaskAnswered == later /\ trig[ThisPpl] = "none"

\* Runs of its task that a pipeline needs to be done with its trigger.
RunsNeeded(p) == IF trig[p] \in Start /\ Delay[p] > 0 THEN Delay[p] + 2 ELSE delay[p] + 1

\* A task executes a trigger only while the handler is with that pipeline, and
\* it is done before the wait for it is over.  So the counter is 1 from the
\* start of a pass until the task or the handler counts it down.
TurnInv ==
    /\ pc # "idle" => request.list \in PplList /\ at \in 1 .. Len(request.list)
    /\ \A p \in Ppl : Pending(p) => pc \in {"post", "wait"} /\ later /\ p = ThisPpl
    /\ \A p \in Ppl : delay[p] > 0 => trig[p] \in Second
    /\ pc \in {"prepare", "read", "act", "wait"} => result = "ok"
    /\ pc = "act" => ~later
    /\ pc = "post" /\ later => result = "ok"
    /\ pc = "wait" => later
    /\ delayed_reply = IF pc = "act" \/ (pc \in {"post", "wait"} /\ ~TaskAnswered) THEN 1 ELSE 0
    /\ \A p \in Ppl : pc = "wait" /\ Pending(p) =>
          waited + RunsNeeded(p) <= WaitTicks + (IF p \in todo THEN 1 ELSE 0)

\* The handler is done with the i-th pipeline of the command.
Handled(i) ==
    \/ pc \in {"final", "reply"}
    \/ pc \in {"read", "act", "post", "wait"} /\ i < at
    \/ pc \in {"post", "wait"} /\ i = at /\ (later => TaskAnswered)

\* It has found the i-th pipeline fit for the command.
Admitted(i) ==
    \/ pc = "prepare" /\ i < at
    \/ pc \in {"read", "act", "post", "wait"}

\* The states a command admits a pipeline in, those it leaves it in, and the
\* triggers it uses.
Fit(cmd) == IF cmd = "RESET" THEN {"READY", "ACTIVE", "PAUSED"} ELSE State \ {"INIT"}
Done(cmd) == IF cmd = "RESET" THEN {"READY"}
             ELSE IF cmd = "RUNNING" THEN {"READY", "ACTIVE"} ELSE State \ {"INIT"}
Uses(cmd) == IF cmd = "RESET" THEN {"STOP"}
             ELSE IF cmd = "RUNNING" THEN Start \union Second ELSE {"PAUSE"}

\* No error so far, neither the handler's nor a task's.
Sound == pc # "idle" /\ result = "ok" /\ ~delayed_error

\* RUNNING and RESET leave every pipeline they have handled in the state they
\* ask for, or READY, unless an error is on record.
CommandInv ==
    /\ pc = "reply" /\ result = "ok" => ~delayed_error
    /\ pc = "act" => act \in Uses(request.cmd) \ Second
    /\ \A p \in Ppl : Pending(p) => trig[p] \in Uses(request.cmd)
    /\ Sound => \A i \in DOMAIN request.list :
          /\ Admitted(i) => status[request.list[i]] \in Fit(request.cmd)
          /\ Handled(i) => status[request.list[i]] \in Done(request.cmd)

\* A pipeline that is READY has no component that is not, when the components
\* support pause or there are no xruns.
ReadyInv ==
    /\ \A p \in Ppl : status[p] \in {"INIT", "READY"} => \A i \in 1 .. N : comp[p][i] = "READY"
    /\ "xrun" \notin Fault => \A p \in Ppl : ~xrun[p]

\* A pipeline that is ACTIVE has a task and active components, when they support
\* pause and pause, stop and reset do not fail.
ActiveInv ==
    /\ \A p \in Ppl : status[p] = "ACTIVE" => task[p] /\ \A i \in 1 .. N : comp[p][i] = "ACTIVE"
    /\ \A p \in Ppl : /\ trig[p] \in Start \union Second => task[p]
                      /\ trig[p] \in Start => status[p] \in {"READY", "PREPARE", "PAUSED"}
                      /\ trig[p] \in Second => status[p] = "PRE_ACTIVE"
    /\ pc = "act" /\ act \in Start => status[ThisPpl] \in {"READY", "PREPARE", "PAUSED"}
=============================================================================
