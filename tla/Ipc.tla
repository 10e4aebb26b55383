--------------------------------- MODULE Ipc ---------------------------------
(***************************************************************************)
(* Messages between the host and the firmware, and between the cores of    *)
(* the DSP (src/src/ipc/ipc-common.c, ipc-zephyr.c, the request and reply  *)
(* part of ipc4/handler.c, src/src/idc/idc.c, zephyr_idc.c).               *)
(*                                                                         *)
(* The host rings a doorbell; an EDF work item of the primary core runs    *)
(* the request.  It may run it itself, pass all of it to another core      *)
(* without waiting, or call another core and wait.  Inter-core messages    *)
(* (IDC) use one work item and one payload per target core.  Replies and   *)
(* notifications leave through a list that a delayed worker empties, one   *)
(* message at a time, as the host takes them.                              *)
(*                                                                         *)
(* ipc->lock makes each locked section one step.  What k_p4wq_submit does  *)
(* with a work item that is still in use is not modelled: behaviours end   *)
(* at such a call (clash).                                                 *)
(***************************************************************************)
EXTENDS Integers, Sequences, Functions

CONSTANTS Core,         \* the secondary cores
          Msg,          \* the notifications (struct ipc_msg)
          HighPriority, \* those sent with high_priority
          LogStatus,    \* those with the header of NOTIFY_LOG_BUFFER_STATUS
          MaxRequests,  \* bound: requests of the host
          MaxEvents     \* bound: notifications, to the host and to a core

ASSUME CoreAssumption == Core # {}
ASSUME MsgAssumption ==
    HighPriority \subseteq Msg /\ LogStatus \subseteq Msg /\ "msg_reply" \notin Msg
ASSUME BoundAssumption == MaxRequests \in Nat /\ MaxEvents \in Nat

VARIABLES
    busy,           \* the BUSY bit of the host's doorbell
    awaiting,       \* the host waits for the reply to its request
    g_last_data,    \* the request in the doorbell registers
    msg_in,         \* msg_data.msg_in
    ipc_task,       \* the EDF work item of the IPC task is queued
    edf,            \* the EDF thread: "idle", to "process" the request, before
                    \* idc_send_msg of a delegated request ("send"), in a
                    \* "call" or in the "wait" of a blocking one, and back
                    \* in ipc_cmd to look at the "mask", to "reply", and to
                    \* "complete"
    phase,          \* blocking calls of the request still to make
    task_mask,      \* ipc->task_mask
    msg_reply,      \* msg_reply.header is the "request"'s or a "reply"'s
    reply,          \* what it answers: the request and the core that ran it
    msg_list,       \* ipc->msg_list
    worker,         \* z_delayed_work is scheduled, and it runs
    tx,             \* the message the host has not yet taken, or "none"
    freed,          \* messages given to ipc_msg_free
    idc_work,       \* idc_work[core].msg
    pending,        \* the work item of the core is in its queue
    payload,        \* static_payload[core]: a command or a status, and whose
    idc,            \* the IDC thread: "idle", at "run", "reply", "status"
                    \* or "clear"
    received_msg,   \* idc->received_msg
    done,           \* the semaphore k_p4wq_wait takes
    enabled,        \* arch_cpu_active
    forced,         \* cores forced to PM_STATE_SOFT_OFF that were not idle
    pm_prepare_D3,  \* ipc->pm_prepare_D3
    power,          \* "on", "off" in D3, or D3 was "refused"
    requests, events,   \* counts, for the bounds
    replies,        \* history: replies sent to the current request
    clash           \* history: a work item or payload was written in use

host == <<busy, awaiting, g_last_data, requests>>
thread == <<msg_in, ipc_task, edf, phase>>
answer == <<msg_reply, reply, replies>>
queue == <<msg_list, worker, tx, freed>>
item == <<idc_work, pending, payload, clash>>
handler == <<idc, received_msg, done>>
pm == <<enabled, forced, pm_prepare_D3, power>>
vars == <<host, thread, task_mask, answer, queue, item, handler, pm, events>>

Kind == {"local", "remote", "multi", "core_on", "core_off", "d3"}
Request == [id : 0..MaxRequests, kind : Kind, core : Core]
IdcMsg == [type : {"IPC", "PPL_STATE", "NOTIFY"}, id : 0..MaxRequests]
Nothing == [kind |-> "local", id |-> 0, core |-> CHOOSE c \in Core : TRUE]

Init ==
    /\ busy = FALSE /\ awaiting = FALSE /\ g_last_data = Nothing /\ requests = 0
    /\ msg_in = Nothing /\ ipc_task = FALSE /\ edf = "idle" /\ phase = 0
    /\ task_mask = {}
    /\ msg_reply = "reply" /\ reply = [id |-> 0, by |-> "primary"] /\ replies = 0
    /\ msg_list = <<>> /\ worker = [scheduled |-> FALSE, running |-> FALSE]
    /\ tx = "none" /\ freed = {}
    /\ idc_work = [c \in Core |-> [type |-> "NOTIFY", id |-> 0]]
    /\ pending = [c \in Core |-> FALSE]
    /\ payload = [c \in Core |-> [what |-> "status", id |-> 0]]
    /\ idc = [c \in Core |-> "idle"]
    /\ received_msg = [c \in Core |-> [type |-> "NOTIFY", id |-> 0]]
    /\ done = [c \in Core |-> FALSE]
    /\ enabled = {} /\ forced = {} /\ pm_prepare_D3 = FALSE /\ power = "on"
    /\ events = 0 /\ clash = FALSE

-----------------------------------------------------------------------------
(* Messages to the host.                                                   *)

\* m is on the list s: its list item is not an empty list by itself.
Listed(s, m) == \E i \in 1..Len(s) : s[i] = m

list_item_del(s, m) ==
    IF Listed(s, m)
    THEN LET k == CHOOSE i \in 1..Len(s) : s[i] = m
         IN  SubSeq(s, 1, k - 1) \o SubSeq(s, k + 1, Len(s))
    ELSE s

\* Mutant of Queued: a message that is queued already is queued again.
QueuedAgain(m, high) == IF high THEN <<m>> \o msg_list ELSE Append(msg_list, m)

\* The queue after ipc_msg_send of m.
Queued(m, high) ==
    IF Listed(msg_list, m) THEN msg_list
    ELSE IF high THEN <<m>> \o msg_list
    ELSE Append(msg_list, m)

ipc_msg_send(m, high) ==
    /\ msg_list' = Queued(m, high)
    /\ worker' = [worker EXCEPT !.scheduled = TRUE]

\* A component or the log sends a notification, on any core.
Notify(m) ==
    /\ power = "on" /\ m \notin freed /\ events < MaxEvents
    /\ pm_prepare_D3 => m \in LogStatus
    /\ events' = events + 1
    /\ ipc_msg_send(m, m \in HighPriority)
    /\ UNCHANGED <<host, thread, task_mask, answer, tx, freed, item, handler, pm>>

\* Mutant of SendQueuedMsg: a message the host had no room for is given up.
SendQueuedMsgOnce ==
    /\ power # "off" /\ worker.scheduled /\ ~worker.running
    /\ worker' = [scheduled |-> FALSE, running |-> tx = "none"]
    /\ IF pm_prepare_D3 \/ msg_list = <<>> \/ tx # "none"
       THEN UNCHANGED <<msg_list, tx>>
       ELSE tx' = Head(msg_list) /\ msg_list' = Tail(msg_list)
    /\ UNCHANGED <<host, thread, task_mask, answer, freed, item, handler, pm, events>>

\* ipc_send_queued_msg, called by ipc_work_handler.
SendQueuedMsg ==
    /\ power # "off" /\ worker.scheduled /\ ~worker.running
    /\ worker' = [scheduled |-> FALSE, running |-> TRUE]
    /\ IF pm_prepare_D3 \/ msg_list = <<>> \/ tx # "none"
       THEN UNCHANGED <<msg_list, tx>>
       ELSE tx' = Head(msg_list) /\ msg_list' = Tail(msg_list)
    /\ UNCHANGED <<host, thread, task_mask, answer, freed, item, handler, pm, events>>

\* The locked section at the end of ipc_work_handler.
WorkHandlerEnd ==
    /\ power # "off" /\ worker.running
    /\ worker' = [scheduled |-> worker.scheduled \/ (msg_list # <<>> /\ ~pm_prepare_D3),
                  running |-> FALSE]
    /\ UNCHANGED <<host, thread, task_mask, answer, msg_list, tx, freed, item, handler, pm, events>>

\* The host takes a message.
HostTakes ==
    /\ tx # "none"
    /\ tx' = "none"
    /\ awaiting' = (awaiting /\ tx # "msg_reply")
    /\ UNCHANGED <<busy, g_last_data, requests, thread, task_mask, answer,
                   msg_list, worker, freed, item, handler, pm, events>>

-----------------------------------------------------------------------------
(* Messages between cores.                                                 *)

\* The work item of c is queued or runs, or its caller has yet to read the
\* status.
InUse(c) == pending[c] \/ idc[c] # "idle" \/ (edf = "wait" /\ msg_in.core = c)

\* idc_send_msg to a core that is on: the work item, the payload when the
\* message has one, and k_p4wq_submit.
idc_send_msg(c, m) ==
    /\ clash' = (clash \/ InUse(c))
    /\ idc_work' = [idc_work EXCEPT ![c] = m]
    /\ payload' = IF m.type = "PPL_STATE"
                  THEN [payload EXCEPT ![c] = [what |-> "command", id |-> m.id]]
                  ELSE payload
    /\ pending' = [pending EXCEPT ![c] = TRUE]
    /\ done' = [done EXCEPT ![c] = FALSE]

\* notifier_event, or AMS, calls another core without waiting.
NotifyCore(c) ==
    /\ power = "on" /\ ~pm_prepare_D3 /\ c \in enabled /\ events < MaxEvents
    /\ events' = events + 1
    /\ idc_send_msg(c, [type |-> "NOTIFY", id |-> 0])
    /\ UNCHANGED <<host, thread, task_mask, answer, queue, idc, received_msg, pm>>

\* The IDC thread takes its work item: idc_handler up to idc_cmd.
IdcStart(c) ==
    /\ pending[c] /\ idc[c] = "idle" /\ c \in enabled
    /\ pending' = [pending EXCEPT ![c] = FALSE]
    /\ received_msg' = [received_msg EXCEPT ![c] = idc_work[c]]
    /\ idc' = [idc EXCEPT ![c] = "run"]
    /\ UNCHANGED <<host, thread, task_mask, answer, queue, idc_work, payload, clash, done, pm, events>>

\* idc_cmd: a delegated request enters ipc_cmd, other messages are run.
IdcRun(c) ==
    /\ idc[c] = "run"
    /\ IF received_msg[c].type = "IPC"
       THEN msg_reply' = "request" /\ idc' = [idc EXCEPT ![c] = "reply"]
       ELSE UNCHANGED msg_reply /\ idc' = [idc EXCEPT ![c] = "status"]
    /\ UNCHANGED <<host, thread, task_mask, reply, replies, queue, item, received_msg, done, pm, events>>

\* The end of ipc_cmd on core by.
SendReply(by) ==
    /\ msg_reply' = "reply"
    /\ reply' = [id |-> msg_in.id, by |-> by]
    /\ replies' = replies + 1
    /\ ipc_msg_send("msg_reply", TRUE)

\* The request is done: ipc_cmd answers it on the secondary core.
IdcReply(c) ==
    /\ idc[c] = "reply"
    /\ idc' = [idc EXCEPT ![c] = "status"]
    /\ IF msg_reply # "request" \/ "POWERDOWN" \in task_mask
       THEN UNCHANGED <<answer, msg_list, worker>>
       ELSE SendReply("secondary")
    /\ UNCHANGED <<host, thread, task_mask, tx, freed, item, received_msg, done, pm, events>>

\* Mutant of IdcStatus: idc_cmd leaves without setting the status.
IdcStatusKept(c) ==
    /\ idc[c] = "status"
    /\ IF received_msg[c].type = "IPC"
       THEN idc' = [idc EXCEPT ![c] = "clear"] /\ UNCHANGED done
       ELSE /\ idc' = [idc EXCEPT ![c] = "idle"]
            /\ done' = [done EXCEPT ![c] = TRUE]
    /\ UNCHANGED <<host, thread, task_mask, answer, queue, item, received_msg, pm, events>>

\* idc_msg_status_set at the end of idc_cmd; for all but a delegated request
\* idc_handler returns.
IdcStatus(c) ==
    /\ idc[c] = "status"
    /\ payload' = [payload EXCEPT ![c] = [what |-> "status", id |-> received_msg[c].id]]
    /\ IF received_msg[c].type = "IPC"
       THEN idc' = [idc EXCEPT ![c] = "clear"] /\ UNCHANGED done
       ELSE /\ idc' = [idc EXCEPT ![c] = "idle"]
            /\ done' = [done EXCEPT ![c] = TRUE]
    /\ UNCHANGED <<host, thread, task_mask, answer, queue, idc_work, pending, clash, received_msg, pm, events>>

\* Mutant of Complete: the host is signalled by the first context to finish.
CompleteEager(context) ==
    /\ task_mask' = task_mask \ {context}
    /\ busy' = FALSE

\* A context leaves the mask; ipc_complete_cmd signals the host after the last.
Complete(context) ==
    /\ task_mask' = task_mask \ {context}
    /\ busy' = (busy /\ task_mask' # {})

\* The end of idc_handler for a delegated request.
IdcClear(c) ==
    /\ idc[c] = "clear"
    /\ Complete("SECONDARY_CORE")
    /\ idc' = [idc EXCEPT ![c] = "idle"]
    /\ UNCHANGED <<awaiting, g_last_data, requests, thread, answer, queue, item, received_msg, done, pm, events>>

-----------------------------------------------------------------------------
(* A request of the host.                                                  *)

\* The host waits for the reply to a request, and for BUSY to clear, before
\* it sends the next.  message_handler keeps it and schedules the task.
HostRequest(k, c) ==
    /\ power = "on" /\ ~busy /\ ~awaiting /\ requests < MaxRequests
    /\ busy' = TRUE /\ awaiting' = TRUE /\ replies' = 0
    /\ requests' = requests + 1
    /\ g_last_data' = [id |-> requests + 1, kind |-> k, core |-> c]
    /\ ipc_task' = TRUE
    /\ UNCHANGED <<msg_in, edf, phase, task_mask, msg_reply, reply, queue, item, handler, pm, events>>

\* ipc_do_cmd, up to the switch of ipc_cmd.
DoCmd ==
    /\ ipc_task /\ edf = "idle" /\ power # "off"
    /\ ipc_task' = FALSE
    /\ task_mask' = {"INLINE"}
    /\ msg_in' = g_last_data
    /\ msg_reply' = "request"
    /\ edf' = "process"
    /\ phase' = 2
    /\ UNCHANGED <<host, reply, replies, queue, item, handler, pm, events>>

\* A request that deletes a module frees its notifications, each in a locked
\* section of its own.
FreeMsg(m) ==
    /\ edf = "process" /\ msg_in.kind = "local" /\ m \notin freed \cup LogStatus
    /\ freed' = freed \cup {m}
    /\ msg_list' = list_item_del(msg_list, m)
    /\ UNCHANGED <<host, thread, task_mask, answer, worker, tx, item, handler, pm, events>>

\* The end of a request for the primary core alone.
ProcessLocal ==
    /\ edf = "process" /\ msg_in.kind = "local"
    /\ edf' = "mask"
    /\ UNCHANGED <<host, msg_in, ipc_task, phase, task_mask, answer, queue, item, handler, pm, events>>

\* ipc_process_on_core without waiting, up to idc_send_msg.
ProcessRemote ==
    /\ edf = "process" /\ msg_in.kind = "remote"
    /\ IF msg_in.core \in enabled
       THEN edf' = "send" /\ task_mask' = task_mask \cup {"SECONDARY_CORE"}
       ELSE edf' = "mask" /\ UNCHANGED task_mask
    /\ UNCHANGED <<host, msg_in, ipc_task, phase, answer, queue, item, handler, pm, events>>

\* Its idc_send_msg.  A core that has meanwhile gone gets only the copy.
Delegate ==
    /\ edf = "send"
    /\ edf' = "mask"
    /\ IF msg_in.core \in enabled
       THEN idc_send_msg(msg_in.core, [type |-> "IPC", id |-> msg_in.id])
       ELSE UNCHANGED <<item, done>>
    /\ UNCHANGED <<host, msg_in, ipc_task, phase, task_mask, answer, queue, idc, received_msg, pm, events>>

\* ipc4_set_pipeline_state with pipelines of several cores: a blocking call
\* in the prepare phase, and one in the trigger phase.
CallCore ==
    /\ \/ edf = "process" /\ msg_in.kind = "multi"
       \/ edf = "call"
    /\ IF msg_in.core \in enabled
       THEN /\ edf' = "wait"
            /\ idc_send_msg(msg_in.core, [type |-> "PPL_STATE", id |-> msg_in.id])
       ELSE edf' = "mask" /\ UNCHANGED <<item, done>>
    /\ UNCHANGED <<host, msg_in, ipc_task, phase, task_mask, answer, queue, idc, received_msg, pm, events>>

\* k_p4wq_wait returns and idc_msg_status_get reads the status; after an error
\* the handler returns.
CallReturns ==
    /\ edf = "wait" /\ done[msg_in.core]
    /\ phase' = phase - 1
    /\ edf' \in IF phase = 1 THEN {"mask"} ELSE {"call", "mask"}
    /\ UNCHANGED <<host, msg_in, ipc_task, task_mask, answer, queue, item, handler, pm, events>>

\* k_p4wq_wait gives up after IDC_TIMEOUT; the request fails.
CallTimesOut ==
    /\ edf = "wait" /\ ~done[msg_in.core]
    /\ edf' = "mask"
    /\ UNCHANGED <<host, msg_in, ipc_task, phase, task_mask, answer, queue, item, handler, pm, events>>

\* ipc4_module_process_dx starts a core.
CoreOn ==
    /\ edf = "process" /\ msg_in.kind = "core_on"
    /\ edf' = "mask"
    /\ enabled' = enabled \cup {msg_in.core}
    /\ UNCHANGED <<host, msg_in, ipc_task, phase, task_mask, answer, queue, item, handler,
                   forced, pm_prepare_D3, power, events>>

Idle(c) == ~pending[c] /\ idc[c] = "idle"

\* It stops one, unless the core is not idle in time: the forced power state
\* then waits for the core.
CoreOff ==
    /\ edf = "process" /\ msg_in.kind = "core_off"
    /\ edf' = "mask"
    /\ IF msg_in.core \notin enabled THEN UNCHANGED <<enabled, forced>>
       ELSE IF Idle(msg_in.core) THEN enabled' = enabled \ {msg_in.core} /\ UNCHANGED forced
       ELSE forced' = forced \cup {msg_in.core} /\ UNCHANGED enabled
    /\ UNCHANGED <<host, msg_in, ipc_task, phase, task_mask, answer, queue, item, handler,
                   pm_prepare_D3, power, events>>

\* A core whose power state was forced becomes idle.
CoreIdles(c) ==
    /\ c \in forced /\ Idle(c)
    /\ enabled' = enabled \ {c} /\ forced' = forced \ {c}
    /\ UNCHANGED <<host, thread, task_mask, answer, queue, item, handler, pm_prepare_D3, power, events>>

\* It prepares D3, when the primary core is the last; it refuses otherwise, and
\* when a pipeline is active (is_any_ppl_active).
PrepareD3 ==
    /\ edf = "process" /\ msg_in.kind = "d3"
    /\ edf' = "mask"
    /\ \/ /\ enabled = {}
          /\ task_mask' = task_mask \cup {"POWERDOWN"} /\ pm_prepare_D3' = TRUE
       \/ UNCHANGED <<task_mask, pm_prepare_D3>>
    /\ UNCHANGED <<host, msg_in, ipc_task, phase, answer, queue, item, handler,
                   enabled, forced, power, events>>

\* Mutant of CheckMask: the mask is not looked at.
CheckMaskNever ==
    /\ edf = "mask"
    /\ edf' = "reply"
    /\ UNCHANGED <<host, msg_in, ipc_task, phase, task_mask, answer, queue, item, handler, pm, events>>

\* ipc_cmd: is the reply up to a secondary core?
CheckMask ==
    /\ edf = "mask"
    /\ edf' = IF "SECONDARY_CORE" \in task_mask THEN "complete" ELSE "reply"
    /\ UNCHANGED <<host, msg_in, ipc_task, phase, task_mask, answer, queue, item, handler, pm, events>>

\* Mutant of CheckReply: the header is not compared.
CheckReplyAlways ==
    /\ edf = "reply"
    /\ edf' = "complete"
    /\ IF "POWERDOWN" \in task_mask
       THEN UNCHANGED <<answer, msg_list, worker>>
       ELSE SendReply("primary")
    /\ UNCHANGED <<host, msg_in, ipc_task, phase, task_mask, tx, freed, item, handler, pm, events>>

\* Has it replied already?  Is the reply part of the power down?
CheckReply ==
    /\ edf = "reply"
    /\ edf' = "complete"
    /\ IF msg_reply # "request" \/ "POWERDOWN" \in task_mask
       THEN UNCHANGED <<answer, msg_list, worker>>
       ELSE SendReply("primary")
    /\ UNCHANGED <<host, msg_in, ipc_task, phase, task_mask, tx, freed, item, handler, pm, events>>

\* ipc_complete_task.
CompleteTask ==
    /\ edf = "complete"
    /\ Complete("INLINE")
    /\ edf' = "idle"
    /\ UNCHANGED <<awaiting, g_last_data, requests, msg_in, ipc_task, phase, answer, queue, item, handler, pm, events>>

-----------------------------------------------------------------------------
(* The primary core enters and leaves D3 when it idles.                    *)

\* ipc_device_suspend_handler.  A refusal is answered at once, past the
\* queue.  The hardware answers a D3 that is entered.
Suspend ==
    /\ power = "on" /\ pm_prepare_D3 /\ edf = "idle" /\ ~worker.running
    /\ awaiting' = FALSE
    /\ replies' = replies + 1
    /\ reply' = [id |-> msg_in.id, by |-> "primary"]
    /\ IF Range(msg_list) \subseteq LogStatus
       THEN power' = "off" /\ busy' = FALSE /\ UNCHANGED msg_reply
       ELSE power' = "refused" /\ msg_reply' = "reply" /\ UNCHANGED busy
    /\ UNCHANGED <<g_last_data, requests, thread, task_mask, queue, item, handler,
                   enabled, forced, pm_prepare_D3, events>>

\* ipc_device_resume_handler.
Resume ==
    /\ power = "off"
    /\ power' = "on"
    /\ task_mask' = {}
    /\ pm_prepare_D3' = FALSE
    /\ ipc_task' = FALSE
    /\ UNCHANGED <<host, msg_in, edf, phase, answer, queue, item, handler, enabled, forced, events>>

-----------------------------------------------------------------------------
Edf == DoCmd \/ ProcessLocal \/ ProcessRemote \/ Delegate \/ CallCore \/ CallReturns
          \/ CoreOn \/ CoreOff \/ PrepareD3 \/ CheckMask \/ CheckReply \/ CompleteTask
          \/ \E m \in Msg : FreeMsg(m)
IdcThread(c) == IdcStart(c) \/ IdcRun(c) \/ IdcReply(c) \/ IdcStatus(c) \/ IdcClear(c)
Worker == SendQueuedMsg \/ WorkHandlerEnd

Step ==
    \/ \E k \in Kind, c \in Core : HostRequest(k, c)
    \/ HostTakes
    \/ DoCmd \/ ProcessLocal \/ ProcessRemote \/ Delegate \/ CallCore \/ CallReturns
    \/ CallTimesOut \/ CoreOn \/ CoreOff \/ PrepareD3 \/ CheckMask \/ CheckReply \/ CompleteTask
    \/ \E c \in Core : \/ NotifyCore(c) \/ CoreIdles(c)
                       \/ IdcStart(c) \/ IdcRun(c) \/ IdcReply(c) \/ IdcStatus(c) \/ IdcClear(c)
    \/ \E m \in Msg : Notify(m) \/ FreeMsg(m)
    \/ SendQueuedMsg \/ WorkHandlerEnd
    \/ Suspend \/ Resume

Next == ~clash /\ Step

Spec == Init /\ [][Next]_vars

\* The threads run, the worker's delay passes, and the host takes messages.
Fairness ==
    /\ WF_vars(~clash /\ Edf) /\ WF_vars(~clash /\ Worker) /\ WF_vars(~clash /\ HostTakes)
    /\ WF_vars(~clash /\ Suspend)
    /\ \A c \in Core : WF_vars(~clash /\ IdcThread(c))

FairSpec == Spec /\ Fairness

-----------------------------------------------------------------------------
(* Properties.                                                             *)

\* The host's BUSY bit clears only when no context works on its request any
\* more: not the EDF thread, and no core it was passed to (the comments of
\* ipc_complete_cmd and of ipc_do_cmd).
HostSignalledLast ==
    ~busy => /\ edf = "idle" /\ ~ipc_task
             /\ task_mask = {} \/ power = "off"
             /\ \A c \in Core : /\ idc[c] # "idle" => received_msg[c].type # "IPC"
                                /\ pending[c] => idc_work[c].type # "IPC"

\* Whichever way the primary and a secondary core race through the end of
\* ipc_cmd, a request is answered once, and by the time BUSY clears.
ExactlyOneReply ==
    /\ replies <= 1
    /\ ~busy /\ requests > 0 => replies = 1

\* A reply waits for the worker, or for the host to take it.
Waiting == Listed(msg_list, "msg_reply")
InTransit == tx = "msg_reply" \/ Waiting

\* The reply the host reads is that of its last request, prepared by the core
\* that ran it.
ReplyMatches ==
    InTransit =>
        /\ reply.id = requests
        /\ reply.by = "secondary" => msg_in.kind = "remote"
        /\ reply.by = "primary" /\ msg_in.kind = "remote" => task_mask \subseteq {"INLINE"}

\* A message is in the queue at most once, and never after ipc_msg_free.
QueueSound == IsInjective(msg_list) /\ Range(msg_list) \cap freed = {}

\* The status a blocking caller reads is that of its call, and the command a
\* core reads from its payload is the caller's.
StatusBelongs ==
    ~clash =>
        /\ edf = "wait" /\ done[msg_in.core] =>
              payload[msg_in.core] = [what |-> "status", id |-> msg_in.id]
        /\ \A c \in Core : idc[c] = "run" /\ received_msg[c].type = "PPL_STATE" =>
              payload[c] = [what |-> "command", id |-> received_msg[c].id]

\* The request went to a core that went down under it, or was overwritten.
Lost == clash \/ (edf = "idle" /\ "SECONDARY_CORE" \in task_mask /\ msg_in.core \notin enabled)

\* Every request is answered, whichever cores take part.
RequestAnswered == awaiting ~> (~awaiting \/ Lost)

\* A notification sent is taken from the queue, unless D3 comes first.
NotificationSent ==
    \A m \in Msg : (Listed(msg_list, m) /\ worker.scheduled)
                       ~> (~Listed(msg_list, m) \/ pm_prepare_D3 \/ clash)

\* Messages to one core never meet (the comment in zephyr_idc.c on its work
\* items, "so no races can occur").
IdcSerial == ~clash

\* Except on the way to D3, a queue that is not empty is worked on
\* (ipc_msg_send "queues an IPC message for transmission").
QueueDrains ==
    msg_list # <<>> /\ (pm_prepare_D3 => power = "refused") => worker.scheduled \/ worker.running

-----------------------------------------------------------------------------
(* Strengthenings of HostSignalledLast.                                    *)

TypeOK ==
    /\ requests \in 0..MaxRequests /\ g_last_data \in Request /\ msg_in \in Request
    /\ idc_work \in [Core -> IdcMsg] /\ received_msg \in [Core -> IdcMsg]
    /\ pending \in [Core -> BOOLEAN]
    /\ idc \in [Core -> {"idle", "run", "reply", "status", "clear"}]
    /\ enabled \subseteq Core

\* Core c has a delegated request, queued or at work.
HasQueued(c) == pending[c] /\ idc_work[c].type = "IPC"
Runs(c) == idc[c] # "idle" /\ received_msg[c].type = "IPC"
InFlight(c) == HasQueued(c) \/ Runs(c)
NoneInFlight == \A c \in Core : ~InFlight(c)

\* Where the EDF thread has yet to pass the request on, or to do it itself.
Undecided == {"process", "send", "call", "wait"}

\* Each context is in the mask, at most one core has the request, and a
\* request that may be delegated is with none.
Contexts ==
    /\ edf # "idle" => "INLINE" \in task_mask
    /\ edf = "send" => "SECONDARY_CORE" \in task_mask
    /\ \A c \in Core : InFlight(c) => "SECONDARY_CORE" \in task_mask
    /\ \A c \in Core : ~(HasQueued(c) /\ Runs(c))
    /\ \A c \in Core : idc[c] \in {"reply", "clear"} => Runs(c)
    /\ \A c, d \in Core : InFlight(c) /\ InFlight(d) => c = d
    /\ ipc_task => edf = "idle"
    /\ ipc_task \/ edf \in Undecided => NoneInFlight

\* A core at work is on; D3 is prepared when all are off, and with it the mask
\* does not become empty.
PowerInv ==
    /\ \A c \in Core : pending[c] \/ idc[c] # "idle" => c \in enabled
    /\ pm_prepare_D3 => /\ enabled = {} /\ ~ipc_task
                        /\ "POWERDOWN" \in task_mask
                        /\ edf \in {"mask", "reply", "complete", "idle"}
    /\ power = "off" => ~busy /\ pm_prepare_D3

HandoverInv == TypeOK /\ HostSignalledLast /\ Contexts /\ PowerInv

\* Where the one reply is made: nobody has replied before the request is
\* decided or while a core has it, and whoever comes last to the end of
\* ipc_cmd finds the reply of the other.
Settled == (msg_reply = "request" /\ replies = 0) \/ (msg_reply = "reply" /\ replies = 1)
Decided ==
    /\ ipc_task \/ edf \in Undecided => replies = 0
    /\ edf \in Undecided => msg_reply = "request"
    /\ edf = "reply" => "SECONDARY_CORE" \notin task_mask
    /\ edf \in {"mask", "reply"} => Settled \/ "SECONDARY_CORE" \in task_mask
    /\ edf = "complete" => replies = 1 \/ "SECONDARY_CORE" \in task_mask \/ pm_prepare_D3
Delegated ==
    /\ \A c \in Core : HasQueued(c) => replies = 0
    /\ \A c \in Core : Runs(c) /\ idc[c] = "run" => replies = 0
    /\ \A c \in Core : idc[c] = "reply" => replies = 0 /\ msg_reply = "request"
    /\ \A c \in Core : Runs(c) /\ idc[c] \in {"status", "clear"} =>
                         replies = 1 /\ msg_reply = "reply"
PoweredDown ==
    /\ "POWERDOWN" \in task_mask => pm_prepare_D3
    /\ pm_prepare_D3 /\ power = "on" => replies = 0
    /\ power # "on" => pm_prepare_D3 /\ replies = 1
ReplyInv == Decided /\ Delegated /\ PoweredDown /\ replies \in {0, 1}

AnswerInv == HandoverInv /\ ReplyInv /\ ExactlyOneReply

-----------------------------------------------------------------------------
(* Strengthenings of QueueSound, StatusBelongs and ReplyMatches.           *)

QueueInv == msg_list \in Seq(Msg \cup {"msg_reply"}) /\ freed \subseteq Msg /\ QueueSound

\* A work item is not queued again while it runs.  The payload of a call is its
\* command until idc_cmd is done with it, and a core that is waited for has
\* nothing but the call.
ItemSound(c) ==
    /\ ~(pending[c] /\ idc[c] # "idle")
    /\ pending[c] /\ idc_work[c].type = "PPL_STATE" =>
          payload[c] = [what |-> "command", id |-> idc_work[c].id]
    /\ idc[c] = "run" /\ received_msg[c].type = "PPL_STATE" =>
          payload[c] = [what |-> "command", id |-> received_msg[c].id]
CallSound(c) ==
    edf = "wait" /\ msg_in.core = c =>
        /\ pending[c] => idc_work[c] = [type |-> "PPL_STATE", id |-> msg_in.id]
        /\ idc[c] # "idle" => received_msg[c] = [type |-> "PPL_STATE", id |-> msg_in.id]
        /\ done[c] => /\ ~pending[c] /\ idc[c] = "idle"
                      /\ payload[c] = [what |-> "status", id |-> msg_in.id]
StatusInv ==
    /\ done \in [Core -> BOOLEAN]
    /\ payload \in [Core -> [what : {"command", "status"}, id : 0..MaxRequests]]
    /\ ~clash => \A c \in Core : ItemSound(c) /\ CallSound(c)

\* Once the task has it, the request in msg_in is the host's last, and only a
\* remote one is with a core.
RequestKnown ==
    /\ g_last_data.id = requests
    /\ ~ipc_task => msg_in = g_last_data
    /\ task_mask \subseteq {"INLINE", "SECONDARY_CORE", "POWERDOWN"}
    /\ edf = "send" \/ ~NoneInFlight => msg_in.kind = "remote"

\* A reply on its way to the host is in one place, is the only one, and is
\* awaited: the host does not send its next request before it has taken it.
ReplyKnown ==
    /\ busy /\ replies = 0 => awaiting
    /\ InTransit => awaiting /\ replies = 1 /\ ~ipc_task
    /\ ~(tx = "msg_reply" /\ Waiting)
    /\ ReplyMatches
=============================================================================
